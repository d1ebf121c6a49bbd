-------------------------- MODULE PublicationPolicy --------------------------
(***************************************************************************)
(* evaluatePublication (publication-policy.ts): whether a piece of content *)
(* may be published.  An identifier is a sequence of characters, of which  *)
(* "," stands for whatever a serialization may put between two of them.    *)
(***************************************************************************)
EXTENDS Naturals, Sequences, SequencesExt

Comma == ","
Identifiers == {<<>>, <<"a">>, <<"a", Comma, "a">>}
Revisions == {0, 1}
Digits(revision) == IF revision = 0 THEN <<"0">> ELSE <<"1">>

(* Of PublicationBinding: the organization, the document, the target and   *)
(* the two counters; the digest and the destination behave like the first. *)
Bindings ==
    [organization : Identifiers, document : Identifiers, target : Identifiers,
     revision : Revisions]

ValidBinding(b) ==
    /\ b.organization # <<>> /\ b.document # <<>> /\ b.target # <<>>
    /\ b.revision > 0

(* Mutant: the fields joined by a separator.                               *)
JoinedKey(b) ==
    FlattenSeq(<<b.organization, <<Comma>>, b.document, <<Comma>>,
                 Digits(b.revision), <<Comma>>, b.target>>)

(* The digest of a JSON array: distinct arrays have distinct digests.      *)
OperationKey(b) == <<b.organization, b.document, Digits(b.revision), b.target>>

Attempts == {"none", "in_flight", "unknown", "confirmed", "failed"}

EvaluatePublication(i) ==
    IF ~ValidBinding(i.current) THEN "invalid_binding"
    ELSE IF ~i.publishingEnabled THEN "publishing_disabled"
    ELSE IF ~i.connectionReady THEN "connection_unavailable"
    ELSE IF ~i.approved THEN "approval_required"
    ELSE IF ~ValidBinding(i.approval) \/ OperationKey(i.current) # OperationKey(i.approval)
      THEN "approval_stale"
    ELSE IF i.previous = "confirmed" THEN "already_confirmed"
    ELSE IF i.previous # "none" THEN "reconciliation_required"
    ELSE "allowed"

Inputs ==
    [current : Bindings, approval : Bindings,
     approved : {TRUE}, publishingEnabled : {TRUE}, connectionReady : {TRUE},
     previous : {"none", "confirmed"}]
      \cup [current : {b \in Bindings : b.revision = 1 /\ b.target = <<"a">>},
            approval : {b \in Bindings : b.revision = 1 /\ b.target = <<"a">>},
            approved : BOOLEAN, publishingEnabled : BOOLEAN,
            connectionReady : BOOLEAN, previous : Attempts]

(* Exactly what was approved is published, and only while no attempt is    *)
(* known: an approval never covers another document, revision or target    *)
(* whose identifiers merely read alike.                                    *)
ApprovalBindsPublication(i) ==
    EvaluatePublication(i) = "allowed" =>
      i.approval = i.current /\ i.approved /\ i.previous = "none"

=============================================================================
