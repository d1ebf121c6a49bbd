----------------------------- MODULE MCServices -----------------------------
(***************************************************************************)
(* Services for TLC: since the services share no rows, a behaviour explores*)
(* one of them, named by `part`, while the others stay in their initial    *)
(* state.  The pure algorithms are a part too, which the invariant         *)
(* evaluates on all their inputs.                                          *)
(***************************************************************************)
EXTENDS Services, TLC

CONSTANTS k1, k2,       \* accounts, users, rules, criteria, tokens ...
          s1, s2        \* sites, Pages

VARIABLE part

parts == <<services, part>>

MCSitesOf == k1 :> {s1, s2} @@ k2 :> {s2}
CallSymmetry == Permutations(Calls)
MCWeight == k1 :> 2 @@ k2 :> 1

Tree == INSTANCE Conditions
Findings == INSTANCE MetaFindings WITH MinPosts <- 2
Scoring == INSTANCE SeoScoring
Guard == INSTANCE MigrationGuard
Policy == INSTANCE PublicationPolicy

(* The event that the automations' actions read matters only to them, and  *)
(* so does the site to the crawl.                                          *)
PartsInit ==
    /\ part \in Components \cup {"algorithms"}
    /\ Init
    /\ part # "actions" => input = CHOOSE v \in Ops!Values : TRUE
    /\ part # "crawl" => queue = <<>>

PartsNext == Step(part) /\ UNCHANGED part

PartsSpec == PartsInit /\ [][PartsNext]_parts

(* What the algorithms promise of every input.                             *)
Algorithms ==
    part = "algorithms" =>
      /\ \A i \in Tree!Inputs : Tree!AbsenceIsNotEvidence(i)
      /\ \A i \in Findings!Inputs : Findings!NothingInvented(i)
      /\ \A i \in Scoring!Inputs : Scoring!RepairingHelps(i)
      /\ \A i \in Guard!Inputs : Guard!MigratesWhatTheAppUses(i)
      /\ \A i \in Policy!Inputs : Policy!ApprovalBindsPublication(i)

=============================================================================
