----------------------------- MODULE OdcDocuments -----------------------------
(***************************************************************************)
(* Uploaded files beside their rows (OdcDocumentsService.upload,           *)
(* addUploadedDocument, scripts/cleanup-odc-orphan-files.ts): the file is  *)
(* written first, then the row in a transaction that replaces the slot's   *)
(* occupant, then the occupant's file goes; the script removes the files   *)
(* no row names.                                                           *)
(***************************************************************************)
EXTENDS Naturals

CONSTANTS
    Calls,              \* uploads in progress at a time
    DocTypes,           \* the slots of one application
    MaxFiles,           \* bound: files ever written
    MaxFaults           \* bound: uploads lost, statements that fail

VARIABLES
    slots,              \* file of the OdcDocument row of a slot, 0: no row
    stored,             \* files under ODC_UPLOAD_DIR
    written,            \* files ever written
    call,               \* what each upload is doing
    sweep,              \* what the script is doing
    exposed,            \* ghost: files uploaded during a sweep, or whose
                        \* upload failed after its transaction
    faults

vars == <<slots, stored, written, call, sweep, exposed, faults>>

Files == 1..MaxFiles
Idle == [pc |-> "idle", file |-> 0, replaced |-> 0]
CallStates == [pc : {"idle", "confirm", "persist", "rollback", "replace"},
               file : 0..MaxFiles, replaced : 0..MaxFiles]
NoSweep == [pc |-> "idle", files |-> {}]

At(c, point) == call[c].pc = point
Leave(c) == call' = [call EXCEPT ![c] = Idle]

(* The keys of the rows.                                                   *)
Referenced == {slots[d] : d \in DocTypes}

Init ==
    /\ slots = [d \in DocTypes |-> 0]
    /\ stored = {}
    /\ written = 0
    /\ call = [c \in Calls |-> Idle]
    /\ sweep = NoSweep
    /\ exposed = {}
    /\ faults = 0

(***************************************************************************)
(* upload                                                                  *)
(***************************************************************************)
Put(c) ==
    /\ At(c, "idle")
    /\ written < MaxFiles
    /\ written' = written + 1
    /\ stored' = stored \cup {written'}
    /\ call' = [call EXCEPT ![c] =
         [pc |-> "confirm", file |-> written', replaced |-> 0]]
    /\ exposed' = IF sweep.pc = "list"
                  THEN exposed \cup {written'} ELSE exposed
    /\ UNCHANGED <<slots, sweep, faults>>

Confirm(c) ==
    /\ At(c, "confirm")
    /\ IF call[c].file \in stored
       THEN call' = [call EXCEPT ![c].pc = "persist"] ELSE Leave(c)
    /\ UNCHANGED <<slots, stored, written, sweep, exposed, faults>>

(* The transaction.                                                        *)
Persist(c, d) ==
    /\ At(c, "persist")
    /\ slots' = [slots EXCEPT ![d] = call[c].file]
    /\ call' = [call EXCEPT ![c] =
         IF slots[d] = 0 THEN Idle
         ELSE [pc |-> "replace", file |-> 0, replaced |-> slots[d]]]
    /\ UNCHANGED <<stored, written, sweep, exposed, faults>>

(* The read of the application after the transaction fails: upload takes   *)
(* it for a failure of the transaction.                                    *)
PersistThenFail(c, d) ==
    /\ At(c, "persist")
    /\ faults < MaxFaults
    /\ faults' = faults + 1
    /\ slots' = [slots EXCEPT ![d] = call[c].file]
    /\ call' = [call EXCEPT ![c].pc = "rollback"]
    /\ exposed' = exposed \cup {call[c].file}
    /\ UNCHANGED <<stored, written, sweep>>

(* The status has changed, the slot was taken at the same time, or the     *)
(* database does not answer: the transaction is rolled back.               *)
Refuse(c) ==
    /\ At(c, "persist")
    /\ call' = [call EXCEPT ![c].pc = "rollback"]
    /\ UNCHANGED <<slots, stored, written, sweep, exposed, faults>>

(* storage.delete; an error of it is swallowed.                            *)
Remove(c, file) ==
    /\ \/ stored' = stored \ {file} /\ UNCHANGED faults
       \/ /\ faults < MaxFaults
          /\ faults' = faults + 1
          /\ UNCHANGED stored
    /\ Leave(c)
    /\ UNCHANGED <<slots, written, sweep, exposed>>

(* Mutant: the file is left where it is when its row is refused.           *)
KeepRefused(c) ==
    /\ At(c, "rollback")
    /\ Leave(c)
    /\ UNCHANGED <<slots, stored, written, sweep, exposed, faults>>

Rollback(c) == At(c, "rollback") /\ Remove(c, call[c].file)

DeleteReplaced(c) == At(c, "replace") /\ Remove(c, call[c].replaced)

Lose(c) ==
    /\ ~At(c, "idle")
    /\ faults < MaxFaults
    /\ faults' = faults + 1
    /\ Leave(c)
    /\ UNCHANGED <<slots, stored, written, sweep, exposed>>

(***************************************************************************)
(* cleanup-odc-orphan-files --delete: rows, then files, then deletions     *)
(***************************************************************************)
SweepRows ==
    /\ sweep.pc = "idle"
    /\ sweep' = [pc |-> "list", files |-> Referenced]
    /\ exposed' = exposed \cup ({call[c].file : c \in Calls} \ {0})
    /\ UNCHANGED <<slots, stored, written, call, faults>>

SweepFiles ==
    /\ sweep.pc = "list"
    /\ sweep' = [pc |-> "delete", files |-> stored \ sweep.files]
    /\ UNCHANGED <<slots, stored, written, call, exposed, faults>>

SweepDelete ==
    /\ sweep.pc = "delete"
    /\ IF sweep.files = {}
       THEN sweep' = NoSweep /\ UNCHANGED stored
       ELSE \E f \in sweep.files :
              /\ stored' = stored \ {f}
              /\ sweep' = [sweep EXCEPT !.files = @ \ {f}]
    /\ UNCHANGED <<slots, written, call, exposed, faults>>

Next ==
    \/ \E c \in Calls :
         \/ Put(c) \/ Confirm(c) \/ Refuse(c) \/ Rollback(c)
         \/ \E d \in DocTypes : Persist(c, d) \/ PersistThenFail(c, d)
         \/ DeleteReplaced(c) \/ Lose(c)
    \/ SweepRows \/ SweepFiles \/ SweepDelete

Spec == Init /\ [][Next]_vars

(***************************************************************************)
(* Properties                                                              *)
(***************************************************************************)
TypeOK ==
    /\ slots \in [DocTypes -> 0..MaxFiles]
    /\ stored \subseteq Files
    /\ written \in 0..MaxFiles
    /\ call \in [Calls -> CallStates]
    /\ sweep.pc \in {"idle", "list", "delete"}
    /\ sweep.files \subseteq 0..MaxFiles
    /\ exposed \subseteq Files
    /\ faults \in 0..MaxFaults

(* A received document can be downloaded, whichever upload replaced it or  *)
(* was rolled back: its file is there, unless it was uploaded during a     *)
(* sweep or its upload failed after the transaction.  And without a fault  *)
(* no file stays without its row.                                          *)
FilesMatchRows ==
    /\ \A d \in DocTypes : slots[d] \in stored \cup exposed \cup {0}
    /\ faults = 0 /\ (\A c \in Calls : At(c, "idle")) =>
         stored \subseteq Referenced

=============================================================================
