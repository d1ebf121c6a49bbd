-------------------------- MODULE MCAutomationRuns --------------------------
(***************************************************************************)
(* Values for checking AutomationRuns.  Calls are interchangeable, and so  *)
(* are automations: a call goes through those it matched in any order.     *)
(***************************************************************************)
EXTENDS AutomationRuns, TLC

AnyEdit == {"enabled", "requiresApproval", "steps", "context"}

Symmetry == Permutations(Calls) \cup Permutations(Automations)
=============================================================================
