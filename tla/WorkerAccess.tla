----------------------------- MODULE WorkerAccess -----------------------------
(***************************************************************************)
(* The two kinds of callers the Worker lets in: reviewers with a session   *)
(* (Sessions) and jobs with the API token (TokenRotation).  They share the *)
(* Worker but no state, so a behaviour follows the ones or the others.     *)
(***************************************************************************)
EXTENDS Sessions, TokenRotation

VARIABLE followed   \* the callers of this behaviour

accessVars == <<sessionVars, rotationVars, followed>>

AccessInit == SessionInit /\ RotationInit /\ followed \in {"reviewers", "jobs"}
AccessNext ==
  \/ followed = "reviewers" /\ SessionNext /\ UNCHANGED <<rotationVars, followed>>
  \/ followed = "jobs" /\ RotationNext /\ UNCHANGED <<sessionVars, followed>>
AccessSpec == AccessInit /\ [][AccessNext]_accessVars
===============================================================================
