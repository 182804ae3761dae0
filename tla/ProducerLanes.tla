---------------------------- MODULE ProducerLanes ----------------------------
(***************************************************************************)
(* Producers of a run's evidence: its vendor lanes (VendorLanes) and a     *)
(* profile task of its source lane (ProfileTask).  They share no state, so *)
(* a behaviour has the ones or the other.                                  *)
(***************************************************************************)
EXTENDS VendorLanes, ProfileTask

laneVars == <<vars, taskVars>>

NoVendor == \A r \in Run : wants[r] = {}

LanesInit == VendorInit /\ TaskInit /\ (NoVendor <=> task # "none")
LanesNext ==
  \/ ~NoVendor /\ VendorNext /\ UNCHANGED taskVars
  \/ TaskNext /\ UNCHANGED vars

\* The runner works on, and a command that does not end is stopped by its time limit.
TaskWork == TaskStep /\ UNCHANGED vars
LanesSpec == LanesInit /\ [][LanesNext]_laneVars /\ VendorFairness /\ WF_laneVars(TaskWork)

-----------------------------------------------------------------------------
\* Every requested vendor lane ends, also when SonarQube Cloud never computes the analysis
\* (export_sonar_issues.py:55), and so does a profile task, whatever its command and its API
\* do (run_profile.py:64).
LanesEnd == <>(stage = "ended" /\ \A r \in Run : wants[r] \subseteq Over(r))
===============================================================================
