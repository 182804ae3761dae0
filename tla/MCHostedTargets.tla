---------------------------- MODULE MCHostedTargets ----------------------------
(* Small instances of HostedTargets.                                        *)
EXTENDS HostedTargets

CONSTANTS main, next, r1, r2

PreferredFirst == [t \in Target |-> IF t = main THEN 0 ELSE 1]
BranchAndPull == [t \in Target |-> IF t = main THEN "branch" ELSE "pr"]

MainMoves == [t \in Target |-> IF t = main THEN {r1, r2} ELSE {r1}]

\* The preferred branch is there; a pull request may be opened at its revision, before or
\* after the branch was analysed there.
MCHostedInit ==
  HostedInit /\ head = [t \in Target |-> IF t = main THEN r1 ELSE Closed] /\ changes = 0 /\ faults = 0
MCHostedSpec == MCHostedInit /\ [][HostedNext]_hostedVars
===============================================================================
