---------------------------- MODULE ReportContents ----------------------------
(***************************************************************************)
(* The two ways an analysis turns into what is shown: the bundle that is   *)
(* published of it (ReportBundle), and its comparison with the accepted    *)
(* baseline and with the analysis before (FindingHistory).  Both start     *)
(* from the canonical findings and share no state after that, so a         *)
(* behaviour follows the one or the other.                                 *)
(***************************************************************************)
EXTENDS ReportBundle, FindingHistory

VARIABLE shown   \* what this behaviour follows

contentsVars == <<bundleVars, historyVars, shown>>

\* The part a behaviour does not follow has nothing in it.
Nothing(c) == \A p \in Problem : c[p] = Gone
ContentsInit ==
  /\ BundleInit /\ HistoryInit /\ shown \in {"bundle", "history"}
  /\ shown = "bundle" => Nothing(code)
  /\ shown = "history" => (\A r \in Result : raw[r] = 0) /\ world = <<>> /\ ended = {}
ContentsNext ==
  \/ shown = "bundle" /\ BundleNext /\ UNCHANGED <<historyVars, shown>>
  \/ shown = "history" /\ HistoryNext /\ UNCHANGED <<bundleVars, shown>>
ContentsSpec == ContentsInit /\ [][ContentsNext]_contentsVars
===============================================================================
