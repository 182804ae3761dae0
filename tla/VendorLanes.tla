------------------------------ MODULE VendorLanes ------------------------------
(***************************************************************************)
(* The vendor lanes of the runs of a project (reusable-vendor.yml) beside  *)
(* the report of each run: the lanes work at the same time and wait for    *)
(* the claim only, and so does the source lane, whose last job collects    *)
(* what the run retained until then (source_identity.py) and assembles a   *)
(* row for each requested channel (snapshot.py).  SonarQube (SonarLane)    *)
(* and CodeRabbit (ReviewLane, for one of the runs) are composed with      *)
(* Snyk, a single step here.                                               *)
(*                                                                         *)
(* The workflow imports the CodeRabbit collector from a checkout that      *)
(* lacks a module it needs, so that today the lane is lost before its      *)
(* first step; ReviewLost is one of the ends it may have here.             *)
(***************************************************************************)
EXTENDS SonarLane, ReviewLane

CONSTANTS Scenarios,  \* what the runs are asked for, the project and the pull request at first
          Reviewed, \* the run of the pull request
          SnykIssues,   \* the issues a Snyk scan may report
          Unknown

ASSUME VendorAssumption ==
  /\ Scenarios \subseteq [wants : [Run -> SUBSET {"sonar", "snyk", "coderabbit"}], tokens : SUBSET {"scan", "read"},
                          project : {"absent", "private", "public"}, main : Branch,
                          older : Nat, moved : BOOLEAN]
  /\ Reviewed \in Run /\ SnykIssues \subseteq Nat /\ Unknown \notin Nat

VARIABLES wants,  \* run |-> the vendor channels requested
          snyk,   \* run |-> what the Snyk job left: its status, and the issues of each file retained
          ended,  \* run |-> the other lanes that ended: "snyk", "coderabbit"
          report  \* run |-> channel |-> the row of the report, None before it is assembled

vars == <<sonarVars, reviewVars, wants, snyk, ended, report>>

-----------------------------------------------------------------------------
(* Snyk: a scan that fails leaves no file, and the status does not tell.    *)
SnykFiles == [{"sca", "code"} -> SnykIssues \cup {None}]

SnykRuns(r) ==
  /\ "snyk" \in wants[r] \ ended[r] /\ ended' = [ended EXCEPT ![r] = @ \cup {"snyk"}]
  /\ \E files \in SnykFiles : snyk' = [snyk EXCEPT ![r] = [status |-> "CONFIGURED_COMPLETE", files |-> files]]
  /\ UNCHANGED <<sonarVars, reviewVars, wants, report>>

NoFiles == [surface \in {"sca", "code"} |-> None]
SnykUnconfigured(r) ==
  /\ "snyk" \in wants[r] \ ended[r] /\ ended' = [ended EXCEPT ![r] = @ \cup {"snyk"}]
  /\ snyk' = [snyk EXCEPT ![r] = [status |-> "NOT_CONFIGURED", files |-> NoFiles]]
  /\ UNCHANGED <<sonarVars, reviewVars, wants, report>>

SnykLost(r) ==
  /\ "snyk" \in wants[r] \ ended[r] /\ ended' = [ended EXCEPT ![r] = @ \cup {"snyk"}]
  /\ UNCHANGED <<sonarVars, reviewVars, wants, snyk, report>>

-----------------------------------------------------------------------------
(* The other lanes.                                                         *)
Sonar ==
  /\ Compute \/ \E r \in Run : "sonar" \in wants[r] /\ (SonarStep(r) \/ RequestFails(r) \/ SonarLost(r))
  /\ UNCHANGED <<reviewVars, wants, snyk, ended, report>>

Review ==
  /\ "coderabbit" \in wants[Reviewed]
  /\ (Reviewer \/ ("coderabbit" \notin ended[Reviewed] /\ CollectStep))
  /\ UNCHANGED <<sonarVars, wants, snyk, ended, report>>

\* The job uploads what the collector wrote, or is lost, perhaps before it does.
ReviewEnds ==
  /\ "coderabbit" \in wants[Reviewed] \ ended[Reviewed] /\ at = "done"
  /\ ended' = [ended EXCEPT ![Reviewed] = @ \cup {"coderabbit"}]
  /\ UNCHANGED <<sonarVars, reviewVars, wants, snyk, report>>
ReviewLost ==
  /\ "coderabbit" \in wants[Reviewed] \ ended[Reviewed] /\ verdict' = "none"
  /\ ended' = [ended EXCEPT ![Reviewed] = @ \cup {"coderabbit"}]
  /\ UNCHANGED <<sonarVars, pull, at, next, seen, promised, taken, partial, unavailable, wants, snyk, report>>

-----------------------------------------------------------------------------
(* The report.                                                              *)
Complete == {"CONFIGURED_COMPLETE", "COMPLETED_OPTIONAL"}

\* Without a status file a channel is complete if anything was found and unavailable otherwise;
\* a count is known if something was found, or the status is complete.
Row(state, found) ==
  LET shownAs == IF state # None THEN state ELSE IF found > 0 THEN "COMPLETED_OPTIONAL" ELSE "NOT_AVAILABLE" IN
  [status |-> shownAs, findings |-> IF found > 0 \/ shownAs \in Complete THEN found ELSE Unknown]

Issues(file) == IF file = None THEN 0 ELSE file
SonarRow(r) == IF kept[r] = {} THEN Row(None, 0) ELSE Row(status[r], IF native[r] = None THEN 0 ELSE Cardinality(native[r]))
SnykRow(r) == IF snyk[r] = None THEN Row(None, 0)
              ELSE Row(snyk[r].status, Issues(snyk[r].files["sca"]) + Issues(snyk[r].files["code"]))
ReviewRow(r) == IF "coderabbit" \notin ended[r] \/ verdict = "none" THEN Row(None, 0) ELSE Row(verdict, taken)

\* The report does not wait for the vendor lanes.
Assemble(r) ==
  /\ wants[r] # {} /\ report[r] = None
  /\ report' = [report EXCEPT ![r] = [c \in wants[r] |->
       CASE c = "sonar" -> SonarRow(r) [] c = "snyk" -> SnykRow(r) [] c = "coderabbit" -> ReviewRow(r)]]
  /\ UNCHANGED <<sonarVars, reviewVars, wants, snyk, ended>>

VendorInit ==
  /\ \E s \in Scenarios : /\ wants = s.wants /\ tokens = s.tokens /\ project = s.project /\ main = s.main
                          /\ older = s.older /\ moved = s.moved
  /\ SonarInit /\ ReviewInit
  /\ snyk = [r \in Run |-> None] /\ ended = [r \in Run |-> {}] /\ report = [r \in Run |-> None]
VendorNext ==
  \/ Sonar \/ Review \/ ReviewEnds \/ ReviewLost
  \/ \E r \in Run : SnykRuns(r) \/ SnykUnconfigured(r) \/ SnykLost(r) \/ Assemble(r)

\* The runners work on; neither SonarQube Cloud nor the reviewer has to.
LaneWork(r) == "sonar" \in wants[r] /\ SonarStep(r) /\ UNCHANGED <<reviewVars, wants, snyk, ended, report>>
CollectWork == "coderabbit" \in wants[Reviewed] \ ended[Reviewed] /\ CollectStep
               /\ UNCHANGED <<sonarVars, wants, snyk, ended, report>>
VendorFairness ==
  /\ \A r \in Run : WF_vars(LaneWork(r)) /\ WF_vars(SnykRuns(r))
  /\ WF_vars(CollectWork) /\ WF_vars(ReviewEnds)

-----------------------------------------------------------------------------
(* Properties.                                                              *)
\* A run whose SonarQube status is complete has had its analysis computed, and holds every
\* issue of its revision and no other, whatever failed, was skipped or came late, unless what
\* its branch shows changed while it read the issues.  Then it may hold those of another
\* revision, and calls itself complete all the same (finalize_sonar_status.py:40); they are of
\* an analysis computed after its own, never of an older one.
CompleteIsExact ==
  \A r \in Run : status[r] = "CONFIGURED_COMPLETE" =>
    /\ computed[r] = "success"
    /\ ~replaced[r] => native[r] = {r} \X (1..Pages[r])
    /\ \A issue \in native[r] : issue[1] \notin before[r]

\* The review evidence that counts as collected holds all comments that came with the reviews
\* it was seen by, however the reviewer works on meanwhile (collect_coderabbit.py:136-184).
ReviewIsWhole == verdict = "COMPLETED_OPTIONAL" /\ seen = "review" => taken >= promised

\* A report that shows no finding for SonarQube or CodeRabbit as a number shows it of a
\* lane that completed with nothing in its evidence, never of one that failed, was lost or is
\* still at work when the report is assembled (snapshot.py:72).  Whose issues the evidence of
\* SonarQube has is CompleteIsExact's.
ZeroIsMeasured ==
  \A r \in Run : report[r] # None =>
    /\ ("sonar" \in wants[r] /\ report[r]["sonar"].findings = 0 => export[r] = "success" /\ native[r] = {})
    /\ ("coderabbit" \in wants[r] /\ report[r]["coderabbit"].findings = 0 => verdict = "COMPLETED_OPTIONAL" /\ taken = 0)

\* The lanes of a run that ended.
Over(r) == ended[r] \cup (IF step[r] = "ended" THEN {"sonar"} ELSE {})
===============================================================================
