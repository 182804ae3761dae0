-------------------------- MODULE ProducerLanesProofs --------------------------
(***************************************************************************)
(* Theorems of ProducerLanes, for any runs, branches, revisions and        *)
(* bounds: of the profile tasks, the SonarQube and CodeRabbit lanes, and   *)
(* the report beside them.                                                 *)
(***************************************************************************)
EXTENDS ProducerLanes, FiniteSetTheorems, TLAPS

-----------------------------------------------------------------------------
(* Profile tasks.                                                           *)

\* Where an API runs, what a file that was checked in can be, and what each status rests on.
TaskInv ==
  /\ task \in {"none", "python-test", "javascript-test", "api-fuzz", "adapter"}
  /\ task = "none" => stage = "ended"
  /\ server # "down" => task = "api-fuzz" /\ stage \notin {"start", "ended"}
  /\ stage \in {"polling", "fuzzing", "passed", "failed", "terminating"} => task = "api-fuzz"
  /\ output \in {"none", "checked-in", "broken", "foreign", "whole"}
  /\ output = "checked-in" =>
       checkedIn /\ (task \in {"python-test", "adapter"} => stage = "start" \/ (stage = "ended" /\ taskStatus = "none"))
  /\ output = "foreign" => task = "adapter"
  /\ stage = "passed" => output \in {"checked-in", "whole"}
  /\ taskStatus # "none" => stage \in {"terminating", "ended"}
  /\ CompletedIsFresh

-----------------------------------------------------------------------------
(* The evidence of the reviewer.                                            *)

\* The comments promised by the reviews that were read are still there, and a collector that has
\* not ended has said nothing.
ReviewInv ==
  /\ {older, reviews, comments, promised, taken} \subseteq Nat /\ next \in Nat \ {0}
  /\ at \in {"lookup", "reviews", "comments", "status", "done"}
  /\ verdict \in {"none", "UNAVAILABLE", "PARTIAL", "COMPLETED_OPTIONAL", "NOT_AVAILABLE"}
  /\ promised <= comments
  /\ at # "done" => verdict = "none"
  /\ at \in {"lookup", "reviews"} => seen = "none"
  /\ at = "status" => seen # "review"
  /\ ReviewIsWhole

-----------------------------------------------------------------------------
(* SonarQube.                                                               *)

Early == {"snapshot", "show", "create", "shown", "branches", "rename", "scan"}
Late == {"upload", "reconcile", "ended"}
Statuses == {"NOT_CONFIGURED", "OPERATIONAL_FAILURE", "CONFIGURED_COMPLETE"}

CloudTypes ==
  /\ queue \in Seq(Run) /\ computed \in [Run -> {"none", "success", "failed"}]
  /\ shown \in [Branch -> Run \cup {None}] /\ main \in Branch /\ beside \subseteq Branch
  /\ before \in [Run -> SUBSET Run] /\ replaced \in [Run -> BOOLEAN]
JobTypes ==
  /\ step \in [Run -> Early \cup Exporting \cup {"finalize"} \cup Late]
  /\ scan \in [Run -> {"", "success", "failure", "skipped"}]
  /\ export \in [Run -> {"", "success", "failure", "skipped"}]
  /\ page \in [Run -> Nat \ {0}] /\ got \in [Run -> SUBSET (Run \X Nat)]
  /\ native = [r \in Run |-> native[r]] /\ status \in [Run -> Statuses \cup {None}]
  /\ kept \in [Run -> SUBSET {"intermediate", "vendor"}]

\* An analysis is submitted once, by a run that goes on to export it.
Queued(r) == \E i \in 1..Len(queue) : queue[i] = r
QueueInv ==
  /\ \A i, j \in 1..Len(queue) : queue[i] = queue[j] => i = j
  /\ \A r \in Run : Queued(r) => computed[r] = "none"
  /\ \A r \in Run : step[r] \in Early => ~Queued(r) /\ computed[r] = "none"

\* A branch beside the main one takes no other's name, and what the main one shows, under
\* whatever names, only gets newer: so does what the branch of a computed run shows.
NotOlder(r) ==
  /\ shown[BranchOf[r]] \notin before[r]
  /\ BranchOf[r] \in beside \/ shown[main] \notin before[r]
CloudInv ==
  /\ main \notin beside
  /\ \A r \in Run : \A q \in before[r] : computed[q] = "success"
  /\ \A r \in Run : computed[r] = "success" => NotOlder(r)

\* The branch of a run that exports shows the run's own analysis until that is replaced.
ShowsOwn(r) == computed[r] = "success" => replaced[r] \/ shown[BranchOf[r]] = r

\* What was read is the pages of the run's own analysis, in order, unless it was replaced, and
\* never of one that was computed before.
UpTo(r, n) == {r} \X (1..n)
Newer(r, pages) == \A x \in pages : x[1] \notin before[r]
ReadOf(r) ==
  /\ step[r] \in Early \cup {"poll"} => got[r] = {} /\ page[r] = 1
  /\ step[r] \in {"pages", "verify"} => computed[r] = "success"
  /\ step[r] \in Exporting => ShowsOwn(r)
  /\ step[r] = "pages" =>
       replaced[r] \/ (got[r] = UpTo(r, page[r] - 1) /\ (page[r] = 1 \/ page[r] <= Pages[r]))
  /\ step[r] = "verify" => replaced[r] \/ got[r] = UpTo(r, Pages[r])
  /\ computed[r] # "success" => got[r] = {}
  /\ IsFiniteSet(got[r]) /\ Newer(r, got[r])

\* What the outcome of the export, the status and the artifacts stand for.
StatusOf(r) ==
  /\ export[r] # "" => step[r] \in {"finalize"} \cup Late
  /\ export[r] = "success" =>
       /\ computed[r] = "success" /\ (replaced[r] \/ native[r] = UpTo(r, Pages[r]))
       /\ IsFiniteSet(native[r]) /\ Newer(r, native[r])
  /\ export[r] # "success" => native[r] = None
  /\ status[r] # None => step[r] \in Late
  /\ status[r] = "CONFIGURED_COMPLETE" => export[r] = "success" /\ native[r] # None
  /\ kept[r] # {} => step[r] \in {"reconcile", "ended"}

SonarInv ==
  /\ CloudTypes /\ JobTypes /\ QueueInv /\ CloudInv
  /\ \A r \in Run : ReadOf(r) /\ StatusOf(r)

-----------------------------------------------------------------------------
(* The report.                                                              *)

\* A row that shows no finding as a number was made of evidence that does not change any more.
ReportInv ==
  \A r \in Run : report[r] # None =>
    /\ "sonar" \in wants[r] /\ report[r]["sonar"].findings = 0 =>
         export[r] = "success" /\ native[r] = {} /\ step[r] \in Late
    /\ "coderabbit" \in wants[r] /\ report[r]["coderabbit"].findings = 0 =>
         verdict = "COMPLETED_OPTIONAL" /\ taken = 0 /\ at = "done" /\ "coderabbit" \in ended[r]

\* Only the lane of the reviewed run ends with the evidence of the reviewer.
EndedInv == DOMAIN ended = Run /\ \A r \in Run : "coderabbit" \in ended[r] => r = Reviewed

LanesInv == TaskInv /\ ReviewInv /\ SonarInv /\ ReportInv /\ EndedInv /\ DOMAIN report = Run

-----------------------------------------------------------------------------
(* Profile tasks.                                                           *)

LEMMA TaskStart == TaskInit => TaskInv
  BY DEF TaskInit, TaskInv, CompletedIsFresh

LEMMA TaskKept ==
  ASSUME TaskInv, [TaskNext]_taskVars
  PROVE  TaskInv'
<1> USE DEF TaskInv, CompletedIsFresh
<1>1. CASE Start
  BY <1>1 DEF Start
<1>2. CASE BadLimit \/ BadAddress \/ Mismatch
  BY <1>2 DEF BadLimit, BadAddress, Mismatch
<1>3. CASE CommandEnds
  BY <1>3 DEF CommandEnds
<1>4. CASE Conclude
  BY <1>4 DEF Conclude, TaskVerdict, AdapterVerdict, Measured
<1>5. CASE Answers \/ NoAnswer
  BY <1>5 DEF Answers, NoAnswer
<1>6. CASE Judge
  BY <1>6 DEF Judge
<1>7. CASE Settle
  BY <1>7 DEF Settle
<1>8. CASE StopServer
  BY <1>8 DEF StopServer
<1>9. CASE Api
  BY <1>9 DEF Api
<1>10. CASE Materialize
  BY <1>10 DEF Materialize
<1>12. CASE BadProfile
  BY <1>12 DEF BadProfile
<1>11. CASE UNCHANGED taskVars
  BY <1>11 DEF taskVars
<1> QED
  BY <1>1, <1>2, <1>3, <1>4, <1>5, <1>6, <1>7, <1>8, <1>9, <1>10, <1>11, <1>12 DEF TaskNext, TaskStep

-----------------------------------------------------------------------------
(* The evidence of the reviewer.                                            *)

LEMMA ReviewStart == VendorInit => ReviewInv
<1> SUFFICES ASSUME VendorInit PROVE ReviewInv
  OBVIOUS
<1>1. PICK s \in Scenarios : older = s.older
  BY DEF VendorInit
<1>2. older \in Nat
  BY <1>1, VendorAssumption
<1> QED
  BY <1>2 DEF VendorInit, ReviewInit, ReviewInv, ReviewIsWhole

LEMMA PullKept ==
  ASSUME ReviewInv, Reviewer
  PROVE  ReviewInv'
  BY ReviewAssumption DEF Reviewer, Posts, Signals, HeadMoves, ReviewInv, ReviewIsWhole

\* A list that was read to its end is read completely.
LEMMA ReadToTheEnd ==
  ASSUME ReviewInv, at \in {"reviews", "comments"}, Last, ~Beyond
  PROVE  ReadRows = Rows /\ Rows \in Nat
<1>1. next * PageRows \in Nat
  BY ReviewAssumption DEF ReviewInv
<1>2. Rows \in Nat
  BY DEF Rows, ReviewInv
<1>3. Rows < next * PageRows
  BY <1>1, <1>2 DEF Last, Beyond, Full
<1> QED
  BY <1>2, <1>3 DEF ReadRows

LEMMA CollectKept ==
  ASSUME ReviewInv, CollectStep
  PROVE  ReviewInv'
<1> USE DEF ReviewInv, ReviewIsWhole
<1>1. CASE Lookup \/ LookupFails
  BY <1>1 DEF Lookup, LookupFails, Goes, After, Verdict, pull
<1>2. CASE MorePages
  BY <1>2 DEF MorePages, pull
<1>3. CASE ListFails
  BY <1>3 DEF ListFails, Goes, Verdict, pull
<1>4. CASE ReadReviews
  BY <1>4 DEF ReadReviews, Goes, After, Verdict, pull
<1>5. CASE ReadComments
  <2>1. taken' = comments
    <3>1. ReadRows = older + comments
      BY <1>5, ReadToTheEnd DEF ReadComments, Rows
    <3> QED
      BY <1>5, <3>1 DEF ReadComments
  <2> QED
    BY <1>5, <2>1 DEF ReadComments, Goes, After, Verdict, pull
<1>6. CASE ReadStatus \/ StatusFails
  BY <1>6 DEF ReadStatus, StatusFails, Goes, Verdict, pull
<1> QED
  BY <1>1, <1>2, <1>3, <1>4, <1>5, <1>6 DEF CollectStep

LEMMA ReviewKept ==
  ASSUME ReviewInv, [VendorNext]_vars
  PROVE  ReviewInv'
<1>1. CASE Review
  BY <1>1, PullKept, CollectKept DEF Review
<1>2. CASE ReviewLost
  BY <1>2 DEF ReviewLost, ReviewInv, ReviewIsWhole, pull
<1>3. CASE Sonar \/ ReviewEnds \/ (\E r \in Run : SnykRuns(r) \/ SnykUnconfigured(r) \/ SnykLost(r) \/ Assemble(r)) \/ UNCHANGED vars
  <2>1. UNCHANGED reviewVars
    BY <1>3 DEF Sonar, ReviewEnds, SnykRuns, SnykUnconfigured, SnykLost, Assemble, vars
  <2> QED
    BY <2>1 DEF reviewVars, pull, ReviewInv, ReviewIsWhole
<1> QED
  BY <1>1, <1>2, <1>3 DEF VendorNext

-----------------------------------------------------------------------------
(* SonarQube: the project and the analyses.                                 *)

LEMMA SonarStart == VendorInit => SonarInv
<1> SUFFICES ASSUME VendorInit PROVE SonarInv
  OBVIOUS
<1>1. PICK s \in Scenarios : main = s.main
  BY DEF VendorInit
<1>2. main \in Branch
  BY <1>1, VendorAssumption
<1>3. SonarInit
  BY DEF VendorInit
<1>0. queue = <<>>
  BY <1>3 DEF SonarInit
<1>4. CloudTypes /\ JobTypes
  <2>1. queue \in Seq(Run)
    BY <1>0
  <2>2. computed \in [Run -> {"none", "success", "failed"}] /\ shown \in [Branch -> Run \cup {None}] /\ beside \subseteq Branch
    BY <1>3 DEF SonarInit
  <2>9. before \in [Run -> SUBSET Run] /\ replaced \in [Run -> BOOLEAN]
    BY <1>3 DEF SonarInit
  <2>3. step \in [Run -> Early \cup Exporting \cup {"finalize"} \cup Late]
    BY <1>3 DEF SonarInit, Early
  <2>4. got \in [Run -> SUBSET (Run \X Nat)] /\ kept \in [Run -> SUBSET {"intermediate", "vendor"}]
    BY <1>3 DEF SonarInit
  <2>5. scan \in [Run -> {"", "success", "failure", "skipped"}] /\ export \in [Run -> {"", "success", "failure", "skipped"}]
    BY <1>3 DEF SonarInit
  <2>6. page \in [Run -> Nat \ {0}]
    <3>1. page = [r \in Run |-> 1]
      BY <1>3 DEF SonarInit
    <3>2. 1 \in Nat \ {0}
      OBVIOUS
    <3> QED
      BY <3>1, <3>2
  <2>8. status \in [Run -> Statuses \cup {None}]
    BY <1>3 DEF SonarInit
  <2>7. native = [r \in Run |-> native[r]]
    BY <1>3 DEF SonarInit
  <2> QED
    BY <1>2, <2>1, <2>2, <2>3, <2>4, <2>5, <2>6, <2>7, <2>8, <2>9 DEF CloudTypes, JobTypes
<1>5. QueueInv
  <2>1. \A i \in 1..Len(queue) : FALSE
    BY <1>0
  <2>2. \A r \in Run : computed[r] = "none"
    BY <1>3 DEF SonarInit
  <2> QED
    BY <2>1, <2>2 DEF QueueInv, Queued
<1>6. CloudInv
  BY <1>3 DEF SonarInit, CloudInv
<1>7. \A r \in Run : ReadOf(r)
  <2>1. IsFiniteSet({})
    BY FS_EmptySet
  <2> QED
    BY <1>3, <2>1 DEF SonarInit, ReadOf, Early, Exporting, Newer
<1>8. \A r \in Run : StatusOf(r)
  BY <1>3, SonarAssumption DEF SonarInit, StatusOf
<1> QED
  BY <1>4, <1>5, <1>6, <1>7, <1>8 DEF SonarInv

\* What a step leaves of the project: what is computed stays so, what is replaced stays so, and
\* a branch shows the analysis of its run or that was replaced.
CloudKept ==
  /\ CloudTypes' /\ QueueInv' /\ CloudInv'
  /\ \A q \in Run :
       /\ computed[q] = "success" => computed'[q] = "success" /\ before'[q] = before[q]
       /\ replaced[q] => replaced'[q]
       /\ step[q] \in Exporting /\ ShowsOwn(q) => ShowsOwn(q)'

LEMMA ComputeKept ==
  ASSUME SonarInv, Compute
  PROVE  CloudKept
<1> USE SonarAssumption
<1>1. PICK r : r = Head(queue)
  OBVIOUS
<1>2. PICK old : old = queue
  OBVIOUS
<1>3. /\ old \in Seq(Run) /\ old # <<>> /\ queue' = Tail(old) /\ r = Head(old)
      /\ UNCHANGED <<tokens, project, main, job>>
      /\ \/ /\ computed' = [computed EXCEPT ![r] = "success"] /\ shown' = [shown EXCEPT ![BranchOf[r]] = r]
            /\ beside' = beside \cup ({BranchOf[r]} \ {main})
            /\ before' = [before EXCEPT ![r] = {q \in Run : computed[q] = "success"}] /\ replaced' = NowReplaced
         \/ computed' = [computed EXCEPT ![r] = "failed"] /\ UNCHANGED <<beside, shown, before, replaced>>
  BY <1>1, <1>2 DEF Compute, SonarInv, CloudTypes
<1>4. /\ r \in Run /\ Queued(r) /\ queue' \in Seq(Run) /\ Len(queue') = Len(old) - 1 /\ Len(old) \in Nat \ {0}
      /\ \A i \in 1..Len(queue') : queue'[i] = old[i + 1]
  BY <1>2, <1>3 DEF Queued
<1>5. computed[r] = "none"
  BY <1>4 DEF SonarInv, QueueInv
<1>6. ~Queued(r)'
  <2>1. ASSUME NEW i \in 1..Len(queue'), queue'[i] = r PROVE FALSE
    <3>1. i + 1 \in 1..Len(old) /\ 1 \in 1..Len(old) /\ i + 1 # 1 /\ old[i + 1] = old[1]
      BY <1>3, <1>4, <2>1
    <3> QED
      BY <1>2, <3>1 DEF SonarInv, QueueInv
  <2> QED
    BY <2>1 DEF Queued
<1>7. \A q \in Run : Queued(q)' => Queued(q)
  <2>1. ASSUME NEW q \in Run, NEW i \in 1..Len(queue'), queue'[i] = q PROVE Queued(q)
    <3>1. i + 1 \in 1..Len(queue) /\ queue[i + 1] = q
      BY <1>2, <1>4, <2>1
    <3> QED
      BY <3>1 DEF Queued
  <2> QED
    BY <2>1 DEF Queued
<1>8. CloudTypes'
  <2>1. CloudTypes
    BY DEF SonarInv
  <2>2. BranchOf[r] \in Branch
    BY <1>4
  <2>3. computed' \in [Run -> {"none", "success", "failed"}]
    BY <1>3, <1>4, <2>1 DEF CloudTypes
  <2>4. shown' \in [Branch -> Run \cup {None}]
    <3>1. CASE shown' = [shown EXCEPT ![BranchOf[r]] = r]
      BY <1>4, <2>1, <3>1 DEF CloudTypes
    <3>2. CASE shown' = shown
      BY <2>1, <3>2 DEF CloudTypes
    <3> QED
      BY <1>3, <3>1, <3>2
  <2>5. beside' \subseteq Branch /\ main' \in Branch
    BY <1>3, <2>1, <2>2 DEF CloudTypes
  <2>6. before' \in [Run -> SUBSET Run]
    <3>1. before \in [Run -> SUBSET Run] /\ {q \in Run : computed[q] = "success"} \in SUBSET Run
      BY <2>1 DEF CloudTypes
    <3>2. CASE before' = [before EXCEPT ![r] = {q \in Run : computed[q] = "success"}]
      BY <1>4, <3>1, <3>2
    <3>3. CASE UNCHANGED before
      BY <3>1, <3>3
    <3> QED
      BY <1>3, <3>2, <3>3
  <2>7. replaced' \in [Run -> BOOLEAN]
    <3>1. NowReplaced \in [Run -> BOOLEAN]
      BY <2>1 DEF NowReplaced, CloudTypes
    <3> QED
      BY <1>3, <2>1, <3>1 DEF CloudTypes
  <2> QED
    BY <1>4, <2>3, <2>4, <2>5, <2>6, <2>7 DEF CloudTypes
<1>9. QueueInv'
  <2>1. \A i, j \in 1..Len(queue') : queue'[i] = queue'[j] => i = j
    <3>1. ASSUME NEW i \in 1..Len(queue'), NEW j \in 1..Len(queue'), queue'[i] = queue'[j] PROVE i = j
      <4>1. Len(queue') = Len(queue) - 1 /\ Len(queue) \in Nat \ {0}
        BY <1>2, <1>4
      <4>2. i + 1 \in 1..Len(queue) /\ j + 1 \in 1..Len(queue)
        BY <4>1
      <4>3. queue[i + 1] = queue[j + 1]
        <5>1. queue'[i] = queue[i + 1] /\ queue'[j] = queue[j + 1]
          BY <1>2, <1>4
        <5> QED
          BY <3>1, <5>1
      <4>4. i + 1 = j + 1
        BY <4>2, <4>3 DEF SonarInv, QueueInv
      <4> QED
        BY <4>4
    <3> QED
      BY <3>1
  <2>2. \A q \in Run : computed'[q] # computed[q] => q = r
    BY <1>3 DEF SonarInv, CloudTypes
  <2>3. step' = step
    BY <1>3 DEF job
  <2>4. ASSUME NEW q \in Run, Queued(q)' PROVE computed'[q] = "none"
    BY <1>6, <1>7, <2>2, <2>4 DEF SonarInv, QueueInv
  <2>5. ASSUME NEW q \in Run, step'[q] \in Early PROVE ~Queued(q)' /\ computed'[q] = "none"
    <3>1. ~Queued(q) /\ computed[q] = "none"
      BY <2>3, <2>5 DEF SonarInv, QueueInv
    <3>2. q # r
      BY <1>4, <3>1
    <3> QED
      BY <1>7, <2>2, <3>1, <3>2
  <2> QED
    BY <2>1, <2>4, <2>5 DEF QueueInv
<1>10. CASE UNCHANGED <<beside, shown, before, replaced>> /\ computed' = [computed EXCEPT ![r] = "failed"]
  <2>0. CloudTypes /\ CloudInv
    BY DEF SonarInv
  <2>1. \A q \in Run : q # r => computed'[q] = computed[q]
    BY <1>10, <2>0 DEF CloudTypes
  <2>2. computed'[r] = "failed" /\ main' = main
    BY <1>3, <1>4, <1>10, <2>0 DEF CloudTypes
  <2>3. ASSUME NEW q \in Run PROVE computed'[q] = "success" <=> computed[q] = "success"
    BY <1>5, <2>1, <2>2
  <2>4. CloudInv'
    BY <1>10, <2>0, <2>2, <2>3 DEF CloudInv, NotOlder, CloudTypes
  <2>5. \A q \in Run : ShowsOwn(q) => ShowsOwn(q)'
    BY <1>10, <2>3 DEF ShowsOwn
  <2> QED
    BY <1>8, <1>9, <1>10, <2>3, <2>4, <2>5 DEF CloudKept
<1>11. CASE /\ computed' = [computed EXCEPT ![r] = "success"] /\ shown' = [shown EXCEPT ![BranchOf[r]] = r]
            /\ beside' = beside \cup ({BranchOf[r]} \ {main})
            /\ before' = [before EXCEPT ![r] = {q \in Run : computed[q] = "success"}] /\ replaced' = NowReplaced
  <2>0. CloudTypes /\ CloudInv
    BY DEF SonarInv
  <2>1. /\ BranchOf[r] \in Branch /\ shown'[BranchOf[r]] = r
        /\ \A b \in Branch : b # BranchOf[r] => shown'[b] = shown[b]
    BY <1>4, <1>11, <2>0 DEF CloudTypes
  <2>2. /\ before'[r] = {q \in Run : computed[q] = "success"} /\ computed'[r] = "success"
        /\ \A q \in Run : q # r => before'[q] = before[q] /\ computed'[q] = computed[q]
    BY <1>4, <1>11, <2>0 DEF CloudTypes
  <2>3. main' = main /\ main \in Branch /\ beside \subseteq beside' /\ (BranchOf[r] \in beside' \/ BranchOf[r] = main)
    BY <1>3, <1>11, <2>0 DEF CloudTypes
  <2>4. \A q \in Run : computed[q] = "success" => q # r /\ computed'[q] = "success" /\ before'[q] = before[q]
    BY <1>5, <2>2
  <2>5. ASSUME NEW q \in Run, computed'[q] = "success" PROVE NotOlder(q)'
    <3>1. CASE q = r
      <4>1. r \notin before'[r]
        BY <1>5, <2>2
      <4> QED
        BY <2>1, <2>3, <3>1, <4>1 DEF NotOlder
    <3>2. CASE q # r
      <4>1. computed[q] = "success" /\ before'[q] = before[q] /\ NotOlder(q)
        BY <2>0, <2>2, <2>5, <3>2 DEF CloudInv
      <4>2. r \notin before[q]
        BY <1>5, <2>0 DEF CloudInv
      <4>3. \A b \in Branch : shown'[b] \in {shown[b], r}
        BY <2>1
      <4>4. BranchOf[q] \in Branch
        OBVIOUS
      <4> QED
        BY <2>3, <4>1, <4>2, <4>3, <4>4 DEF NotOlder
    <3> QED
      BY <3>1, <3>2
  <2>6. CloudInv'
    <3>1. main' \notin beside'
      BY <1>11, <2>0, <2>3 DEF CloudInv
    <3>2. ASSUME NEW q \in Run, NEW p \in before'[q] PROVE computed'[p] = "success"
      <4>1. p \in Run /\ computed[p] = "success"
        BY <2>0, <2>2, <3>2 DEF CloudInv, CloudTypes
      <4> QED
        BY <2>4, <4>1
    <3> QED
      BY <2>5, <3>1, <3>2 DEF CloudInv
  <2>7. ASSUME NEW q \in Run, step[q] \in Exporting, ShowsOwn(q) PROVE ShowsOwn(q)'
    <3>1. BranchOf[q] \in Branch
      OBVIOUS
    <3>2. replaced'[q] <=> (replaced[q] \/ (computed[q] = "success" /\ shown'[BranchOf[q]] # shown[BranchOf[q]]))
      BY <1>11, <2>7 DEF NowReplaced
    <3>3. CASE q = r
      BY <2>1, <3>3 DEF ShowsOwn
    <3>4. CASE q # r
      BY <2>2, <2>7, <3>2, <3>4 DEF ShowsOwn
    <3> QED
      BY <3>3, <3>4
  <2>8. \A q \in Run : replaced[q] => replaced'[q]
    BY <1>11 DEF NowReplaced
  <2> QED
    BY <1>8, <1>9, <2>4, <2>6, <2>7, <2>8 DEF CloudKept
<1> QED
  BY <1>3, <1>10, <1>11

-----------------------------------------------------------------------------
(* SonarQube: the steps of a job, and the project.                          *)

RowKept(q) ==
  /\ step'[q] = step[q] /\ scan'[q] = scan[q] /\ export'[q] = export[q] /\ page'[q] = page[q]
  /\ got'[q] = got[q] /\ native'[q] = native[q] /\ status'[q] = status[q] /\ kept'[q] = kept[q]
OthersKept(r) == \A q \in Run \ {r} : RowKept(q)

LEMMA OtherRow ==
  ASSUME CloudKept, NEW q \in Run, ReadOf(q), StatusOf(q), RowKept(q)
  PROVE  ReadOf(q)' /\ StatusOf(q)'
<1>1. /\ computed[q] = "success" => computed'[q] = "success" /\ before'[q] = before[q]
      /\ replaced[q] => replaced'[q]
      /\ step[q] \in Exporting /\ ShowsOwn(q) => ShowsOwn(q)'
  BY DEF CloudKept
<1>2. Newer(q, got[q])'
  BY <1>1 DEF RowKept, ReadOf, Newer
<1>3. ReadOf(q)'
  BY <1>1, <1>2 DEF RowKept, ReadOf, UpTo
<1>4. export[q] = "success" => Newer(q, native[q])'
  BY <1>1 DEF RowKept, StatusOf, Newer
<1>5. StatusOf(q)'
  BY <1>1, <1>4 DEF RowKept, StatusOf, UpTo
<1> QED
  BY <1>3, <1>5

\* A step that submits nothing and leaves the branches alone.
LEMMA BranchesKept ==
  ASSUME SonarInv, UNCHANGED branches,
         \A r \in Run : step'[r] \in Early => step[r] \in Early
  PROVE  CloudKept
<1>1. CloudTypes' /\ CloudInv'
  BY DEF SonarInv, CloudTypes, CloudInv, NotOlder, branches
<1>2. \A q : Queued(q)' <=> Queued(q)
  BY DEF Queued, branches
<1>3. QueueInv'
  BY <1>2 DEF SonarInv, QueueInv, branches
<1>4. \A q \in Run :
        /\ computed[q] = "success" => computed'[q] = "success" /\ before'[q] = before[q]
        /\ replaced[q] => replaced'[q]
        /\ ShowsOwn(q) => ShowsOwn(q)'
  BY DEF ShowsOwn, branches
<1> QED
  BY <1>1, <1>3, <1>4 DEF CloudKept

LEMMA RenameKept ==
  ASSUME SonarInv, NEW r \in Run, Rename(r)
  PROVE  CloudKept
<1> USE SonarAssumption
<1>0. CloudTypes /\ JobTypes /\ CloudInv /\ QueueInv
  BY DEF SonarInv
<1>1. PICK b : b = BranchOf[r]
  OBVIOUS
<1>2. /\ b \in Branch /\ b \notin beside /\ main' = b
      /\ UNCHANGED <<beside, queue, computed, before>> /\ replaced' = NowReplaced
      /\ \A q \in Run : step'[q] \in Early <=> step[q] \in Early
  <2>1. step[r] = "rename" /\ step' = [step EXCEPT ![r] = "scan"]
    BY DEF Rename, Moves
  <2>2. \A q \in Run : step'[q] \in Early <=> step[q] \in Early
    BY <1>0, <2>1 DEF JobTypes, Early
  <2> QED
    BY <1>1, <2>2 DEF Rename
<1>3. /\ shown' \in [Branch -> Run \cup {None}] /\ shown'[b] = shown[main]
      /\ \A c \in Branch \ {b} : shown'[c] = IF c = main THEN None ELSE shown[c]
  <2>1. shown' = [shown EXCEPT ![main] = None, ![b] = shown[main]]
    BY <1>1 DEF Rename
  <2> QED
    BY <1>0, <1>2, <2>1 DEF CloudTypes
<1>4. CloudTypes'
  <2>1. NowReplaced \in [Run -> BOOLEAN]
    BY <1>0 DEF NowReplaced, CloudTypes
  <2> QED
    BY <1>0, <1>2, <1>3, <2>1 DEF CloudTypes
<1>5. QueueInv'
  <2>1. \A q : Queued(q)' <=> Queued(q)
    BY <1>2 DEF Queued
  <2> QED
    BY <1>0, <1>2, <2>1 DEF QueueInv
<1>6. CloudInv'
  <2>1. main' \notin beside'
    BY <1>2
  <2>2. ASSUME NEW q \in Run, computed'[q] = "success" PROVE NotOlder(q)'
    <3>1. NotOlder(q) /\ BranchOf[q] \in Branch /\ main \in Branch /\ main \notin beside
      BY <1>0, <1>2, <2>2 DEF CloudInv, CloudTypes
    <3>2. None \notin before[q]
      BY <1>0 DEF CloudTypes
    <3>3. CASE BranchOf[q] \in beside
      <4>1. BranchOf[q] # b /\ BranchOf[q] # main
        BY <1>2, <3>1, <3>3
      <4>2. shown'[BranchOf[q]] = shown[BranchOf[q]]
        BY <1>3, <3>1, <4>1
      <4> QED
        BY <1>2, <3>1, <3>3, <4>2 DEF NotOlder
    <3>4. CASE BranchOf[q] \notin beside
      <4>1. shown[main] \notin before[q] /\ shown[BranchOf[q]] \notin before[q]
        BY <3>1, <3>4 DEF NotOlder
      <4>2. shown'[main'] = shown[main]
        BY <1>2, <1>3
      <4>3. shown'[BranchOf[q]] \in {shown[main], shown[BranchOf[q]], None}
        BY <1>3, <3>1
      <4> QED
        BY <1>2, <3>2, <4>1, <4>2, <4>3 DEF NotOlder
    <3> QED
      BY <3>3, <3>4
  <2>3. \A q \in Run : \A p \in before'[q] : computed'[p] = "success"
    BY <1>0, <1>2 DEF CloudInv
  <2> QED
    BY <2>1, <2>2, <2>3 DEF CloudInv
<1>7. ASSUME NEW q \in Run PROVE (replaced[q] => replaced'[q]) /\ (step[q] \in Exporting /\ ShowsOwn(q) => ShowsOwn(q)')
  <2>1. /\ replaced[q] => replaced'[q]
        /\ step[q] \in Exporting =>
             (replaced'[q] <=> (replaced[q] \/ (computed[q] = "success" /\ shown'[BranchOf[q]] # shown[BranchOf[q]])))
    BY <1>2 DEF NowReplaced
  <2>2. ASSUME step[q] \in Exporting, ShowsOwn(q) PROVE ShowsOwn(q)'
    <3>1. computed' = computed
      BY <1>2
    <3> QED
      BY <2>1, <2>2, <3>1 DEF ShowsOwn
  <2> QED
    BY <2>1, <2>2
<1> QED
  BY <1>2, <1>4, <1>5, <1>6, <1>7 DEF CloudKept

\* An analysis is submitted.
LEMMA SubmitKept ==
  ASSUME SonarInv, NEW r \in Run, step[r] = "scan", queue' = Append(queue, r),
         UNCHANGED <<main, beside, computed, shown, before, replaced>>,
         step'[r] \notin Early, \A q \in Run \ {r} : step'[q] = step[q]
  PROVE  CloudKept
<1>0. CloudTypes /\ CloudInv /\ QueueInv
  BY DEF SonarInv
<1>1. PICK old : old = queue
  OBVIOUS
<1>2. /\ old \in Seq(Run) /\ queue' \in Seq(Run) /\ Len(queue') = Len(old) + 1 /\ Len(old) \in Nat
      /\ \A i \in 1..Len(old) : queue'[i] = old[i]
      /\ queue'[Len(old) + 1] = r
  BY <1>0, <1>1 DEF CloudTypes
<1>3. ~Queued(r) /\ computed[r] = "none"
  BY <1>0 DEF QueueInv, Early
<1>4. \A i \in 1..Len(old) : old[i] # r
  BY <1>1, <1>3 DEF Queued
<1>5. ASSUME NEW q \in Run, Queued(q)' PROVE Queued(q) \/ q = r
  <2>1. PICK i \in 1..Len(queue') : queue'[i] = q
    BY <1>5 DEF Queued
  <2>2. CASE i \in 1..Len(old)
    BY <1>1, <1>2, <2>1, <2>2 DEF Queued
  <2>3. CASE i = Len(old) + 1
    BY <1>2, <2>1, <2>3
  <2> QED
    BY <1>2, <2>2, <2>3
<1>6. QueueInv'
  <2>1. ASSUME NEW i \in 1..Len(queue'), NEW j \in 1..Len(queue'), queue'[i] = queue'[j] PROVE i = j
    <3>1. CASE i \in 1..Len(old) /\ j \in 1..Len(old)
      <4>1. queue[i] = queue[j] /\ i \in 1..Len(queue) /\ j \in 1..Len(queue)
        BY <1>1, <1>2, <2>1, <3>1
      <4> QED
        BY <1>0, <4>1 DEF QueueInv
    <3>2. CASE i = Len(old) + 1 \/ j = Len(old) + 1
      BY <1>2, <1>4, <2>1, <3>2
    <3> QED
      BY <1>2, <3>1, <3>2
  <2>2. ASSUME NEW q \in Run, Queued(q)' PROVE computed'[q] = "none"
    BY <1>0, <1>3, <1>5, <2>2 DEF QueueInv
  <2>3. ASSUME NEW q \in Run, step'[q] \in Early PROVE ~Queued(q)' /\ computed'[q] = "none"
    <3>1. q # r /\ step[q] \in Early
      BY <2>3
    <3> QED
      BY <1>0, <1>5, <3>1 DEF QueueInv
  <2> QED
    BY <2>1, <2>2, <2>3 DEF QueueInv
<1>7. CloudTypes' /\ CloudInv'
  BY <1>0, <1>2 DEF CloudTypes, CloudInv, NotOlder
<1>8. \A q \in Run :
        /\ computed[q] = "success" => computed'[q] = "success" /\ before'[q] = before[q]
        /\ replaced[q] => replaced'[q]
        /\ ShowsOwn(q) => ShowsOwn(q)'
  BY DEF ShowsOwn
<1> QED
  BY <1>6, <1>7, <1>8 DEF CloudKept

-----------------------------------------------------------------------------
(* SonarQube: what a job reads, reports and retains.                        *)

RunKept(r) == JobTypes' /\ OthersKept(r) /\ ReadOf(r)' /\ StatusOf(r)'

LEMMA MovesIs ==
  ASSUME JobTypes, NEW r \in Run, NEW from, NEW to \in Early \cup Exporting \cup {"finalize"} \cup Late, Moves(r, from, to)
  PROVE  /\ JobTypes' /\ OthersKept(r) /\ step[r] = from /\ step'[r] = to
         /\ UNCHANGED <<scan, export, page, got, native, status, kept>>
  BY DEF Moves, JobTypes, OthersKept, RowKept

\* Before the analysis is exported nothing is known of it.
LEMMA MovesEarly ==
  ASSUME SonarInv, NEW r \in Run, NEW from \in Early, NEW to \in Early, Moves(r, from, to),
         UNCHANGED branches
  PROVE  CloudKept /\ RunKept(r)
<1>1. /\ JobTypes' /\ OthersKept(r) /\ step[r] = from /\ step'[r] = to
      /\ UNCHANGED <<scan, export, page, got, native, status, kept>>
  BY MovesIs DEF SonarInv
<1>2. CloudKept
  BY <1>1, BranchesKept DEF OthersKept, RowKept
<1>3. ReadOf(r) /\ StatusOf(r)
  BY DEF SonarInv
<1>4. ReadOf(r)' /\ StatusOf(r)'
  BY <1>1, <1>3 DEF ReadOf, StatusOf, Early, Late, Exporting, Newer, branches
<1> QED
  BY <1>1, <1>2, <1>4 DEF RunKept

LEMMA EnsureStep ==
  ASSUME SonarInv, NEW r \in Run, Starts(r) \/ Show(r) \/ Create(r) \/ MainBranch(r)
  PROVE  CloudKept /\ RunKept(r)
<1>1. UNCHANGED branches
  BY DEF Starts, Show, Create, MainBranch, cloud
<1>2. \E from, to \in Early : Moves(r, from, to)
  BY DEF Starts, Show, Create, MainBranch, Early
<1> QED
  BY <1>1, <1>2, MovesEarly

LEMMA RenameStep ==
  ASSUME SonarInv, NEW r \in Run, Rename(r)
  PROVE  CloudKept /\ RunKept(r)
<1>1. /\ JobTypes' /\ OthersKept(r) /\ step[r] = "rename" /\ step'[r] = "scan"
      /\ UNCHANGED <<scan, export, page, got, native, status, kept>>
  BY MovesIs DEF Rename, SonarInv, Early
<1>2. ReadOf(r) /\ StatusOf(r)
  BY DEF SonarInv
<1>3. ReadOf(r)' /\ StatusOf(r)'
  <2>1. computed' = computed /\ before' = before
    BY DEF Rename
  <2> QED
    BY <1>1, <1>2, <2>1 DEF ReadOf, StatusOf, Early, Late, Exporting, Newer
<1> QED
  BY <1>1, <1>3, RenameKept DEF RunKept

\* A job that exports nothing goes on to its status.
Skips(r) ==
  /\ step[r] \in Early /\ step'[r] = "finalize" /\ export'[r] \in {"skipped", "failure"}
  /\ UNCHANGED <<page, got, native, status, kept, computed, before>>
LEMMA SkipsKept ==
  ASSUME SonarInv, NEW r \in Run, Skips(r)
  PROVE  ReadOf(r)' /\ StatusOf(r)'
<1>1. ReadOf(r) /\ StatusOf(r)
  BY DEF SonarInv
<1> QED
  BY <1>1 DEF Skips, ReadOf, StatusOf, Early, Late, Exporting, Newer

LEMMA EnsureFailsStep ==
  ASSUME SonarInv, NEW r \in Run, EnsureFails(r)
  PROVE  CloudKept /\ RunKept(r)
<1>0. JobTypes
  BY DEF SonarInv
<1>1. JobTypes' /\ OthersKept(r) /\ Skips(r)
  BY <1>0 DEF EnsureFails, JobTypes, OthersKept, RowKept, Skips, Early, cloud, branches
<1>2. CloudKept
  BY <1>1, BranchesKept DEF EnsureFails, cloud, Skips, OthersKept, RowKept
<1> QED
  BY <1>1, <1>2, SkipsKept DEF RunKept

LEMMA ScanStep ==
  ASSUME SonarInv, NEW r \in Run, Scan(r)
  PROVE  CloudKept /\ RunKept(r)
<1>0. JobTypes /\ ReadOf(r) /\ StatusOf(r)
  BY DEF SonarInv
<1>1. /\ step[r] = "scan" /\ UNCHANGED <<tokens, project, main, beside, computed, shown, before, replaced, page, got, native, status, kept>>
      /\ \/ \E outcome \in {"success", "failure"} : Submitted(r, outcome)
         \/ /\ scan' = [scan EXCEPT ![r] = "failure"] /\ export' = [export EXCEPT ![r] = "skipped"]
            /\ step' = [step EXCEPT ![r] = "finalize"] /\ UNCHANGED queue
  BY DEF Scan
<1>2. CASE UNCHANGED queue /\ ~\E outcome \in {"success", "failure"} : Submitted(r, outcome)
  <2>1. JobTypes' /\ OthersKept(r) /\ Skips(r)
    BY <1>0, <1>1, <1>2 DEF JobTypes, OthersKept, RowKept, Skips, Early
  <2>2. CloudKept
    BY <1>1, <1>2, <2>1, BranchesKept DEF Skips, OthersKept, RowKept, branches
  <2> QED
    BY <2>1, <2>2, SkipsKept DEF RunKept
<1>3. CASE \E outcome \in {"success", "failure"} : Submitted(r, outcome)
  <2>1. PICK outcome \in {"success", "failure"} : Submitted(r, outcome)
    BY <1>3
  <2>2. /\ queue' = Append(queue, r) /\ scan' = [scan EXCEPT ![r] = outcome]
        /\ \/ step' = [step EXCEPT ![r] = "poll"] /\ UNCHANGED export
           \/ step' = [step EXCEPT ![r] = "finalize"] /\ export' = [export EXCEPT ![r] = "skipped"]
    BY <2>1 DEF Submitted
  <2>3. /\ JobTypes' /\ OthersKept(r)
        /\ \/ step'[r] = "poll" /\ UNCHANGED export
           \/ Skips(r)
    BY <1>0, <1>1, <2>2 DEF JobTypes, OthersKept, RowKept, Skips, Early, Exporting
  <2>4. CloudKept
    <3>1. step'[r] \notin Early
      BY <2>3 DEF Skips, Early
    <3> QED
      BY <1>1, <2>2, <2>3, <3>1, SubmitKept DEF OthersKept, RowKept
  <2>5. ReadOf(r)' /\ StatusOf(r)'
    <3>1. CASE step'[r] = "poll" /\ UNCHANGED export
      <4>1. computed[r] = "none"
        BY <1>1 DEF SonarInv, QueueInv, Early
      <4>2. ReadOf(r)'
        BY <1>0, <1>1, <3>1, <4>1 DEF ReadOf, Early, Exporting, Newer, ShowsOwn
      <4>3. StatusOf(r)'
        BY <1>0, <1>1, <3>1 DEF StatusOf, Early, Late
      <4> QED
        BY <4>2, <4>3
    <3> QED
      BY <2>3, <3>1, SkipsKept
  <2> QED
    BY <2>3, <2>4, <2>5 DEF RunKept
<1> QED
  BY <1>1, <1>2, <1>3

\* An export that ends.
LEMMA ExportedIs ==
  ASSUME SonarInv, NEW r \in Run, step[r] \in Exporting, NEW outcome \in {"success", "failure"}, NEW file,
         Exported(r, outcome, file), UNCHANGED <<tokens, cloud>>,
         outcome = "success" => /\ computed[r] = "success" /\ (replaced[r] \/ file = UpTo(r, Pages[r]))
                                /\ IsFiniteSet(file) /\ Newer(r, file),
         outcome = "failure" => file = None
  PROVE  CloudKept /\ RunKept(r)
<1>0. JobTypes /\ ReadOf(r) /\ StatusOf(r)
  BY DEF SonarInv
<1>1. /\ step'[r] = "finalize" /\ export'[r] = outcome /\ native'[r] = file
      /\ UNCHANGED <<scan, page, got, status, kept>>
  BY <1>0 DEF Exported, JobTypes
<1>2. JobTypes' /\ OthersKept(r)
  BY <1>0 DEF Exported, JobTypes, OthersKept, RowKept
<1>3. CloudKept
  BY <1>1, <1>2, BranchesKept DEF cloud, OthersKept, RowKept, Early
<1>4. computed' = computed /\ before' = before /\ replaced' = replaced
  BY DEF cloud, branches
<1>5. ReadOf(r)'
  BY <1>0, <1>1, <1>4 DEF ReadOf, Early, Exporting, Newer
<1>6. StatusOf(r)'
  BY <1>0, <1>1, <1>4 DEF StatusOf, Exporting, Late, UpTo, Newer
<1> QED
  BY <1>2, <1>3, <1>5, <1>6 DEF RunKept

LEMMA ExportStep ==
  ASSUME SonarInv, NEW r \in Run, GivesUp(r) \/ RequestFails(r) \/ Verify(r)
  PROVE  CloudKept /\ RunKept(r)
<1>1. CASE GivesUp(r) \/ RequestFails(r)
  BY <1>1, ExportedIs DEF GivesUp, RequestFails, Exporting
<1>2. CASE Verify(r)
  <2>1. step[r] \in Exporting /\ Exported(r, "success", got[r]) /\ UNCHANGED <<tokens, cloud>>
    BY <1>2 DEF Verify, Exporting
  <2>2. /\ computed[r] = "success" /\ (replaced[r] \/ got[r] = UpTo(r, Pages[r]))
        /\ IsFiniteSet(got[r]) /\ Newer(r, got[r])
    BY <1>2 DEF Verify, SonarInv, ReadOf
  <2> QED
    BY <2>1, <2>2, ExportedIs
<1> QED
  BY <1>1, <1>2

LEMMA PollStep ==
  ASSUME SonarInv, NEW r \in Run, Poll(r)
  PROVE  CloudKept /\ RunKept(r)
<1>0. JobTypes /\ ReadOf(r) /\ StatusOf(r)
  BY DEF SonarInv
<1>1. /\ JobTypes' /\ OthersKept(r) /\ step[r] = "poll" /\ step'[r] = "pages" /\ computed'[r] = "success"
      /\ UNCHANGED <<scan, export, page, got, native, status, kept>> /\ UNCHANGED cloud
  BY <1>0, MovesIs DEF Poll, Exporting, cloud, branches
<1>2. CloudKept
  BY <1>1, BranchesKept DEF cloud, OthersKept, RowKept, Early
<1>3. got[r] = UpTo(r, page[r] - 1) /\ page[r] = 1
  BY <1>0, <1>1 DEF ReadOf, UpTo
<1>4. ReadOf(r)'
  BY <1>0, <1>1, <1>3 DEF ReadOf, Early, UpTo, Exporting, Newer, ShowsOwn, cloud, branches
<1>5. StatusOf(r)'
  BY <1>0, <1>1 DEF StatusOf, Late
<1> QED
  BY <1>1, <1>2, <1>4, <1>5 DEF RunKept

\* A page is of the analysis the branch shows; of another one, it is read after the run's own was
\* superseded.
LEMMA ReadPageStep ==
  ASSUME SonarInv, NEW r \in Run, ReadPage(r)
  PROVE  CloudKept /\ RunKept(r)
<1> USE SonarAssumption
<1>0. CloudTypes /\ JobTypes /\ CloudInv /\ ReadOf(r) /\ StatusOf(r)
  BY DEF SonarInv
<1>1. PICK of : of = shown[BranchOf[r]]
  OBVIOUS
<1>2. PICK p : p = page[r]
  OBVIOUS
<1>3. step[r] = "pages" /\ p \in Nat \ {0} /\ of \in Run \cup {None} /\ UNCHANGED <<tokens, cloud>>
  BY <1>0, <1>1, <1>2 DEF ReadPage, CloudTypes, JobTypes
<1>4. CASE Exported(r, "failure", None)
  BY <1>3, <1>4, ExportedIs DEF Exporting
<1>5. CASE /\ of # None /\ got' = [got EXCEPT ![r] = Read(r)]
           /\ IF LastPage(p, Pages[of]) THEN step' = [step EXCEPT ![r] = "verify"] /\ UNCHANGED page
              ELSE page' = [page EXCEPT ![r] = @ + 1] /\ UNCHANGED step
           /\ UNCHANGED <<scan, export, native, status, kept>>
  <2>1. of \in Run /\ Pages[of] \in Nat
    BY <1>3, <1>5
  <2>2. PICK new : new = Read(r)
    OBVIOUS
  <2>3. new = got[r] \cup ({<<of, p>>} \cap ({of} \X (1..Pages[of])))
    BY <1>1, <1>2, <2>2 DEF Read
  <2>4. new \in SUBSET (Run \X Nat) /\ IsFiniteSet(new)
    <3>1. IsFiniteSet({<<of, p>>} \cap ({of} \X (1..Pages[of])))
      BY FS_Singleton, FS_Intersection
    <3>2. IsFiniteSet(got[r])
      BY <1>0 DEF ReadOf
    <3>3. IsFiniteSet(new)
      BY <2>3, <3>1, <3>2, FS_Union
    <3>4. got[r] \in SUBSET (Run \X Nat)
      BY <1>0 DEF JobTypes
    <3>5. <<of, p>> \in Run \X Nat
      BY <1>3, <2>1
    <3> QED
      BY <2>3, <3>3, <3>4, <3>5
  <2>5. /\ got' = [got EXCEPT ![r] = new] /\ UNCHANGED <<scan, export, native, status, kept>>
        /\ \/ /\ p >= Pages[of] /\ step' = [step EXCEPT ![r] = "verify"] /\ page' = page
           \/ /\ p < Pages[of] /\ page' = [page EXCEPT ![r] = p + 1] /\ step' = step
    BY <1>2, <1>3, <1>5, <2>1, <2>2 DEF LastPage
  <2>6. JobTypes'
    <3>1. got' \in [Run -> SUBSET (Run \X Nat)]
      BY <1>0, <2>4, <2>5 DEF JobTypes
    <3>2. step' \in [Run -> Early \cup Exporting \cup {"finalize"} \cup Late]
      BY <1>0, <2>5 DEF JobTypes, Exporting
    <3>3. page' \in [Run -> Nat \ {0}]
      <4>1. page \in [Run -> Nat \ {0}]
        BY <1>0 DEF JobTypes
      <4>2. p + 1 \in Nat \ {0}
        BY <1>3
      <4> QED
        BY <2>5, <4>1, <4>2
    <3> QED
      BY <1>0, <2>5, <3>1, <3>2, <3>3 DEF JobTypes
  <2>7. OthersKept(r)
    BY <1>0, <2>5 DEF JobTypes, OthersKept, RowKept
  <2>8. /\ got'[r] = new
        /\ \/ p >= Pages[of] /\ step'[r] = "verify"
           \/ p < Pages[of] /\ page'[r] = p + 1 /\ step'[r] = "pages"
    BY <1>0, <1>3, <2>5 DEF JobTypes
  <2>9. CloudKept
    BY <1>3, <2>7, <2>8, BranchesKept DEF cloud, OthersKept, RowKept, Early
  <2>10. /\ computed[r] = "success" /\ computed'[r] = "success" /\ before' = before
         /\ replaced' = replaced /\ shown' = shown
    BY <1>0, <1>3 DEF ReadOf, cloud, branches
  <2>11. replaced'[r] \/ (of = r /\ got[r] = UpTo(r, p - 1) /\ (p = 1 \/ p <= Pages[r]))
    BY <1>0, <1>1, <1>2, <1>3, <2>10 DEF ReadOf, ShowsOwn, Exporting
  <2>12. ASSUME of = r, got[r] = UpTo(r, p - 1), p = 1 \/ p <= Pages[r]
         PROVE  new = UpTo(r, IF p < Pages[r] THEN p ELSE Pages[r])
    <3>1. CASE p <= Pages[r]
      <4>1. {<<r, p>>} \cap ({r} \X (1..Pages[r])) = {<<r, p>>}
        BY <1>3, <2>1, <2>12, <3>1
      <4>2. UpTo(r, p - 1) \cup {<<r, p>>} = UpTo(r, p)
        <5>1. 1..p = (1..(p - 1)) \cup {p}
          BY <1>3
        <5> QED
          BY <5>1 DEF UpTo
      <4>3. p = IF p < Pages[r] THEN p ELSE Pages[r]
        BY <1>3, <2>1, <2>12, <3>1
      <4> QED
        BY <2>3, <2>12, <4>1, <4>2, <4>3
    <3>2. CASE p > Pages[r]
      <4>1. p = 1 /\ Pages[r] = 0
        BY <1>3, <2>1, <2>12, <3>2
      <4>2. got[r] = {} /\ {<<r, p>>} \cap ({r} \X (1..Pages[r])) = {} /\ UpTo(r, 0) = {}
        BY <2>12, <4>1 DEF UpTo
      <4> QED
        BY <2>3, <2>12, <4>1, <4>2
    <3> QED
      BY <1>3, <2>1, <2>12, <3>1, <3>2
  <2>15. Newer(r, got[r])' /\ ShowsOwn(r)'
    <3>1. of \notin before[r]
      BY <1>0, <1>1, <2>10 DEF CloudInv, NotOlder
    <3>2. Newer(r, got[r]) /\ ShowsOwn(r)
      BY <1>0, <1>3 DEF ReadOf, Exporting
    <3>3. \A x \in new : x \in got[r] \/ x = <<of, p>>
      BY <2>3
    <3> QED
      BY <2>8, <2>10, <3>1, <3>2, <3>3 DEF Newer, ShowsOwn
  <2>13. ReadOf(r)'
    <3>1. CASE step'[r] = "verify"
      <4>1. replaced'[r] \/ got'[r] = UpTo(r, Pages[r])
        <5>1. CASE ~replaced'[r]
          <6>1. ~(p < Pages[r])
            BY <1>3, <2>1, <2>8, <2>11, <3>1, <5>1
          <6> QED
            BY <2>8, <2>11, <2>12, <5>1, <6>1
        <5> QED
          BY <5>1
      <4> QED
        BY <2>4, <2>8, <2>10, <2>15, <3>1, <4>1 DEF ReadOf, Early, UpTo
    <3>2. CASE p < Pages[of] /\ page'[r] = p + 1 /\ step'[r] = "pages"
      <4>1. replaced'[r] \/ (got'[r] = UpTo(r, page'[r] - 1) /\ page'[r] <= Pages[r])
        <5>1. CASE ~replaced'[r]
          <6>1. got'[r] = UpTo(r, p)
            BY <2>8, <2>11, <2>12, <3>2, <5>1
          <6>2. page'[r] - 1 = p /\ page'[r] <= Pages[r]
            BY <1>3, <2>1, <2>11, <3>2, <5>1
          <6> QED
            BY <6>1, <6>2
        <5> QED
          BY <5>1
      <4> QED
        BY <2>4, <2>8, <2>10, <2>15, <3>2, <4>1 DEF ReadOf, Early, UpTo
    <3> QED
      BY <2>8, <3>1, <3>2
  <2>14. StatusOf(r)'
    <3>1. step'[r] \notin {"finalize"} \cup Late
      BY <2>8 DEF Late
    <3>2. export[r] = "" /\ native[r] = None /\ status[r] = None /\ kept[r] = {}
      BY <1>0, <1>3 DEF StatusOf, Late
    <3> QED
      BY <2>5, <3>2 DEF StatusOf
  <2> QED
    BY <2>6, <2>7, <2>9, <2>13, <2>14 DEF RunKept
<1> QED
  BY <1>1, <1>2, <1>4, <1>5 DEF ReadPage

LEMMA UnconfiguredStep ==
  ASSUME SonarInv, NEW r \in Run, Unconfigured(r)
  PROVE  CloudKept /\ RunKept(r)
<1> USE SonarAssumption
<1>0. JobTypes /\ ReadOf(r) /\ StatusOf(r)
  BY DEF SonarInv
<1>1. /\ JobTypes' /\ OthersKept(r) /\ step[r] = "snapshot" /\ step'[r] = "upload" /\ status'[r] = "NOT_CONFIGURED"
      /\ UNCHANGED <<export, page, got, native, kept>>
  BY <1>0 DEF Unconfigured, Written, JobTypes, OthersKept, RowKept, Statuses, Late
<1>2. CloudKept
  BY <1>1, BranchesKept DEF Unconfigured, Written, cloud, OthersKept, RowKept, Early
<1>3. ReadOf(r)' /\ StatusOf(r)'
  <2>1. computed' = computed /\ before' = before
    BY DEF Unconfigured, Written, cloud, branches
  <2> QED
    BY <1>0, <1>1, <2>1 DEF ReadOf, StatusOf, Early, Late, Exporting, Newer
<1> QED
  BY <1>1, <1>2, <1>3 DEF RunKept

\* Once a status is written the export and what is read of it stay as they are.
LEMMA LateKept ==
  ASSUME SonarInv, NEW r \in Run, UNCHANGED cloud, JobTypes', OthersKept(r), step'[r] \in Late,
         UNCHANGED <<export, page, got, native>>,
         status'[r] = "CONFIGURED_COMPLETE" => export[r] = "success" /\ native[r] # None,
         kept'[r] # {} => step'[r] \in {"reconcile", "ended"}
  PROVE  CloudKept /\ RunKept(r)
<1>0. ReadOf(r) /\ StatusOf(r)
  BY DEF SonarInv
<1>1. CloudKept
  BY BranchesKept DEF cloud, OthersKept, RowKept, Early, Late
<1>2. ReadOf(r)'
  BY <1>0 DEF ReadOf, Early, Late, Exporting, Newer, cloud, branches
<1>3. computed' = computed /\ before' = before /\ replaced' = replaced
  BY DEF cloud, branches
<1>4. StatusOf(r)'
  BY <1>0, <1>3 DEF StatusOf, Newer
<1> QED
  BY <1>1, <1>2, <1>4 DEF RunKept

LEMMA StatusStep ==
  ASSUME SonarInv, NEW r \in Run, Finalize(r) \/ Upload(r) \/ Reconcile(r) \/ SonarLost(r)
  PROVE  CloudKept /\ RunKept(r)
<1>0. JobTypes /\ ReadOf(r) /\ StatusOf(r)
  BY DEF SonarInv
<1>1. UNCHANGED cloud /\ UNCHANGED <<export, page, got, native>>
  BY DEF Finalize, Upload, Reconcile, SonarLost, Written, Retained
<1>2. PICK verdictOf : verdictOf = BuildStatus(scan[r], export[r], native[r])
  OBVIOUS
<1>3. /\ verdictOf \in Statuses
      /\ verdictOf = "CONFIGURED_COMPLETE" => export[r] = "success" /\ native[r] # None
  BY <1>2 DEF BuildStatus, Statuses
<1>4. CASE Finalize(r)
  <2>1. step[r] = "finalize" /\ status' = [status EXCEPT ![r] = verdictOf] /\ step' = [step EXCEPT ![r] = "upload"]
        /\ UNCHANGED <<scan, kept>>
    BY <1>2, <1>4 DEF Finalize, Written
  <2>2. JobTypes' /\ OthersKept(r) /\ step'[r] = "upload" /\ status'[r] = verdictOf
    BY <1>0, <1>1, <1>3, <2>1 DEF JobTypes, OthersKept, RowKept, Late
  <2>3. kept'[r] = {}
    BY <1>0, <2>1 DEF StatusOf
  <2> QED
    BY <1>1, <1>3, <2>2, <2>3, LateKept DEF Late
<1>5. CASE Upload(r)
  <2>1. JobTypes' /\ OthersKept(r) /\ step'[r] = "reconcile" /\ status' = status
    BY <1>0, <1>1, <1>5 DEF Upload, Retained, JobTypes, OthersKept, RowKept, Late
  <2>2. status[r] = "CONFIGURED_COMPLETE" => export[r] = "success" /\ native[r] # None
    BY <1>0 DEF StatusOf
  <2> QED
    BY <1>1, <2>1, <2>2, LateKept DEF Late
<1>6. CASE Reconcile(r)
  <2>1. /\ kept' = [kept EXCEPT ![r] = @ \cup {"vendor"}] /\ step' = [step EXCEPT ![r] = "ended"] /\ UNCHANGED scan
        /\ status' \in {status, [status EXCEPT ![r] = verdictOf]}
    BY <1>2, <1>6 DEF Reconcile, Retained
  <2>2. JobTypes' /\ OthersKept(r) /\ step'[r] = "ended" /\ status'[r] \in {status[r], verdictOf}
    BY <1>0, <1>1, <1>3, <2>1 DEF JobTypes, OthersKept, RowKept, Late
  <2>3. status[r] = "CONFIGURED_COMPLETE" => export[r] = "success" /\ native[r] # None
    BY <1>0 DEF StatusOf
  <2> QED
    BY <1>1, <1>3, <2>2, <2>3, LateKept DEF Late
<1>7. CASE SonarLost(r)
  <2>1. JobTypes' /\ OthersKept(r) /\ step'[r] = "ended" /\ status' = status
    BY <1>0, <1>7 DEF SonarLost, JobTypes, OthersKept, RowKept, Late
  <2>2. status[r] = "CONFIGURED_COMPLETE" => export[r] = "success" /\ native[r] # None
    BY <1>0 DEF StatusOf
  <2> QED
    BY <1>1, <2>1, <2>2, LateKept DEF Late
<1> QED
  BY <1>4, <1>5, <1>6, <1>7

LEMMA SonarKept ==
  ASSUME SonarInv, [VendorNext]_vars
  PROVE  SonarInv'
<1>1. CASE Compute
  <2>1. CloudKept
    BY <1>1, ComputeKept
  <2>2. UNCHANGED job
    BY <1>1 DEF Compute
  <2>3. JobTypes'
    BY <2>2 DEF SonarInv, JobTypes, job
  <2>4. \A q \in Run : RowKept(q)
    BY <2>2 DEF job, RowKept
  <2>5. \A q \in Run : ReadOf(q)' /\ StatusOf(q)'
    BY <2>1, <2>4, OtherRow DEF SonarInv
  <2> QED
    BY <2>1, <2>3, <2>5 DEF SonarInv, CloudKept
<1>2. ASSUME NEW r \in Run, SonarStep(r) \/ RequestFails(r) \/ SonarLost(r) PROVE SonarInv'
  <2>1. CloudKept /\ RunKept(r)
    BY <1>2, EnsureStep, RenameStep, EnsureFailsStep, ScanStep, ExportStep, PollStep, ReadPageStep,
       UnconfiguredStep, StatusStep DEF SonarStep
  <2>2. \A q \in Run \ {r} : ReadOf(q)' /\ StatusOf(q)'
    BY <2>1, OtherRow DEF SonarInv, RunKept, OthersKept
  <2> QED
    BY <2>1, <2>2 DEF SonarInv, CloudKept, RunKept
<1>3. CASE UNCHANGED sonarVars
  <2>1. UNCHANGED cloud /\ UNCHANGED job
    BY <1>3 DEF sonarVars
  <2>2. CloudKept
    BY <2>1, BranchesKept DEF cloud, job
  <2>3. JobTypes'
    BY <2>1 DEF SonarInv, JobTypes, job
  <2>4. \A q \in Run : RowKept(q)
    BY <2>1 DEF job, RowKept
  <2>5. \A q \in Run : ReadOf(q)' /\ StatusOf(q)'
    BY <2>2, <2>4, OtherRow DEF SonarInv
  <2> QED
    BY <2>2, <2>3, <2>5 DEF SonarInv, CloudKept
<1>4. CASE Sonar
  BY <1>1, <1>2, <1>4 DEF Sonar
<1>5. CASE Review \/ ReviewEnds \/ ReviewLost \/ (\E r \in Run : SnykRuns(r) \/ SnykUnconfigured(r) \/ SnykLost(r) \/ Assemble(r)) \/ UNCHANGED vars
  BY <1>3, <1>5 DEF Review, ReviewEnds, ReviewLost, SnykRuns, SnykUnconfigured, SnykLost, Assemble, vars
<1> QED
  BY <1>4, <1>5 DEF VendorNext

-----------------------------------------------------------------------------
(* The report.                                                              *)

\* A row shows that nothing was found as a number only of a lane whose status is complete.
LEMMA ZeroRow ==
  ASSUME NEW state, NEW found \in Nat, Row(state, found).findings = 0
  PROVE  state # None /\ state \in Complete /\ found = 0
<1> DEFINE shownAs == IF state # None THEN state ELSE IF found > 0 THEN "COMPLETED_OPTIONAL" ELSE "NOT_AVAILABLE"
<1>1. (IF found > 0 \/ shownAs \in Complete THEN found ELSE Unknown) = 0
  BY DEF Row
<1>2. found = 0 /\ shownAs \in Complete
  BY <1>1, VendorAssumption
<1> QED
  BY <1>2 DEF Complete

LEMMA SonarZero ==
  ASSUME SonarInv, NEW r \in Run, SonarRow(r).findings = 0
  PROVE  export[r] = "success" /\ native[r] = {} /\ step[r] \in Late
<1>0. StatusOf(r) /\ status[r] \in Statuses \cup {None}
  BY DEF SonarInv, JobTypes
<1>1. CASE kept[r] = {}
  <2>1. Row(None, 0).findings = 0
    BY <1>1 DEF SonarRow
  <2> QED
    BY <2>1, ZeroRow
<1>2. CASE kept[r] # {}
  <2> DEFINE found == IF native[r] = None THEN 0 ELSE Cardinality(native[r])
  <2>1. Row(status[r], found).findings = 0
    BY <1>2 DEF SonarRow
  <2>2. status[r] = "CONFIGURED_COMPLETE" => export[r] = "success" /\ native[r] # None /\ IsFiniteSet(native[r])
    BY <1>0 DEF StatusOf
  <2>3. CASE status[r] = "CONFIGURED_COMPLETE"
    <3>1. found = Cardinality(native[r]) /\ found \in Nat
      BY <2>2, <2>3, FS_CardinalityType
    <3>2. found = 0
      BY <2>1, <3>1, ZeroRow
    <3>3. native[r] = {}
      BY <2>2, <2>3, <3>1, <3>2, FS_EmptySet
    <3> QED
      BY <1>0, <1>2, <2>2, <2>3, <3>3 DEF StatusOf, Late
  <2>4. CASE status[r] # "CONFIGURED_COMPLETE"
    <3>1. CASE export[r] = "success"
      <4>1. found \in Nat
        BY <1>0, <3>1, FS_CardinalityType DEF StatusOf
      <4> QED
        BY <1>0, <2>1, <2>4, <4>1, ZeroRow DEF Complete, Statuses
    <3>2. CASE export[r] # "success"
      <4>1. native[r] = None
        BY <1>0, <3>2 DEF StatusOf
      <4>2. found \in Nat
        BY <4>1
      <4> QED
        BY <1>0, <2>1, <2>4, <4>2, ZeroRow DEF Complete, Statuses
    <3> QED
      BY <3>1, <3>2
  <2> QED
    BY <2>3, <2>4
<1> QED
  BY <1>1, <1>2

LEMMA ReviewZero ==
  ASSUME ReviewInv, NEW r \in Run, ReviewRow(r).findings = 0
  PROVE  verdict = "COMPLETED_OPTIONAL" /\ taken = 0 /\ at = "done" /\ "coderabbit" \in ended[r]
<1>1. CASE "coderabbit" \notin ended[r] \/ verdict = "none"
  <2>1. Row(None, 0).findings = 0
    BY <1>1 DEF ReviewRow
  <2> QED
    BY <2>1, ZeroRow
<1>2. CASE ~("coderabbit" \notin ended[r] \/ verdict = "none")
  <2>1. Row(verdict, taken).findings = 0 /\ taken \in Nat
    BY <1>2 DEF ReviewRow, ReviewInv
  <2>2. verdict \in Complete /\ taken = 0
    BY <2>1, ZeroRow
  <2> QED
    BY <1>2, <2>2 DEF ReviewInv, Complete
<1> QED
  BY <1>1, <1>2

\* A lane that ended stays so, and only the reviewed run's ends with the reviewer's evidence.
LEMMA EndedKept ==
  ASSUME EndedInv, [VendorNext]_vars
  PROVE  EndedInv' /\ \A r \in Run : ended[r] \subseteq ended'[r]
<1> USE DEF EndedInv
<1>1. ASSUME NEW r \in Run, NEW lane \in {"snyk", "coderabbit"}, lane = "coderabbit" => r = Reviewed,
             ended' = [ended EXCEPT ![r] = @ \cup {lane}]
      PROVE  EndedInv' /\ \A q \in Run : ended[q] \subseteq ended'[q]
  <2>1. ended'[r] = ended[r] \cup {lane} /\ \A q \in Run \ {r} : ended'[q] = ended[q]
    BY <1>1
  <2>2. DOMAIN ended' = Run
    BY <1>1
  <2> QED
    BY <1>1, <2>1, <2>2
<1>2. ASSUME NEW r \in Run, SnykRuns(r) \/ SnykUnconfigured(r) \/ SnykLost(r)
      PROVE  EndedInv' /\ \A q \in Run : ended[q] \subseteq ended'[q]
  <2>1. ended' = [ended EXCEPT ![r] = @ \cup {"snyk"}]
    BY <1>2 DEF SnykRuns, SnykUnconfigured, SnykLost
  <2> QED
    BY <1>1, <2>1
<1>3. CASE ReviewEnds \/ ReviewLost
  <2>1. ended' = [ended EXCEPT ![Reviewed] = @ \cup {"coderabbit"}] /\ Reviewed \in Run
    BY <1>3, VendorAssumption DEF ReviewEnds, ReviewLost
  <2> QED
    BY <1>1, <2>1
<1>4. CASE Sonar \/ Review \/ (\E r \in Run : Assemble(r)) \/ UNCHANGED vars
  <2>1. UNCHANGED ended
    BY <1>4 DEF Sonar, Review, Assemble, vars
  <2> QED
    BY <2>1
<1> QED
  BY <1>2, <1>3, <1>4 DEF VendorNext

\* Evidence a row was made of stays as it is.
LEMMA EvidenceStays ==
  ASSUME SonarInv, SonarInv', ReviewInv, EndedInv, [VendorNext]_vars
  PROVE  /\ \A r \in Run : step[r] \in Late => step'[r] \in Late /\ export'[r] = export[r] /\ native'[r] = native[r]
         /\ "coderabbit" \in ended[Reviewed] /\ at = "done" /\ verdict = "COMPLETED_OPTIONAL" =>
              "coderabbit" \in ended'[Reviewed] /\ at' = "done" /\ verdict' = verdict /\ taken' = taken
         /\ wants' = wants
<1>1. wants' = wants
  BY DEF VendorNext, vars, Sonar, Review, ReviewEnds, ReviewLost, SnykRuns, SnykUnconfigured, SnykLost, Assemble
<1>2. ASSUME "coderabbit" \in ended[Reviewed], at = "done", verdict = "COMPLETED_OPTIONAL"
      PROVE  "coderabbit" \in ended'[Reviewed] /\ at' = "done" /\ verdict' = verdict /\ taken' = taken
  <2>0. "coderabbit" \in ended'[Reviewed]
    BY <1>2, EndedKept, VendorAssumption
  <2>1. CASE Review
    <3>1. ~CollectStep
      BY <1>2 DEF CollectStep, Lookup, LookupFails, MorePages, ListFails, ReadReviews, ReadComments, ReadStatus, StatusFails
    <3> QED
      BY <1>2, <2>0, <2>1, <3>1 DEF Review, Reviewer
  <2>2. CASE ~Review
    <3>1. ~ReviewLost
      BY <1>2 DEF ReviewLost
    <3>2. UNCHANGED reviewVars
      BY <2>2, <3>1 DEF VendorNext, vars, Sonar, ReviewEnds, SnykRuns, SnykUnconfigured, SnykLost, Assemble
    <3> QED
      BY <1>2, <2>0, <3>2 DEF reviewVars
  <2> QED
    BY <2>1, <2>2
<1>3. ASSUME NEW r \in Run, step[r] \in Late PROVE step'[r] \in Late /\ export'[r] = export[r] /\ native'[r] = native[r]
  <2>0. JobTypes
    BY DEF SonarInv
  <2>1. CASE UNCHANGED job
    BY <1>3, <2>1 DEF job
  <2>2. ASSUME NEW q \in Run, SonarStep(q) \/ RequestFails(q) \/ SonarLost(q)
        PROVE  step'[r] \in Late /\ export'[r] = export[r] /\ native'[r] = native[r]
    <3>1. CASE q # r
      <4>1. RunKept(q)
        BY <2>2, EnsureStep, RenameStep, EnsureFailsStep, ScanStep, ExportStep, PollStep, ReadPageStep,
           UnconfiguredStep, StatusStep DEF SonarStep
      <4>2. RowKept(r)
        BY <3>1, <4>1 DEF RunKept, OthersKept
      <4> QED
        BY <1>3, <4>2 DEF RowKept
    <3>2. CASE q = r
      <4>1. Upload(r) \/ Reconcile(r) \/ SonarLost(r)
        BY <1>3, <2>2, <3>2 DEF SonarStep, Starts, Unconfigured, Show, Create, MainBranch, Rename, Moves, EnsureFails,
           Scan, Poll, GivesUp, RequestFails, Exporting, ReadPage, Verify, Finalize, Written, Late
      <4>2. UNCHANGED <<export, native>> /\ step'[r] \in {"reconcile", "ended"}
        BY <2>0, <4>1 DEF Upload, Reconcile, SonarLost, Retained, JobTypes
      <4> QED
        BY <4>2 DEF Late
    <3> QED
      BY <3>1, <3>2
  <2>3. CASE Sonar
    <3>1. CASE Compute
      BY <2>1, <3>1 DEF Compute
    <3> QED
      BY <2>2, <2>3, <3>1 DEF Sonar
  <2>4. CASE ~Sonar
    <3>1. UNCHANGED sonarVars
      BY <2>4 DEF VendorNext, vars, Review, ReviewEnds, ReviewLost, SnykRuns, SnykUnconfigured, SnykLost, Assemble
    <3> QED
      BY <2>1, <3>1 DEF sonarVars
  <2> QED
    BY <2>3, <2>4
<1> QED
  BY <1>1, <1>2, <1>3

SonarZeroOf(r) ==
  "sonar" \in wants[r] /\ report[r]["sonar"].findings = 0 => export[r] = "success" /\ native[r] = {} /\ step[r] \in Late
ReviewZeroOf(r) ==
  "coderabbit" \in wants[r] /\ report[r]["coderabbit"].findings = 0 => verdict = "COMPLETED_OPTIONAL" /\ taken = 0 /\ at = "done" /\ "coderabbit" \in ended[r]

LEMMA ReportKept ==
  ASSUME SonarInv, SonarInv', ReviewInv, EndedInv, ReportInv, DOMAIN report = Run, [VendorNext]_vars
  PROVE  ReportInv' /\ DOMAIN report' = Run
<1>1. /\ \A r \in Run : step[r] \in Late => step'[r] \in Late /\ export'[r] = export[r] /\ native'[r] = native[r]
      /\ "coderabbit" \in ended[Reviewed] /\ at = "done" /\ verdict = "COMPLETED_OPTIONAL" =>
           "coderabbit" \in ended'[Reviewed] /\ at' = "done" /\ verdict' = verdict /\ taken' = taken
      /\ wants' = wants
  BY EvidenceStays
<1>2. ASSUME NEW r \in Run, report'[r] = report[r], report[r] # None PROVE SonarZeroOf(r)' /\ ReviewZeroOf(r)'
  <2>1. SonarZeroOf(r) /\ ReviewZeroOf(r)
    BY <1>2 DEF ReportInv, SonarZeroOf, ReviewZeroOf
  <2>2. SonarZeroOf(r)'
    BY <1>1, <1>2, <2>1 DEF SonarZeroOf
  <2>3. ASSUME "coderabbit" \in wants'[r], report'[r]["coderabbit"].findings = 0
        PROVE  verdict' = "COMPLETED_OPTIONAL" /\ taken' = 0 /\ at' = "done" /\ "coderabbit" \in ended'[r]
    <3>1. verdict = "COMPLETED_OPTIONAL" /\ taken = 0 /\ at = "done" /\ "coderabbit" \in ended[r]
      BY <1>1, <1>2, <2>1, <2>3 DEF ReviewZeroOf
    <3>2. r = Reviewed
      BY <3>1 DEF EndedInv
    <3> QED
      BY <1>1, <3>1, <3>2
  <2> QED
    BY <2>2, <2>3 DEF ReviewZeroOf
<1>3. ASSUME NEW r \in Run, Assemble(r) PROVE ReportInv' /\ DOMAIN report' = Run
  <2>1. PICK row : row = [c \in wants[r] |->
       CASE c = "sonar" -> SonarRow(r) [] c = "snyk" -> SnykRow(r) [] c = "coderabbit" -> ReviewRow(r)]
    OBVIOUS
  <2>2. report' = [report EXCEPT ![r] = row]
    BY <1>3, <2>1 DEF Assemble
  <2>3. DOMAIN report' = Run /\ report'[r] = row /\ \A q \in Run \ {r} : report'[q] = report[q]
    BY <2>2
  <2>4. SonarZeroOf(r)'
    <3>1. ASSUME "sonar" \in wants[r], row["sonar"].findings = 0 PROVE export[r] = "success" /\ native[r] = {} /\ step[r] \in Late
      <4>1. row["sonar"] = SonarRow(r)
        BY <2>1, <3>1
      <4> QED
        BY <3>1, <4>1, SonarZero
    <3> QED
      BY <1>1, <2>3, <3>1 DEF SonarZeroOf
  <2>5. ReviewZeroOf(r)'
    <3>1. ASSUME "coderabbit" \in wants[r], row["coderabbit"].findings = 0
          PROVE  verdict' = "COMPLETED_OPTIONAL" /\ taken' = 0 /\ at' = "done" /\ "coderabbit" \in ended'[r]
      <4>1. row["coderabbit"] = ReviewRow(r)
        BY <2>1, <3>1
      <4>2. UNCHANGED <<verdict, taken, at, ended>>
        BY <1>3 DEF Assemble, reviewVars
      <4> QED
        BY <3>1, <4>1, <4>2, ReviewZero
    <3> QED
      BY <1>1, <2>3, <3>1 DEF ReviewZeroOf
  <2>6. \A q \in Run : report'[q] # None => SonarZeroOf(q)' /\ ReviewZeroOf(q)'
    BY <1>2, <2>3, <2>4, <2>5
  <2> QED
    BY <2>3, <2>6 DEF ReportInv, SonarZeroOf, ReviewZeroOf
<1>4. CASE UNCHANGED report
  <2>1. \A q \in Run : report'[q] # None => SonarZeroOf(q)' /\ ReviewZeroOf(q)'
    BY <1>2, <1>4
  <2> QED
    BY <1>4, <2>1 DEF ReportInv, SonarZeroOf, ReviewZeroOf
<1> QED
  BY <1>3, <1>4 DEF VendorNext, vars, Sonar, Review, ReviewEnds, ReviewLost, SnykRuns, SnykUnconfigured, SnykLost

-----------------------------------------------------------------------------
(* The specification.                                                       *)

LEMMA LanesStart == LanesInit => LanesInv
<1> SUFFICES ASSUME LanesInit PROVE LanesInv
  OBVIOUS
<1>1. DOMAIN report = Run /\ ReportInv /\ EndedInv
  BY DEF LanesInit, VendorInit, ReportInv, EndedInv
<1> QED
  BY <1>1, TaskStart, ReviewStart, SonarStart DEF LanesInit, LanesInv

LEMMA LanesKept == LanesInv /\ [LanesNext]_laneVars => LanesInv'
<1> SUFFICES ASSUME LanesInv, [LanesNext]_laneVars PROVE LanesInv'
  OBVIOUS
<1>1. [VendorNext]_vars /\ [TaskNext]_taskVars
  BY DEF LanesNext, laneVars
<1>2. TaskInv' /\ ReviewInv' /\ SonarInv'
  BY <1>1, TaskKept, ReviewKept, SonarKept DEF LanesInv
<1>3. ReportInv' /\ DOMAIN report' = Run
  BY <1>1, <1>2, ReportKept DEF LanesInv
<1>4. EndedInv'
  BY <1>1, EndedKept DEF LanesInv
<1> QED
  BY <1>2, <1>3, <1>4 DEF LanesInv

LEMMA LanesInvariant == LanesSpec => []LanesInv
  BY LanesStart, LanesKept, PTL DEF LanesSpec

\* A complete SonarQube status stands for a computed analysis, and for all issues of the run's
\* revision and no other unless what its branch shows changed while the issues were read; the
\* issues are never of an analysis computed before its own, for any runs, branches, renames and
\* failures (export_sonar_issues.py, finalize_sonar_status.py:40).
THEOREM CompleteStatusIsExact == LanesSpec => []CompleteIsExact
<1>1. ASSUME SonarInv, NEW r \in Run, status[r] = "CONFIGURED_COMPLETE"
      PROVE  /\ computed[r] = "success"
             /\ ~replaced[r] => native[r] = {r} \X (1..Pages[r])
             /\ \A issue \in native[r] : issue[1] \notin before[r]
  <2>1. StatusOf(r)
    BY <1>1 DEF SonarInv
  <2> QED
    BY <1>1, <2>1 DEF StatusOf, UpTo, Newer
<1>2. LanesInv => CompleteIsExact
  BY <1>1 DEF LanesInv, CompleteIsExact
<1> QED
  BY <1>2, LanesInvariant, PTL

\* The evidence of a review that was seen holds the comments that came with it, however the
\* reviewer works on (collect_coderabbit.py:136-184).
THEOREM ReviewsAreWhole == LanesSpec => []ReviewIsWhole
<1>1. LanesInv => ReviewIsWhole
  BY DEF LanesInv, ReviewInv
<1> QED
  BY <1>1, LanesInvariant, PTL

\* A zero in a report was measured: its lane completed, with nothing in what it retained
\* (snapshot.py:72).
THEOREM ZerosAreMeasured == LanesSpec => []ZeroIsMeasured
<1>1. LanesInv => ZeroIsMeasured
  BY DEF LanesInv, ReportInv, ZeroIsMeasured
<1> QED
  BY <1>1, LanesInvariant, PTL

\* What a profile task calls completed it has produced itself (run_profile.py:107,
\* extension_runner.py:33).
THEOREM CompletedTasksAreFresh == LanesSpec => []CompletedIsFresh
<1>1. LanesInv => CompletedIsFresh
  BY DEF LanesInv, TaskInv
<1> QED
  BY <1>1, LanesInvariant, PTL

\* No API outlives the task that started it (run_profile.py:90).
THEOREM ServersEnd == LanesSpec => []ServerEnds
<1>1. LanesInv => ServerEnds
  BY DEF LanesInv, TaskInv, ServerEnds
<1> QED
  BY <1>1, LanesInvariant, PTL
===============================================================================
