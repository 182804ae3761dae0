------------------------------ MODULE Coordinator ------------------------------
(***************************************************************************)
(* The analysis coordinator (.github/workflows/                            *)
(* code-analysis-coordinator.yml) working against the queue of             *)
(* ControlPlane: one workflow run per claim, its heartbeat job, its        *)
(* scanner lanes, the publish job in the project's concurrency group and   *)
(* the complete job.  A run is identified by the lease token it was given. *)
(*                                                                         *)
(* A wake is best effort, may come late and is sent again by every retry,  *)
(* so a hinted claim may start for any known request at any time, and the  *)
(* 15-minute schedule may start an unhinted one.                           *)
(*                                                                         *)
(* faults counts what the infrastructure breaks: a lost response, a job    *)
(* that dies, a heartbeat that fails, a lease that lapses under a live     *)
(* heartbeat.  MaxFaults bounds it; safety holds for every bound, liveness *)
(* needs one.                                                              *)
(***************************************************************************)
EXTENDS ControlPlane

CONSTANT MaxFaults
ASSUME FaultAssumption == MaxFaults \in Nat

VARIABLES runs,       \* lease token -> the coordinator run that holds it
          report,     \* project -> acceptance of the current report's request
          visits,     \* <<run, project>> -> what the run's pass read there, until written
          published,  \* history: project -> acceptance its own run last published
          faults

reportVars == <<report, visits, published>>
runVars == <<runs, reportVars, faults>>
allVars == <<vars, runVars>>
queueKept == UNCHANGED vars

Fault == faults < MaxFaults /\ faults' = faults + 1
NoFault == UNCHANGED faults

Grant(t) == CHOOSE g \in grants : g.token = t
Order(r) == [generation |-> r.generation, acceptance |-> r.acceptance]
Move(t, stage) == runs' = [runs EXCEPT ![t].stage = stage]
\* A workflow run is in progress while any of its jobs is, the heartbeat
\* job included.
InProgress(t) == runs[t].stage # "over" \/ runs[t].renewing

-----------------------------------------------------------------------------
(* The claim job.  The claim may be answered and the answer lost; the       *)
(* heartbeat that binds it may fail, and then no heartbeat job starts.      *)

NewRun(k, renewing) ==
  [stage |-> "lanes", renewing |-> renewing, request |-> k,
   project |-> rows[k].intent.project, order |-> Order(rows[k])]

StartRun(k, t) ==
  /\ Hinted(k, t) \/ Unhinted(k, t)
  /\ \/ NoFault /\ runs' = With(runs, t, NewRun(k, TRUE))
     \/ Fault /\ (runs' = With(runs, t, NewRun(k, FALSE)) \/ UNCHANGED runs)
  /\ UNCHANGED reportVars

-----------------------------------------------------------------------------
(* The heartbeat job renews until a renewal is refused or fails, or until   *)
(* its own time limit, well after the other jobs ended.                     *)

Refused(t) == ~Fenced(Grant(t)) \/ lease[t] = 0

Renew(t) ==
  /\ runs[t].renewing
  /\ Heartbeat(Grant(t), FALSE)
  /\ UNCHANGED runVars

StopRenewing(t) ==
  /\ runs[t].renewing
  /\ \/ (Refused(t) \/ runs[t].stage = "over") /\ NoFault
     \/ Fault
  /\ runs' = [runs EXCEPT ![t].renewing = FALSE]
  /\ queueKept /\ UNCHANGED reportVars

-----------------------------------------------------------------------------
(* The publish job waits for the lanes and for its concurrency group, which *)
(* holds one running and one pending job: a job that has to wait takes the  *)
(* pending place, and the job that had it is cancelled.                     *)

Publishing(p) == {t \in DOMAIN runs : runs[t].project = p /\ runs[t].stage \in {"publishing", "fenced", "writing", "keeping", "written"}}
Pending(p) == {t \in DOMAIN runs : runs[t].project = p /\ runs[t].stage = "pending"}

LanesEnd(t) ==
  /\ runs[t].stage = "lanes"
  /\ LET p == runs[t].project
         free == Publishing(p) = {} /\ Pending(p) = {}
     IN  runs' = [u \in DOMAIN runs |->
           CASE u = t /\ free -> [runs[u] EXCEPT !.stage = "publishing"]
             [] u = t /\ ~free -> [runs[u] EXCEPT !.stage = "pending"]
             [] u # t /\ u \in Pending(p) -> [runs[u] EXCEPT !.stage = "failure"]
             [] OTHER -> runs[u]]
  /\ queueKept /\ NoFault /\ UNCHANGED reportVars

LeavePending(t) ==
  /\ runs[t].stage = "pending" /\ Publishing(runs[t].project) = {}
  /\ Move(t, "publishing")
  /\ queueKept /\ NoFault /\ UNCHANGED reportVars

\* The publication heartbeat: renews, and only for the project's newest request.
PassFenceFault(t) ==                             \* without publication: true
  /\ runs[t].stage = "publishing"
  /\ Heartbeat(Grant(t), FALSE)
  /\ Move(t, "fenced")
  /\ NoFault /\ UNCHANGED reportVars
PassFence(t) ==
  /\ runs[t].stage = "publishing"
  /\ Heartbeat(Grant(t), TRUE)
  /\ Move(t, "fenced")
  /\ NoFault /\ UNCHANGED reportVars

FailFence(t) ==
  /\ runs[t].stage = "publishing"
  /\ \/ (Refused(t) \/ ~IsLatest(Grant(t).key)) /\ NoFault
     \/ Fault
  /\ Move(t, "failure")
  /\ queueKept /\ UNCHANGED reportVars

(* python -m scripts.code_analysis.repository_service lists the workflow's  *)
(* runs first.  Only when no other run is in progress does it collect the   *)
(* evidence, and the report is replaced only if some selected channel is    *)
(* valid; otherwise the report stays as it is and the job still succeeds.   *)
(* A run that is only claiming is in progress as well, so leaving the       *)
(* report alone is always possible.                                         *)
ListRuns(t) ==
  /\ runs[t].stage = "fenced"
  /\ \A u \in DOMAIN runs \ {t} : ~InProgress(u)
  /\ Move(t, "writing")
  /\ queueKept /\ NoFault /\ UNCHANGED reportVars
KeepReport(t) ==
  /\ runs[t].stage \in {"fenced", "writing"}
  /\ Move(t, "keeping")
  /\ queueKept /\ NoFault /\ UNCHANGED reportVars

(* The pass visits every project of the registry, one after the other: it   *)
(* reads the manifest and writes it again, its own with the new report, any *)
(* other as it read it, however late that is.  Publication has the details. *)
Visited(t) == {p \in Project : <<t, p>> \in DOMAIN visits}
Holds(t, p) == p \in Visited(t) /\ visits[<<t, p>>].open
Closed == [open |-> FALSE, copy |-> {}]
AfterVisits(t) == Without(visits, {t} \X Project)

ReadReport(t, p) ==
  /\ runs[t].stage \in {"writing", "keeping", "written"}
  /\ p \notin Visited(t) /\ \A q \in Project : ~Holds(t, q)
  /\ visits' = With(visits, <<t, p>>,
                    [open |-> TRUE, copy |-> {report[q] : q \in {p} \cap DOMAIN report}])
  /\ queueKept /\ UNCHANGED <<runs, report, published, faults>>
Write(t) ==
  /\ runs[t].stage = "writing" /\ Holds(t, runs[t].project)
  /\ report' = With(report, runs[t].project, runs[t].order)
  /\ published' = With(published, runs[t].project, runs[t].order)
  /\ visits' = With(visits, <<t, runs[t].project>>, Closed)
  /\ Move(t, "written")
  /\ queueKept /\ NoFault
WriteBack(t, p) ==
  /\ runs[t].stage \in {"writing", "keeping", "written"} /\ Holds(t, p)
  /\ p = runs[t].project => runs[t].stage = "keeping"
  /\ \/ visits[<<t, p>>].copy = {} /\ report' = Without(report, {p})
     \/ \E o \in visits[<<t, p>>].copy : report' = With(report, p, o)
  /\ visits' = With(visits, <<t, p>>, Closed)
  /\ queueKept /\ UNCHANGED <<runs, published, faults>>
EndPass(t) ==
  /\ runs[t].stage \in {"keeping", "written"}
  /\ Visited(t) = Project /\ \A p \in Project : ~Holds(t, p)
  /\ visits' = AfterVisits(t)
  /\ Move(t, "success")
  /\ queueKept /\ NoFault /\ UNCHANGED <<report, published>>
PublishFails(t) ==
  /\ runs[t].stage \in {"fenced", "writing", "keeping", "written"} /\ Fault
  /\ visits' = AfterVisits(t)
  /\ Move(t, "failure")
  /\ queueKept /\ UNCHANGED <<report, published>>

-----------------------------------------------------------------------------
(* The complete job runs whatever the others did.  Its call may be refused, *)
(* when a later claim took the channels over, or be lost.                   *)

Outcome(t) == IF runs[t].stage = "success" THEN "completed" ELSE "failed"
CompleteRun(t) ==
  /\ runs[t].stage \in {"success", "failure"}
  /\ Complete(Grant(t), Outcome(t))
  /\ Move(t, "over")
  /\ NoFault /\ UNCHANGED reportVars
CompleteRefused(t) ==
  /\ runs[t].stage \in {"success", "failure"}
  /\ \/ ~Fenced(Grant(t)) /\ NoFault
     \/ Fault
  /\ Move(t, "over")
  /\ queueKept /\ UNCHANGED reportVars

\* A run that is lost altogether: no job of it acts again.
Vanish(t) ==
  /\ runs[t].stage # "over" /\ Fault
  /\ runs' = [runs EXCEPT ![t].stage = "over", ![t].renewing = FALSE]
  /\ visits' = AfterVisits(t)
  /\ queueKept /\ UNCHANGED <<report, published>>

-----------------------------------------------------------------------------
(* The launch API, the operator and time act on the queue alone.  A lease   *)
(* that runs out while its heartbeat job is alive is a fault: the job       *)
(* renews every minute and the lease lasts thirty.                          *)

Launch(k, i) == Admit(k, i) /\ UNCHANGED runVars
Operate == (Pause \/ Resume \/ Reset) /\ UNCHANGED runVars
\* The second half of the reset operation; the first is Reset.
ClearReports == /\ paused
                /\ report' = Without(report, DOMAIN report)
                /\ queueKept /\ UNCHANGED <<runs, visits, published, faults>>
Lapsing == \E t \in DOMAIN runs : runs[t].renewing /\ lease[t] = 1 /\ Fenced(Grant(t))
Pass == /\ Tick
        /\ IF Lapsing THEN Fault ELSE NoFault
        /\ UNCHANGED <<runs, reportVars>>
Forget(a) == Slide(a) /\ UNCHANGED runVars

RunInit ==
  /\ runs = [t \in {} |-> {}] /\ report = [p \in {} |-> {}] /\ faults = 0
  /\ visits = [v \in {} |-> {}] /\ published = [p \in {} |-> {}]
RunStep(t) ==
  \/ Renew(t) \/ StopRenewing(t)
  \/ LanesEnd(t) \/ LeavePending(t) \/ PassFence(t) \/ FailFence(t)
  \/ ListRuns(t) \/ KeepReport(t) \/ Write(t) \/ EndPass(t) \/ PublishFails(t)
  \/ \E p \in Project : ReadReport(t, p) \/ WriteBack(t, p)
  \/ CompleteRun(t) \/ CompleteRefused(t) \/ Vanish(t)
CoordinatorNext ==
  \/ \E k \in Key, i \in Intent : Launch(k, i)
  \/ \E k \in Key, t \in Token : StartRun(k, t)
  \/ \E t \in DOMAIN runs : RunStep(t)
  \/ Operate \/ ClearReports \/ Pass \/ \E a \in Actor : Forget(a)

(* Fairness: the schedule keeps firing, so claimable work is claimed; a job *)
(* that can go on does, and clocks run.  Nothing is assumed of launches,    *)
(* wakes, operators or faults.                                              *)
Recover(t) == \E k \in Key : Unhinted(k, t) /\ StartRun(k, t)
Advance(t) ==
  t \in DOMAIN runs /\ (LanesEnd(t) \/ LeavePending(t) \/ PassFence(t) \/ FailFence(t)
                        \/ KeepReport(t) \/ (\E p \in Project : ReadReport(t, p) \/ WriteBack(t, p))
                        \/ Write(t) \/ EndPass(t) \/ CompleteRun(t) \/ CompleteRefused(t))
Settle(t) == t \in DOMAIN runs /\ runs[t].stage = "over" /\ StopRenewing(t)
CoordinatorFairness ==
  /\ WF_allVars(\E t \in Token : Recover(t))
  /\ \A t \in Token : WF_allVars(Advance(t)) /\ WF_allVars(Settle(t))
  /\ WF_allVars(Pass)

CoordinatorSpec == Init /\ RunInit /\ [][CoordinatorNext]_allVars
FairSpec == CoordinatorSpec /\ CoordinatorFairness
-----------------------------------------------------------------------------
(* Properties.                                                              *)

Later(x, y) == x.generation > y.generation \/
               (x.generation = y.generation /\ x.acceptance > y.acceptance)

(* The runs of a project never publish an older accepted revision after a   *)
(* newer one, though they finish their lanes in any order: the publication  *)
(* fence and the concurrency group together order their writes.  A report   *)
(* that does go back was not published but written back, by a pass that     *)
(* read it before the newer one was published.                              *)
WrittenBack(p) ==
  \E t \in DOMAIN runs :
    Holds(t, p) /\ report'[p] \in visits[<<t, p>>].copy /\ visits' = With(visits, <<t, p>>, Closed)
PublicationsMoveForward ==
  [][/\ \A p \in DOMAIN published : ~Later(published[p], published'[p])
     /\ \A p \in DOMAIN report \cap DOMAIN report' : Later(report[p], report'[p]) => WrittenBack(p)]_allVars

(* No accepted request stays unfinished: once admission stays open, every   *)
(* unfinished request is published, failed or superseded, whatever wakes,   *)
(* responses, heartbeats or whole runs are lost on the way.                 *)
RequestsSettle ==
  <>[]~paused => \A k \in Key : (k \in DOMAIN rows /\ Active(rows[k])) ~>
                                ~(k \in DOMAIN rows /\ Active(rows[k]))
===============================================================================
