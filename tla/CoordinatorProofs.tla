--------------------------- MODULE CoordinatorProofs ---------------------------
(***************************************************************************)
(* Theorems of Coordinator, for any requests, runs, leases and faults: the *)
(* workflow runs use the queue by its operations only, so that whatever    *)
(* ControlPlaneProofs shows of the queue holds of it here, and what        *)
(* its runs publish of a project move forward.                             *)
(***************************************************************************)
EXTENDS Coordinator, ControlPlaneProofs

-----------------------------------------------------------------------------
(* What the runs hold.                                                      *)

\* A run as it was started.
IsRun(r) == r = [stage |-> r.stage, renewing |-> r.renewing, request |-> r.request,
                 project |-> r.project, order |-> r.order]
RunTypes == runs = [t \in DOMAIN runs |-> runs[t]] /\ DOMAIN runs \subseteq Token
            /\ \A t \in DOMAIN runs : IsRun(runs[t])

\* A lease token was granted once, and the run it was granted to still speaks of the row that
\* lists the token: of another acceptance under the same request id, the claims are others.
Granted(t) == \E g \in grants : g.token = t
SpeaksOf(t, k) == runs[t].project = rows[k].intent.project /\ runs[t].order = Order(rows[k])
TokensOwned ==
  /\ \A t \in DOMAIN runs : Granted(t)
  /\ \A k \in DOMAIN rows : \A t \in DOMAIN rows[k].claims :
       Granted(t) /\ (t \in DOMAIN runs => SpeaksOf(t, k))

\* An order the queue gave to a request of project p: no later than those it gives next, nor
\* than that of the request project-latest names.
Behind(p, o) ==
  /\ o.generation \in Nat /\ o.acceptance \in Nat
  /\ o.generation <= generation /\ (o.generation = generation => o.acceptance < nextAcceptance)
  /\ p \in DOMAIN latest /\ latest[p] \in DOMAIN rows /\ rows[latest[p]].intent.project = p
       => ~Later(o, Order(rows[latest[p]]))
Given(p, o) ==
  \/ \E t \in DOMAIN runs : p = runs[t].project /\ o = runs[t].order
  \/ p \in DOMAIN published /\ o = published[p]
OrdersBehind == \A p, o : Given(p, o) => Behind(p, o)

\* The concurrency group: one job of a project publishes at a time.
Writes(t) == t \in DOMAIN runs /\ runs[t].stage \in {"publishing", "fenced", "writing", "keeping", "written"}
OnePublisher == \A t, u : Writes(t) /\ Writes(u) /\ runs[t].project = runs[u].project => t = u
\* A job that passed the fence is not behind what was published.
FencedAhead ==
  \A t \in DOMAIN runs :
    runs[t].stage \in {"fenced", "writing"} /\ runs[t].project \in DOMAIN published
      => ~Later(published[runs[t].project], runs[t].order)

RunInv == RunTypes /\ TokensOwned /\ OrdersBehind /\ OnePublisher /\ FencedAhead

-----------------------------------------------------------------------------
(* The queue under the runs.                                                *)

LEMMA GrantIs == ASSUME TokensOwned, NEW t \in DOMAIN runs PROVE Grant(t) \in grants /\ Grant(t).token = t
  BY DEF TokensOwned, Granted, Grant

LEMMA QueueSteps == ASSUME TokensOwned, [CoordinatorNext]_allVars PROVE [Next]_vars
<1>1. ASSUME NEW k \in Key, NEW t \in Token, StartRun(k, t) PROVE Next
  BY <1>1 DEF StartRun, Next
<1>2. ASSUME NEW t \in DOMAIN runs, RunStep(t) PROVE [Next]_vars
  <2>1. ASSUME NEW b \in BOOLEAN, Heartbeat(Grant(t), b) PROVE Next
    BY <2>1, GrantIs DEF Next
  <2>2. CASE CompleteRun(t)
    <3>1. Complete(Grant(t), Outcome(t)) /\ Outcome(t) \in {"completed", "failed"}
      BY <2>2 DEF CompleteRun, Outcome
    <3> QED
      BY <3>1, GrantIs DEF Next
  <2>3. CASE Renew(t) \/ PassFence(t)
    BY <2>1, <2>3 DEF Renew, PassFence
  <2>4. CASE \/ StopRenewing(t) \/ LanesEnd(t) \/ LeavePending(t) \/ FailFence(t) \/ ListRuns(t)
             \/ KeepReport(t) \/ Write(t) \/ EndPass(t) \/ PublishFails(t) \/ CompleteRefused(t) \/ Vanish(t)
             \/ \E p \in Project : ReadReport(t, p) \/ WriteBack(t, p)
    BY <2>4 DEF StopRenewing, LanesEnd, LeavePending, FailFence, ListRuns, KeepReport, Write, EndPass,
                PublishFails, CompleteRefused, Vanish, ReadReport, WriteBack, queueKept
  <2> QED
    BY <1>2, <2>2, <2>3, <2>4 DEF RunStep
<1>3. CASE \/ \E k \in Key, i \in Intent : Launch(k, i)
           \/ Operate \/ ClearReports \/ Pass \/ (\E a \in Actor : Forget(a)) \/ UNCHANGED allVars
  BY <1>3 DEF Launch, Operate, ClearReports, Pass, Forget, Next, queueKept, allVars
<1> QED
  BY <1>1, <1>2, <1>3 DEF CoordinatorNext

\* A row that lists a token lists it since before, or a claim gave it out in this step.
LEMMA ClaimsChange ==
  ASSUME TypeOK, [Next]_vars, NEW j \in DOMAIN rows', NEW t \in DOMAIN rows'[j].claims
  PROVE  /\ j \in DOMAIN rows /\ Placed(rows'[j], rows[j])
         /\ t \in DOMAIN rows[j].claims \/ (Claim(j, t) /\ t \in Token)
<1>0. \A k \in DOMAIN rows : IsRow(rows[k])
  BY DEF TypeOK
<1>1. ASSUME NEW k \in Key, NEW i \in Intent, Accept(k, i)
      PROVE  j \in DOMAIN rows /\ Placed(rows'[j], rows[j]) /\ t \in DOMAIN rows[j].claims
  <2>1. DOMAIN NewRow(k, i).claims = {}
    BY NewRowType
  <2>2. \A e \in DOMAIN rows : DOMAIN Superseded(rows[e]).claims = {}
    BY <1>0, SupersededType
  <2>3. j # k /\ j \in DOMAIN rows /\ rows'[j] = rows[j]
    BY <1>1, <2>1, <2>2, AcceptRows
  <2> QED
    BY <2>3 DEF Placed
<1>2. ASSUME NEW k \in Key, NEW i \in Intent, Merge(k, i)
      PROVE  j \in DOMAIN rows /\ Placed(rows'[j], rows[j]) /\ t \in DOMAIN rows[j].claims
  <2>1. PICK e \in DOMAIN rows : rows' = [rows EXCEPT ![e] = Merged(rows[e], k, i)]
    BY <1>2, ExistingRows DEF Merge
  <2> QED
    BY <1>0, <2>1, MergedType DEF Placed
<1>3. ASSUME NEW k \in DOMAIN rows, NEW u \in Token, Claim(k, u)
      PROVE  /\ j \in DOMAIN rows /\ Placed(rows'[j], rows[j])
             /\ t \in DOMAIN rows[j].claims \/ (Claim(j, t) /\ t \in Token)
  <2>1. rows' = [rows EXCEPT ![k] = ClaimedRow(rows[k], u)]
    BY <1>3 DEF Claim
  <2>2. PICK r : r = ClaimedRow(rows[k], u)
    OBVIOUS
  <2>3. Placed(r, rows[k]) /\ DOMAIN r.claims \subseteq DOMAIN rows[k].claims \cup {u}
    <3>1. /\ Placed(r, rows[k])
          /\ r.claims = With(Without(rows[k].claims, ExpiredTokens(rows[k])), u, Claimable(rows[k]))
      BY <1>0, <2>2, ClaimedRowType DEF Placed
    <3> QED
      BY <3>1 DEF With, Without
  <2>4. CASE j = k
    BY <1>3, <2>1, <2>2, <2>3, <2>4
  <2>5. CASE j # k
    BY <2>1, <2>5 DEF Placed
  <2> QED
    BY <2>4, <2>5
<1>4. ASSUME NEW g \in grants, NEW outcome \in {"completed", "failed"}, Complete(g, outcome)
      PROVE  j \in DOMAIN rows /\ Placed(rows'[j], rows[j]) /\ t \in DOMAIN rows[j].claims
  <2>1. g.key \in DOMAIN rows /\ g.token \in Token /\ rows' = [rows EXCEPT ![g.key] = Completed(g.key, g.token, outcome)]
    BY <1>4 DEF Complete, Fenced, TypeOK
  <2>2. PICK r : r = Completed(g.key, g.token, outcome)
    OBVIOUS
  <2>3. Placed(r, rows[g.key]) /\ DOMAIN r.claims \subseteq DOMAIN rows[g.key].claims
    <3>1. r.intent = rows[g.key].intent /\ r.acceptance = rows[g.key].acceptance /\ r.generation = rows[g.key].generation
      BY <1>0, <2>1, <2>2, CompletedType
    <3>2. r.claims = Without(rows[g.key].claims, {g.token})
      BY <1>0, <2>1, <2>2, CompletedClaims
    <3> QED
      BY <3>1, <3>2 DEF Placed, Without
  <2> QED
    BY <2>1, <2>2, <2>3 DEF Placed
<1>5. CASE Reset
  <2>1. j \in DOMAIN rows /\ rows'[j] = Cancelled(rows[j])
    BY <1>5 DEF Reset, CutOver
  <2>2. CASE Active(rows[j])
    <3>1. DOMAIN rows'[j].claims = {}
      BY <1>0, <2>1, <2>2 DEF Cancelled, NoClaims, IsRow
    <3> QED
      BY <3>1
  <2>3. CASE ~Active(rows[j])
    BY <2>1, <2>3 DEF Cancelled, Placed
  <2> QED
    BY <2>2, <2>3
<1>6. CASE Pause \/ Resume \/ Tick \/ (\E a \in Actor : Slide(a))
           \/ (\E g \in grants, publication \in BOOLEAN : Heartbeat(g, publication))
           \/ UNCHANGED vars
  BY <1>6 DEF Pause, Resume, Tick, Slide, Heartbeat, vars, Placed
<1> QED
  BY <1>1, <1>2, <1>3, <1>4, <1>5, <1>6 DEF Next, Admit, Hinted, Unhinted, Claimables

LEMMA GrantsGrow ==
  ASSUME [Next]_vars PROVE grants \subseteq grants'
  BY DEF Next, Admit, Merge, Accept, Hinted, Unhinted, Claim, Heartbeat, Complete, Pause, Resume, Reset, CutOver,
         Tick, Slide, vars

\* An order stays behind what the queue gives out.
LEMMA BehindStays == ASSUME TypeOK, [Next]_vars, NEW p, NEW o, Behind(p, o) PROVE Behind(p, o)'
<1>0. /\ \A j \in DOMAIN rows : rows[j].acceptance \in Nat /\ rows[j].generation \in Nat
      /\ nextAcceptance \in Nat /\ generation \in Nat /\ o.generation \in Nat /\ o.acceptance \in Nat
  BY DEF TypeOK, IsRow, Behind
<1>1. CASE /\ UNCHANGED <<nextAcceptance, generation, latest>>
           /\ \A j \in DOMAIN rows' : RowKeepsPlace(j)
  BY <1>0, <1>1 DEF Behind, RowKeepsPlace, Placed, Later, Order
<1>2. CASE /\ generation' = generation + 1 /\ UNCHANGED latest
           /\ \A j \in DOMAIN rows' : RowKeepsPlace(j)
  BY <1>0, <1>2 DEF Behind, RowKeepsPlace, Placed, Later, Order
<1>3. ASSUME generation' = generation, nextAcceptance' = nextAcceptance + 1,
             NEW k \in Key, NEW i \in Intent, latest' = With(latest, i.project, k),
             k \in DOMAIN rows' => rows'[k] = NewRow(k, i),
             \A j \in DOMAIN rows' \ {k} : RowKeepsPlace(j)
      PROVE  Behind(p, o)'
  <2>1. /\ NewRow(k, i).acceptance = nextAcceptance /\ NewRow(k, i).generation = generation
        /\ NewRow(k, i).intent = i
    BY NewRowType
  <2>2. ASSUME p \in DOMAIN latest', latest'[p] \in DOMAIN rows', rows'[latest'[p]].intent.project = p
        PROVE  ~Later(o, Order(rows'[latest'[p]]))
    <3>1. CASE latest'[p] = k
      BY <1>0, <1>3, <2>1, <2>2, <3>1 DEF Behind, Later, Order
    <3>2. CASE latest'[p] # k
      <4>1. p # i.project /\ p \in DOMAIN latest /\ latest'[p] = latest[p]
        BY <1>3, <2>2, <3>2 DEF With
      <4> QED
        BY <1>0, <1>3, <2>2, <3>2, <4>1 DEF Behind, RowKeepsPlace, Placed, Later, Order
    <3> QED
      BY <3>1, <3>2
  <2> QED
    BY <1>0, <1>3, <2>2 DEF Behind, Later, Order
<1> QED
  BY <1>1, <1>2, <1>3, CounterChange

\* The order of a row that is there is behind.
LEMMA RowBehind ==
  ASSUME QueueInv, NEW k \in DOMAIN rows PROVE Behind(rows[k].intent.project, Order(rows[k]))
<1>1. /\ \A j \in DOMAIN rows : rows[j].acceptance \in Nat /\ rows[j].generation \in Nat
      /\ nextAcceptance \in Nat /\ generation \in Nat
  BY DEF QueueInv, TypeOK, IsRow
<1> QED
  BY <1>1 DEF QueueInv, AcceptancesInOrder, LatestIsNewest, Behind, Order, Later, Newer

-----------------------------------------------------------------------------
(* Steps that start no run: every run keeps its project and its order.      *)
RunsKept ==
  /\ RunTypes' /\ DOMAIN runs' = DOMAIN runs
  /\ \A t \in DOMAIN runs : runs'[t].project = runs[t].project /\ runs'[t].order = runs[t].order
StageKept == \A t \in DOMAIN runs : runs'[t].stage = runs[t].stage
PublishedKept == published' = published

LEMMA TokensKept ==
  ASSUME TypeOK, [Next]_vars, TokensOwned, RunsKept PROVE TokensOwned'
<1>1. \A t : Granted(t) => Granted(t)'
  BY GrantsGrow DEF Granted
<1>2. ASSUME NEW j \in DOMAIN rows', NEW t \in DOMAIN rows'[j].claims
      PROVE  Granted(t)' /\ (t \in DOMAIN runs' => SpeaksOf(t, j)')
  <2>1. /\ j \in DOMAIN rows /\ Placed(rows'[j], rows[j])
        /\ t \in DOMAIN rows[j].claims \/ (Claim(j, t) /\ t \in Token)
    BY ClaimsChange
  <2>2. CASE t \in DOMAIN rows[j].claims
    BY <1>1, <2>1, <2>2 DEF TokensOwned, RunsKept, SpeaksOf, Placed, Order
  <2>3. CASE Claim(j, t)
    <3>1. ~Granted(t)
      BY <2>3 DEF Claim, Granted
    <3>2. PICK g : g = [key |-> j, token |-> t, generation |-> rows[j].generation]
      OBVIOUS
    <3>3. g \in grants' /\ g.token = t
      BY <2>3, <3>2 DEF Claim
    <3>4. Granted(t)'
      BY <3>3 DEF Granted
    <3> QED
      BY <3>1, <3>4 DEF TokensOwned, RunsKept
  <2> QED
    BY <2>1, <2>2, <2>3
<1> QED
  BY <1>1, <1>2 DEF TokensOwned, RunsKept

LEMMA OrdersKept ==
  ASSUME TypeOK, [Next]_vars, OrdersBehind, RunsKept, PublishedKept PROVE OrdersBehind'
<1>1. \A p, o : Given(p, o)' => Given(p, o)
  BY DEF Given, RunsKept, PublishedKept
<1> QED
  BY <1>1, BehindStays DEF OrdersBehind

-----------------------------------------------------------------------------
(* The concurrency group and the fence.                                     *)

\* A step that lets no job in and past no fence.
LEMMA GroupKept ==
  ASSUME OnePublisher, FencedAhead, RunsKept, PublishedKept,
         \A u \in DOMAIN runs :
           /\ Writes(u)' => Writes(u)
           /\ runs'[u].stage \in {"fenced", "writing"} => runs[u].stage \in {"fenced", "writing"}
  PROVE  OnePublisher' /\ FencedAhead'
<1>1. OnePublisher'
  BY DEF OnePublisher, RunsKept, Writes
<1>2. FencedAhead'
  BY DEF FencedAhead, RunsKept, PublishedKept
<1> QED
  BY <1>1, <1>2

\* The next stage of one run.
LEMMA MoveIs ==
  ASSUME RunTypes, NEW t \in DOMAIN runs, NEW stage, Move(t, stage)
  PROVE  /\ RunsKept /\ runs'[t].stage = stage
         /\ \A u \in DOMAIN runs \ {t} : runs'[u] = runs[u]
<1>1. runs'[t] = [stage |-> stage, renewing |-> runs[t].renewing, request |-> runs[t].request,
                  project |-> runs[t].project, order |-> runs[t].order]
  BY DEF Move, RunTypes, IsRun
<1>2. /\ DOMAIN runs' = DOMAIN runs /\ \A u \in DOMAIN runs \ {t} : runs'[u] = runs[u]
      /\ runs' = [u \in DOMAIN runs' |-> runs'[u]]
  BY DEF Move, RunTypes
<1> QED
  BY <1>1, <1>2 DEF RunsKept, RunTypes, IsRun

\* A stage that is no publisher's, after whatever stage.
LEMMA LeavesGroup ==
  ASSUME RunInv, NEW t \in DOMAIN runs, NEW stage, Move(t, stage), PublishedKept,
         \/ stage \notin {"publishing", "fenced", "writing", "keeping", "written"}
         \/ stage = "writing" /\ runs[t].stage = "fenced"
         \/ stage = "keeping" /\ runs[t].stage \in {"fenced", "writing"}
  PROVE  RunsKept /\ OnePublisher' /\ FencedAhead'
  BY MoveIs, GroupKept DEF RunInv, Writes, RunsKept

LEMMA GroupQuiet ==
  ASSUME RunInv, NEW t \in DOMAIN runs,
         \/ FailFence(t) \/ ListRuns(t) \/ KeepReport(t) \/ EndPass(t) \/ PublishFails(t)
         \/ CompleteRun(t) \/ CompleteRefused(t)
  PROVE  RunsKept /\ PublishedKept /\ OnePublisher' /\ FencedAhead'
<1>1. PublishedKept
  BY DEF PublishedKept, FailFence, ListRuns, KeepReport, EndPass, PublishFails, CompleteRun, CompleteRefused,
         reportVars
<1> QED
  BY <1>1, LeavesGroup DEF FailFence, ListRuns, KeepReport, EndPass, PublishFails, CompleteRun, CompleteRefused

LEMMA GroupEnds ==
  ASSUME RunInv, NEW t \in DOMAIN runs, StopRenewing(t) \/ Vanish(t)
  PROVE  RunsKept /\ PublishedKept /\ OnePublisher' /\ FencedAhead'
<1>1. PublishedKept
  BY DEF PublishedKept, StopRenewing, Vanish, reportVars
<1> DEFINE Ended(stage) ==
             runs'[t] = [stage |-> stage, renewing |-> FALSE, request |-> runs[t].request,
                         project |-> runs[t].project, order |-> runs[t].order]
<1>0. RunTypes
  BY DEF RunInv
<1>1a. IsRun(runs[t])
  BY <1>0 DEF RunTypes
<1>2. /\ DOMAIN runs' = DOMAIN runs /\ \A u \in DOMAIN runs \ {t} : runs'[u] = runs[u]
      /\ runs' = [u \in DOMAIN runs' |-> runs'[u]]
  BY DEF StopRenewing, Vanish, RunInv, RunTypes
<1>2a. PICK r : r = runs[t]
  OBVIOUS
<1>3. PICK stage \in {"over", runs[t].stage} : Ended(stage)
  <2>0. r = [stage |-> r.stage, renewing |-> r.renewing, request |-> r.request,
             project |-> r.project, order |-> r.order]
    BY <1>1a, <1>2a DEF IsRun
  <2>1. CASE Vanish(t)
    <3>1. runs'[t] = [r EXCEPT !.stage = "over", !.renewing = FALSE]
      <4>1. runs' = [runs EXCEPT ![t].stage = "over", ![t].renewing = FALSE]
        BY <2>1 DEF Vanish
      <4> QED
        BY <4>1, <1>2a, <1>0 DEF RunTypes
    <3>2. Ended("over")
      BY <3>1, <2>0, <1>2a
    <3> QED
      BY <3>2
  <2>2. CASE StopRenewing(t)
    <3>1. runs' = [runs EXCEPT ![t].renewing = FALSE]
      BY <2>2 DEF StopRenewing
    <3>2. runs'[t] = [r EXCEPT !.renewing = FALSE]
      BY <3>1, <1>2a, <1>0 DEF RunTypes
    <3>3. Ended(runs[t].stage)
      BY <3>2, <2>0, <1>2a
    <3> QED
      BY <3>3
  <2> QED
    BY <2>1, <2>2
<1>4. RunsKept
  BY <1>2, <1>3 DEF RunsKept, RunInv, RunTypes, IsRun
<1>6. \A u \in DOMAIN runs : runs'[u].stage \in {"over", runs[u].stage}
  BY <1>2, <1>3
<1> QED
  BY <1>1, <1>4, <1>6, GroupKept DEF RunInv, Writes, RunsKept

\* A job takes the running place when nobody has it.
LEMMA GroupEnters ==
  ASSUME RunInv, NEW t \in DOMAIN runs, LanesEnd(t) \/ LeavePending(t)
  PROVE  RunsKept /\ PublishedKept /\ OnePublisher' /\ FencedAhead'
<1> DEFINE p == runs[t].project
<1>1. PublishedKept
  BY DEF PublishedKept, LanesEnd, LeavePending, reportVars
<1>2. /\ RunsKept
      /\ \A u \in DOMAIN runs : runs'[u].stage \in {runs[u].stage, "publishing", "pending", "failure"}
      /\ \A u \in DOMAIN runs : runs'[u].stage = "publishing" =>
           runs[u].stage = "publishing" \/ (u = t /\ Publishing(p) = {})
  <2>1. CASE LeavePending(t)
    <3>1. RunsKept /\ runs'[t].stage = "publishing" /\ Publishing(p) = {}
          /\ \A u \in DOMAIN runs \ {t} : runs'[u] = runs[u]
      BY <2>1, MoveIs DEF LeavePending, RunInv
    <3> QED
      BY <3>1
  <2>2. CASE LanesEnd(t)
    <3>1. PICK free : free = (Publishing(p) = {} /\ Pending(p) = {})
      OBVIOUS
    <3>2. runs' = [u \in DOMAIN runs |->
             CASE u = t /\ free -> [runs[u] EXCEPT !.stage = "publishing"]
               [] u = t /\ ~free -> [runs[u] EXCEPT !.stage = "pending"]
               [] u # t /\ u \in Pending(p) -> [runs[u] EXCEPT !.stage = "failure"]
               [] OTHER -> runs[u]]
      BY <2>2, <3>1 DEF LanesEnd
    <3>3. ASSUME NEW u \in DOMAIN runs
          PROVE  \E s \in {runs[u].stage, "publishing", "pending", "failure"} :
                   /\ runs'[u] = [stage |-> s, renewing |-> runs[u].renewing, request |-> runs[u].request,
                                  project |-> runs[u].project, order |-> runs[u].order]
                   /\ s = "publishing" => runs[u].stage = "publishing" \/ (u = t /\ free)
      <4>1. IsRun(runs[u])
        BY DEF RunInv, RunTypes
      <4>2. CASE u = t /\ free
        BY <3>2, <4>1, <4>2 DEF IsRun
      <4>3. CASE u = t /\ ~free
        BY <3>2, <4>1, <4>3 DEF IsRun
      <4>4. CASE u # t /\ u \in Pending(p)
        BY <3>2, <4>1, <4>4 DEF IsRun
      <4>5. CASE u # t /\ u \notin Pending(p)
        BY <3>2, <4>1, <4>5 DEF IsRun
      <4> QED
        BY <4>2, <4>3, <4>4, <4>5
    <3>4. DOMAIN runs' = DOMAIN runs /\ runs' = [u \in DOMAIN runs' |-> runs'[u]]
      BY <3>2
    <3>5. RunsKept
      BY <3>3, <3>4 DEF RunsKept, RunInv, RunTypes, IsRun
    <3>6. ASSUME NEW u \in DOMAIN runs
          PROVE  /\ runs'[u].stage \in {runs[u].stage, "publishing", "pending", "failure"}
                 /\ runs'[u].stage = "publishing" => runs[u].stage = "publishing" \/ (u = t /\ free)
      <4>1. PICK s \in {runs[u].stage, "publishing", "pending", "failure"} :
              /\ runs'[u] = [stage |-> s, renewing |-> runs[u].renewing, request |-> runs[u].request,
                             project |-> runs[u].project, order |-> runs[u].order]
              /\ s = "publishing" => runs[u].stage = "publishing" \/ (u = t /\ free)
        BY <3>3
      <4>2. runs'[u].stage = s
        BY <4>1
      <4> QED
        BY <4>1, <4>2
    <3> QED
      BY <3>1, <3>5, <3>6
  <2> QED
    BY <2>1, <2>2
<1>3. Publishing(p) = {} => \A u : Writes(u) => runs[u].project # p
  BY DEF Publishing, Writes
<1>4. OnePublisher'
  BY <1>2, <1>3 DEF RunInv, OnePublisher, Writes, RunsKept
<1>5. FencedAhead'
  BY <1>1, <1>2 DEF RunInv, FencedAhead, RunsKept, PublishedKept
<1> QED
  BY <1>1, <1>2, <1>4, <1>5

\* The fence lets the project's newest request pass only: nothing newer was published.
LEMMA GroupFence ==
  ASSUME QueueInv, RunInv, NEW t \in DOMAIN runs, PassFence(t)
  PROVE  RunsKept /\ PublishedKept /\ OnePublisher' /\ FencedAhead'
<1> DEFINE p == runs[t].project
           k == Grant(t).key
<1>1. PublishedKept
  BY DEF PublishedKept, PassFence, reportVars
<1>2. /\ RunsKept /\ runs[t].stage = "publishing" /\ runs'[t].stage = "fenced"
      /\ \A u \in DOMAIN runs \ {t} : runs'[u] = runs[u]
  BY MoveIs DEF PassFence, RunInv
<1>3. OnePublisher'
  BY <1>2 DEF RunInv, OnePublisher, Writes, RunsKept
<1>4. k \in DOMAIN rows /\ t \in DOMAIN rows[k].claims /\ IsLatest(k)
  BY GrantIs DEF PassFence, Heartbeat, Fenced, RunInv
<1>5. SpeaksOf(t, k)
  BY <1>4 DEF RunInv, TokensOwned
<1>6. latest[p] = k /\ p \in DOMAIN latest /\ rows[k].intent.project = p /\ runs[t].order = Order(rows[k])
  BY <1>4, <1>5 DEF IsLatest, SpeaksOf
<1>7. p \in DOMAIN published => ~Later(published[p], runs[t].order)
  BY <1>4, <1>6 DEF RunInv, OrdersBehind, Given, Behind
<1>8. FencedAhead'
  BY <1>1, <1>2, <1>7 DEF RunInv, FencedAhead, RunsKept, PublishedKept
<1> QED
  BY <1>1, <1>2, <1>3, <1>8

-----------------------------------------------------------------------------
(* The steps that change what the queue is owed: a write and a start.       *)

\* What is published never goes back.
Forward == \A p \in DOMAIN published : p \in DOMAIN published' /\ ~Later(published[p], published'[p])

\* What is written was passed by the fence, and nobody else of the project writes.
LEMMA WriteStep ==
  ASSUME TypeOK, [Next]_vars, RunInv, NEW t \in DOMAIN runs, Write(t)
  PROVE  RunInv' /\ Forward
<1> DEFINE q == runs[t].project
<1>1. /\ RunsKept /\ runs[t].stage = "writing" /\ runs'[t].stage = "written"
      /\ \A u \in DOMAIN runs \ {t} : runs'[u] = runs[u]
  BY MoveIs DEF Write, RunInv
<1>2. /\ DOMAIN published' = DOMAIN published \cup {q} /\ published'[q] = runs[t].order
      /\ \A p \in DOMAIN published \ {q} : published'[p] = published[p]
  <2>1. published' = With(published, runs[t].project, runs[t].order)
    BY DEF Write
  <2> QED
    BY <2>1 DEF With
<1>3. ASSUME NEW p, NEW o, Given(p, o)' PROVE Given(p, o)
  BY <1>1, <1>2, <1>3 DEF Given, RunsKept
<1>4. OrdersBehind'
  BY <1>3, BehindStays DEF RunInv, OrdersBehind
<1>5. TokensOwned'
  BY <1>1, TokensKept DEF RunInv
<1>6. OnePublisher'
  BY <1>1 DEF RunInv, OnePublisher, Writes, RunsKept
<1>7. FencedAhead'
  <2> SUFFICES ASSUME NEW u \in DOMAIN runs, runs'[u].stage \in {"fenced", "writing"},
                      runs[u].project \in DOMAIN published'
               PROVE  ~Later(published'[runs[u].project], runs[u].order)
    BY <1>1 DEF FencedAhead, RunsKept
  <2>1. u # t /\ Writes(u) /\ Writes(t) /\ runs'[u] = runs[u]
    BY <1>1 DEF Writes
  <2>2. runs[u].project # q
    BY <2>1 DEF RunInv, OnePublisher
  <2> QED
    BY <1>2, <2>1, <2>2 DEF RunInv, FencedAhead
<1>8. ASSUME NEW p \in DOMAIN published PROVE p \in DOMAIN published' /\ ~Later(published[p], published'[p])
  <2>1. CASE p = q
    BY <1>1, <1>2, <2>1 DEF RunInv, FencedAhead
  <2>2. CASE p # q
    <3>1. published'[p] = published[p] /\ Behind(p, published[p])
      BY <1>2, <2>2 DEF RunInv, OrdersBehind, Given
    <3> QED
      BY <1>2, <3>1 DEF Behind, Later
  <2> QED
    BY <2>1, <2>2
<1> QED
  BY <1>1, <1>4, <1>5, <1>6, <1>7, <1>8 DEF RunInv, RunsKept, Forward

\* A step that publishes nothing.
LEMMA StillForward == ASSUME RunInv, PublishedKept PROVE Forward
<1>1. ASSUME NEW p \in DOMAIN published PROVE ~Later(published[p], published[p])
  <2>1. Behind(p, published[p])
    BY DEF RunInv, OrdersBehind, Given
  <2> QED
    BY <2>1 DEF Behind, Later
<1> QED
  BY <1>1 DEF Forward, PublishedKept

\* A step that starts no run and publishes nothing.
LEMMA KeptStep ==
  ASSUME TypeOK, [Next]_vars, RunInv, RunsKept, PublishedKept, OnePublisher' /\ FencedAhead'
  PROVE  RunInv' /\ Forward
  BY TokensKept, OrdersKept, StillForward DEF RunInv, RunsKept

\* A claim whose run starts, or whose answer is lost.
LEMMA StartStep ==
  ASSUME QueueInv, QueueInv', RunInv, NEW k \in Key, NEW t \in Token, StartRun(k, t)
  PROVE  RunInv' /\ Forward
<1>0. PublishedKept /\ k \in DOMAIN rows /\ Claim(k, t) /\ [Next]_vars
  BY DEF StartRun, Hinted, Unhinted, Claimables, Next, PublishedKept, reportVars
<1>1. CASE UNCHANGED runs
  <2>1. RunsKept
    BY <1>1 DEF RunsKept, RunInv, RunTypes
  <2>2. OnePublisher' /\ FencedAhead'
    BY <1>0, <1>1 DEF RunInv, OnePublisher, FencedAhead, Writes, PublishedKept
  <2> QED
    BY <1>0, <2>1, <2>2, KeptStep DEF QueueInv
<1>2. ASSUME NEW b \in BOOLEAN, runs' = With(runs, t, NewRun(k, b)) PROVE RunInv'
  <2>1. /\ runs' = [u \in DOMAIN runs' |-> runs'[u]]
        /\ DOMAIN runs' = DOMAIN runs \cup {t} /\ runs'[t] = NewRun(k, b)
        /\ \A u \in DOMAIN runs \ {t} : runs'[u] = runs[u]
    BY <1>2 DEF With
  <2>2. ~Granted(t)
    BY <1>0 DEF Claim, Granted
  <2>3. t \notin DOMAIN runs /\ \A j \in DOMAIN rows : t \notin DOMAIN rows[j].claims
    BY <2>2 DEF RunInv, TokensOwned
  <2>4. IsRun(runs'[t]) /\ runs'[t].stage = "lanes" /\ runs'[t].project = rows[k].intent.project
        /\ runs'[t].order = Order(rows[k])
    BY <2>1 DEF NewRun, IsRun
  <2>5. RunTypes'
    BY <2>1, <2>3, <2>4 DEF RunInv, RunTypes
  <2>6. \A u : Granted(u) => Granted(u)'
    BY <1>0, GrantsGrow DEF Granted
  <2>7. Granted(t)'
    <3>1. PICK g : g = [key |-> k, token |-> t, generation |-> rows[k].generation]
      OBVIOUS
    <3>2. g \in grants' /\ g.token = t
      BY <1>0, <3>1 DEF Claim
    <3> QED
      BY <3>2 DEF Granted
  <2>8. ASSUME NEW j \in DOMAIN rows', NEW u \in DOMAIN rows'[j].claims
        PROVE  Granted(u)' /\ (u \in DOMAIN runs' => SpeaksOf(u, j)')
    <3>1. /\ j \in DOMAIN rows /\ Placed(rows'[j], rows[j])
          /\ u \in DOMAIN rows[j].claims \/ (Claim(j, u) /\ u \in Token)
      BY <1>0, ClaimsChange DEF QueueInv
    <3>2. CASE u \in DOMAIN rows[j].claims
      BY <2>1, <2>3, <2>6, <3>1, <3>2 DEF RunInv, TokensOwned, SpeaksOf, Placed, Order
    <3>3. CASE u \notin DOMAIN rows[j].claims
      <4>1. u = t /\ j = k
        <5>1. Claim(j, u) /\ ~Granted(u)
          BY <3>1, <3>3 DEF Claim, Granted
        <5>2. PICK g : g = [key |-> j, token |-> u, generation |-> rows[j].generation]
          OBVIOUS
        <5>3. g \in grants' /\ g \notin grants /\ g.token = u /\ g.key = j
          BY <5>1, <5>2 DEF Claim, Granted
        <5>4. grants' = grants \cup {[key |-> k, token |-> t, generation |-> rows[k].generation]}
          BY <1>0 DEF Claim
        <5>5. g = [key |-> k, token |-> t, generation |-> rows[k].generation]
          BY <5>3, <5>4
        <5> QED
          BY <5>3, <5>5
      <4> QED
        BY <2>4, <2>7, <3>1, <4>1 DEF SpeaksOf, Placed, Order
    <3> QED
      BY <3>2, <3>3
  <2>9. TokensOwned'
    BY <2>1, <2>6, <2>7, <2>8 DEF RunInv, TokensOwned
  <2>10. ASSUME NEW p, NEW o, Given(p, o)' PROVE Behind(p, o)'
    <3>1. CASE Given(p, o)
      BY <1>0, <3>1, BehindStays DEF QueueInv, RunInv, OrdersBehind
    <3>2. CASE ~Given(p, o)
      <4>1. p = rows[k].intent.project /\ o = Order(rows[k])
        BY <1>0, <2>1, <2>4, <2>10, <3>2 DEF Given, PublishedKept
      <4>2. Behind(p, o)
        BY <1>0, <4>1, RowBehind
      <4> QED
        BY <1>0, <4>2, BehindStays DEF QueueInv
    <3> QED
      BY <3>1, <3>2
  <2>11. OnePublisher' /\ FencedAhead'
    BY <1>0, <2>1, <2>4 DEF RunInv, OnePublisher, FencedAhead, Writes, PublishedKept
  <2> QED
    BY <2>5, <2>9, <2>10, <2>11 DEF RunInv, OrdersBehind
<1> QED
  BY <1>0, <1>1, <1>2, StillForward DEF StartRun

LEMMA RunStepKept ==
  ASSUME QueueInv, QueueInv', RunInv, [CoordinatorNext]_allVars
  PROVE  RunInv' /\ Forward
<1>0. [Next]_vars /\ TypeOK
  BY QueueSteps DEF RunInv, QueueInv
<1>1. CASE \E k \in Key, t \in Token : StartRun(k, t)
  BY <1>1, StartStep
<1>2. CASE \/ \E k \in Key, i \in Intent : Launch(k, i)
           \/ Operate \/ ClearReports \/ Pass \/ (\E a \in Actor : Forget(a)) \/ UNCHANGED allVars
           \/ \E t \in DOMAIN runs : Renew(t)
           \/ \E t \in DOMAIN runs, p \in Project : ReadReport(t, p) \/ WriteBack(t, p)
  <2>1. runs' = runs /\ PublishedKept
    BY <1>2 DEF Launch, Operate, ClearReports, Pass, Forget, Renew, ReadReport, WriteBack, allVars, runVars,
                reportVars, PublishedKept
  <2>2. RunsKept
    BY <2>1 DEF RunsKept, RunInv, RunTypes
  <2>3. OnePublisher' /\ FencedAhead'
    BY <2>1, <2>2, GroupKept DEF RunInv, Writes
  <2> QED
    BY <1>0, <2>2, <2>1, <2>3, KeptStep
<1>3. ASSUME NEW t \in DOMAIN runs, Write(t) PROVE RunInv' /\ Forward
  BY <1>0, <1>3, WriteStep
<1>4. ASSUME NEW t \in DOMAIN runs,
             \/ StopRenewing(t) \/ LanesEnd(t) \/ LeavePending(t) \/ PassFence(t) \/ FailFence(t)
             \/ ListRuns(t) \/ KeepReport(t) \/ EndPass(t) \/ PublishFails(t)
             \/ CompleteRun(t) \/ CompleteRefused(t) \/ Vanish(t)
      PROVE  RunInv' /\ Forward
  <2>1. RunsKept /\ PublishedKept /\ OnePublisher' /\ FencedAhead'
    BY <1>4, GroupQuiet, GroupEnds, GroupEnters, GroupFence
  <2> QED
    BY <1>0, <2>1, KeptStep
<1>5. ASSUME NEW t \in DOMAIN runs, RunStep(t) PROVE RunInv' /\ Forward
  BY <1>2, <1>3, <1>4, <1>5 DEF RunStep
<1> QED
  BY <1>1, <1>2, <1>5 DEF CoordinatorNext

-----------------------------------------------------------------------------
LEMMA RunStart == Init /\ RunInit => RunInv
<1> SUFFICES ASSUME Init, RunInit PROVE RunInv
  OBVIOUS
<1>1. DOMAIN runs = {} /\ DOMAIN published = {} /\ DOMAIN rows = {} /\ runs = [t \in {} |-> {}]
  BY DEF Init, RunInit
<1> QED
  BY <1>1 DEF RunInv, RunTypes, TokensOwned, OrdersBehind, Given, OnePublisher, Writes, FencedAhead

LEMMA CoordinatorInv == CoordinatorSpec => [](QueueInv /\ RunInv)
<1>1. Init => QueueInv
  BY TypeInit DEF Init, QueueInv, ClaimsFenced, AcceptancesInOrder, LatestIsNewest
<1>2. QueueInv /\ RunInv /\ [CoordinatorNext]_allVars => QueueInv'
  BY QueueSteps, QueueInvStep DEF RunInv
<1>3. QueueInv /\ RunInv /\ [CoordinatorNext]_allVars => RunInv'
  BY <1>2, RunStepKept
<1> QED
  BY <1>1, <1>2, <1>3, RunStart, PTL DEF CoordinatorSpec

\* The workflow runs, whatever of them fails or is lost, change the queue by its operations only
\* (code-analysis-coordinator.yml): what ControlPlane promises holds for them.
THEOREM CoordinatorUsesQueue == CoordinatorSpec => Spec
<1>1. QueueInv /\ RunInv /\ [CoordinatorNext]_allVars => [Next]_vars
  BY QueueSteps DEF RunInv
<1> QED
  BY <1>1, CoordinatorInv, PTL DEF CoordinatorSpec, Spec

-----------------------------------------------------------------------------
(* What the reports show, and what a pass read of them: once published,     *)
(* never newer than what was published last.                                *)
Shown(given, p, o) ==
  /\ o.generation \in Nat /\ o.acceptance \in Nat
  /\ p \in DOMAIN given /\ ~Later(o, given[p])
ShownInv ==
  /\ \A p \in DOMAIN report : Shown(published, p, report[p])
  /\ \A t, p : <<t, p>> \in DOMAIN visits => \A o \in visits[<<t, p>>].copy : Shown(published, p, o)

LEMMA PublishedPlain ==
  ASSUME RunInv, NEW p \in DOMAIN published
  PROVE  published[p].generation \in Nat /\ published[p].acceptance \in Nat
<1>1. Behind(p, published[p])
  BY DEF RunInv, OrdersBehind, Given
<1> QED
  BY <1>1 DEF Behind

LEMMA PublishedPlainNext ==
  ASSUME RunInv', NEW p \in DOMAIN published'
  PROVE  published'[p].generation \in Nat /\ published'[p].acceptance \in Nat
<1>1. PICK o : o = published'[p]
  OBVIOUS
<1>2. Given(p, o)'
  BY <1>1 DEF Given
<1>3. Behind(p, o)'
  BY <1>2 DEF RunInv, OrdersBehind
<1> QED
  BY <1>1, <1>3 DEF Behind

LEMMA ShownStays ==
  ASSUME RunInv, RunInv', Forward, NEW p, NEW o, Shown(published, p, o)
  PROVE  Shown(published', p, o)
<1>1. /\ p \in DOMAIN published' /\ ~Later(published[p], published'[p]) /\ ~Later(o, published[p])
      /\ o.generation \in Nat /\ o.acceptance \in Nat
  BY DEF Shown, Forward
<1>2. /\ published[p].generation \in Nat /\ published[p].acceptance \in Nat
      /\ published'[p].generation \in Nat /\ published'[p].acceptance \in Nat
  BY <1>1, PublishedPlain, PublishedPlainNext DEF Shown
<1> QED
  BY <1>1, <1>2 DEF Shown, Later

\* Nothing new is shown or read: what is there was there before.
LEMMA NothingNew ==
  ASSUME RunInv, RunInv', Forward, ShownInv,
         \A p \in DOMAIN report' : p \in DOMAIN report /\ report'[p] = report[p],
         \A t, p : <<t, p>> \in DOMAIN visits' => <<t, p>> \in DOMAIN visits /\ visits'[<<t, p>>] = visits[<<t, p>>]
  PROVE  ShownInv' /\ \A p \in DOMAIN report \cap DOMAIN report' : ~Later(report[p], report'[p])
<1>1. ASSUME NEW p \in DOMAIN report' PROVE Shown(published', p, report'[p]) /\ ~Later(report[p], report'[p])
  <2>1. Shown(published, p, report[p]) /\ report'[p] = report[p]
    BY DEF ShownInv
  <2> QED
    BY <2>1, ShownStays DEF Shown, Later
<1>2. ASSUME NEW t, NEW p, <<t, p>> \in DOMAIN visits', NEW o \in visits'[<<t, p>>].copy PROVE Shown(published', p, o)
  <2>1. Shown(published, p, o)
    BY <1>2 DEF ShownInv
  <2> QED
    BY <2>1, ShownStays
<1> QED
  BY <1>1, <1>2 DEF ShownInv

\* A visit begins or ends: it holds the report there is, or nothing.
LEMMA VisitShown ==
  ASSUME RunInv, RunInv', Forward, ShownInv, NEW t, NEW p, NEW v,
         visits' = With(visits, <<t, p>>, v),
         \A o \in v.copy : p \in DOMAIN report /\ o = report[p]
  PROVE  \A u, q : <<u, q>> \in DOMAIN visits' => \A o \in visits'[<<u, q>>].copy : Shown(published', q, o)
<1> SUFFICES ASSUME NEW u, NEW q, <<u, q>> \in DOMAIN visits', NEW o \in visits'[<<u, q>>].copy
             PROVE  Shown(published', q, o)
  OBVIOUS
<1>1. CASE <<u, q>> = <<t, p>>
  <2>1. u = t /\ q = p /\ visits'[<<u, q>>] = v
    BY <1>1 DEF With
  <2>2. q \in DOMAIN report /\ o = report[q]
    BY <2>1
  <2>3. Shown(published, q, o)
    BY <2>2 DEF ShownInv
  <2> QED
    BY <2>3, ShownStays
<1>2. CASE <<u, q>> # <<t, p>>
  <2>1. <<u, q>> \in DOMAIN visits /\ visits'[<<u, q>>] = visits[<<u, q>>]
    BY <1>2 DEF With
  <2>2. Shown(published, q, o)
    BY <2>1 DEF ShownInv
  <2> QED
    BY <2>2, ShownStays
<1> QED
  BY <1>1, <1>2

LEMMA WriteShown ==
  ASSUME RunInv, RunInv', Forward, ShownInv, NEW t \in DOMAIN runs, Write(t)
  PROVE  ShownInv' /\ \A p \in DOMAIN report \cap DOMAIN report' : ~Later(report[p], report'[p])
<1> DEFINE q == runs[t].project
<1>1. /\ DOMAIN report' = DOMAIN report \cup {q} /\ report'[q] = runs[t].order
      /\ \A p \in DOMAIN report \ {q} : report'[p] = report[p]
  <2>1. report' = With(report, runs[t].project, runs[t].order)
    BY DEF Write
  <2> QED
    BY <2>1 DEF With
<1>2. q \in DOMAIN published' /\ published'[q] = runs[t].order
  <2>1. published' = With(published, runs[t].project, runs[t].order)
    BY DEF Write
  <2> QED
    BY <2>1 DEF With
<1>3. /\ published'[q].generation \in Nat /\ published'[q].acceptance \in Nat
  BY <1>2, PublishedPlainNext
<1>4. Shown(published', q, report'[q])
  BY <1>1, <1>2, <1>3 DEF Shown, Later
<1>5. ASSUME NEW p \in DOMAIN report \ {q} PROVE Shown(published', p, report'[p]) /\ ~Later(report[p], report'[p])
  <2>1. Shown(published, p, report[p]) /\ report'[p] = report[p]
    BY <1>1 DEF ShownInv
  <2> QED
    BY <2>1, ShownStays DEF Shown, Later
<1>6. ASSUME q \in DOMAIN report PROVE ~Later(report[q], report'[q])
  <2>1. Shown(published, q, report[q])
    BY <1>6 DEF ShownInv
  <2>2. Shown(published', q, report[q])  \/ (q \in DOMAIN published' /\ ~Later(report[q], published'[q]))
    <3>1. PICK o : o = report[q]
      OBVIOUS
    <3>2. Shown(published', q, o)
      BY <2>1, <3>1, ShownStays
    <3>3. ~Later(o, published'[q])
      BY <3>2 DEF Shown
    <3> QED
      BY <1>2, <3>1, <3>3
  <2> QED
    BY <1>1, <1>2, <2>1, <2>2, <1>4 DEF Shown
<1>7. \A u, p : <<u, p>> \in DOMAIN visits' => \A o \in visits'[<<u, p>>].copy : Shown(published', p, o)
  <2>1. visits' = With(visits, <<t, runs[t].project>>, Closed) /\ Closed.copy = {}
    BY DEF Write, Closed
  <2> QED
    BY <2>1, VisitShown
<1> QED
  BY <1>1, <1>4, <1>5, <1>6, <1>7 DEF ShownInv

LEMMA WriteBackShown ==
  ASSUME RunInv, RunInv', Forward, ShownInv, NEW t \in DOMAIN runs, NEW q \in Project, WriteBack(t, q)
  PROVE  /\ ShownInv'
         /\ \A p \in DOMAIN report \cap DOMAIN report' : Later(report[p], report'[p]) => WrittenBack(p)
<1>1. /\ Holds(t, q) /\ <<t, q>> \in DOMAIN visits /\ visits' = With(visits, <<t, q>>, Closed)
      /\ \A o \in visits[<<t, q>>].copy : Shown(published, q, o)
  BY DEF WriteBack, Holds, Visited, ShownInv
<1>2. /\ \A p \in DOMAIN report' \ {q} : p \in DOMAIN report /\ report'[p] = report[p]
      /\ q \in DOMAIN report' => report'[q] \in visits[<<t, q>>].copy
  <2>1. CASE report' = Without(report, {q})
    BY <2>1 DEF Without
  <2>2. ASSUME NEW o \in visits[<<t, q>>].copy, report' = With(report, q, o)
        PROVE  <1>2!1 /\ <1>2!2
    BY <2>2 DEF With
  <2> QED
    BY <2>1, <2>2 DEF WriteBack
<1>3. ASSUME NEW p \in DOMAIN report' PROVE Shown(published', p, report'[p])
  <2>1. CASE p = q
    BY <1>1, <1>2, <2>1, ShownStays
  <2>2. CASE p # q
    <3>1. Shown(published, p, report[p]) /\ report'[p] = report[p]
      BY <1>2, <2>2 DEF ShownInv
    <3> QED
      BY <3>1, ShownStays
  <2> QED
    BY <2>1, <2>2
<1>4. ASSUME NEW p \in DOMAIN report \cap DOMAIN report', Later(report[p], report'[p]) PROVE WrittenBack(p)
  <2>1. CASE p = q
    BY <1>1, <1>2, <2>1 DEF WrittenBack
  <2>2. CASE p # q
    <3>1. Shown(published, p, report[p]) /\ report'[p] = report[p]
      BY <1>2, <2>2 DEF ShownInv
    <3> QED
      BY <1>4, <3>1 DEF Shown, Later
  <2> QED
    BY <2>1, <2>2
<1>5. \A u, p : <<u, p>> \in DOMAIN visits' => \A o \in visits'[<<u, p>>].copy : Shown(published', p, o)
  <2>1. Closed.copy = {}
    BY DEF Closed
  <2> QED
    BY <1>1, <2>1, VisitShown
<1> QED
  BY <1>3, <1>4, <1>5 DEF ShownInv

LEMMA ShownStep ==
  ASSUME RunInv, RunInv', Forward, ShownInv, [CoordinatorNext]_allVars
  PROVE  /\ ShownInv'
         /\ \A p \in DOMAIN report \cap DOMAIN report' : Later(report[p], report'[p]) => WrittenBack(p)
<1> DEFINE Goal == /\ ShownInv'
                   /\ \A p \in DOMAIN report \cap DOMAIN report' : Later(report[p], report'[p]) => WrittenBack(p)
<1>1. CASE UNCHANGED <<report, visits>>
  BY <1>1, NothingNew
<1>2. CASE ClearReports
  <2>1. DOMAIN report' = {} /\ visits' = visits
    BY <1>2 DEF ClearReports, Without
  <2> QED
    BY <2>1, NothingNew
<1>3. ASSUME NEW t \in DOMAIN runs, EndPass(t) \/ PublishFails(t) \/ Vanish(t) PROVE Goal
  <2>1. report' = report /\ visits' = Without(visits, {t} \X Project)
    BY <1>3 DEF EndPass, PublishFails, Vanish, AfterVisits
  <2>2. \A v \in DOMAIN visits' : v \in DOMAIN visits /\ visits'[v] = visits[v]
    BY <2>1 DEF Without
  <2> QED
    BY <2>1, <2>2, NothingNew
<1>4. ASSUME NEW t \in DOMAIN runs, Write(t) PROVE Goal
  BY <1>4, WriteShown
<1>5. ASSUME NEW t \in DOMAIN runs, NEW q \in Project, WriteBack(t, q) PROVE Goal
  BY <1>5, WriteBackShown
<1>6. ASSUME NEW t \in DOMAIN runs, NEW q \in Project, ReadReport(t, q) PROVE Goal
  <2>1. PICK v : v = [open |-> TRUE, copy |-> {report[p] : p \in {q} \cap DOMAIN report}]
    OBVIOUS
  <2>2. /\ visits' = With(visits, <<t, q>>, v) /\ report' = report
        /\ \A o \in v.copy : q \in DOMAIN report /\ o = report[q]
    BY <1>6, <2>1 DEF ReadReport
  <2>3. \A u, p : <<u, p>> \in DOMAIN visits' => \A o \in visits'[<<u, p>>].copy : Shown(published', p, o)
    BY <2>2, VisitShown
  <2>4. \A p \in DOMAIN report : Shown(published', p, report[p]) /\ ~Later(report[p], report[p])
    BY ShownStays DEF ShownInv, Shown, Later
  <2> QED
    BY <2>2, <2>3, <2>4 DEF ShownInv
<1>7. CASE \/ \E k \in Key, i \in Intent : Launch(k, i)
           \/ \E k \in Key, t \in Token : StartRun(k, t)
           \/ Operate \/ Pass \/ (\E a \in Actor : Forget(a)) \/ UNCHANGED allVars
           \/ \E t \in DOMAIN runs :
                \/ Renew(t) \/ StopRenewing(t) \/ LanesEnd(t) \/ LeavePending(t) \/ PassFence(t) \/ FailFence(t)
                \/ ListRuns(t) \/ KeepReport(t) \/ CompleteRun(t) \/ CompleteRefused(t)
  <2>1. UNCHANGED <<report, visits>>
    BY <1>7 DEF Launch, StartRun, Operate, Pass, Forget, Renew, StopRenewing, LanesEnd, LeavePending, PassFence,
                FailFence, ListRuns, KeepReport, CompleteRun, CompleteRefused, allVars, runVars, reportVars
  <2> QED
    BY <1>1, <2>1
<1> QED
  BY <1>2, <1>3, <1>4, <1>5, <1>6, <1>7 DEF CoordinatorNext, RunStep

\* The runs of a project never publish an older accepted revision after a newer one, in whatever
\* order they end their lanes: the fence lets the newest request into the concurrency group only,
\* and the next run passes it when this one is out.  A report that does go back was written back by
\* a pass that had read it before (code-analysis-coordinator.yml, repository_service.py).
THEOREM PublicationsNeverGoBack == CoordinatorSpec => PublicationsMoveForward
<1>1. RunInit => ShownInv
  BY DEF RunInit, ShownInv
<1>2. QueueInv /\ QueueInv' /\ RunInv /\ [CoordinatorNext]_allVars => RunInv' /\ Forward
  BY RunStepKept
<1>3. RunInv /\ RunInv' /\ Forward /\ ShownInv /\ [CoordinatorNext]_allVars => ShownInv'
  BY ShownStep
<1>4. QueueInv /\ QueueInv' /\ RunInv /\ RunInv' /\ ShownInv /\ [CoordinatorNext]_allVars =>
        [/\ \A p \in DOMAIN published : ~Later(published[p], published'[p])
         /\ \A p \in DOMAIN report \cap DOMAIN report' :
              Later(report[p], report'[p]) => WrittenBack(p)]_allVars
  BY <1>2, ShownStep DEF Forward
<1> QED
  BY <1>1, <1>2, <1>3, <1>4, CoordinatorInv, PTL DEF CoordinatorSpec, PublicationsMoveForward
===============================================================================
