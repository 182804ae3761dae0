----------------------------- MODULE Publication -----------------------------
(***************************************************************************)
(* Report publication (scripts/code_analysis/repository_service.py): what  *)
(* the publish job of a coordinator run does with the two manifests and    *)
(* the report assets each project keeps in object storage.                 *)
(*                                                                         *)
(* A publisher makes a pass over EVERY project of the registry, with plain *)
(* reads and writes: it has no lock on the storage and no compare-and-     *)
(* swap.  For the project it claimed it plans the channels, collects the   *)
(* evidence of its own run and publishes; for the others it writes back    *)
(* what it read.  One publisher per project is at work at a time, each for *)
(* the project's newest request (Coordinator); publishers of different     *)
(* projects overlap (Concurrent bounds how many), and one that writes back *)
(* what has changed since it read it undoes the other's work: overwritten  *)
(* records the projects this happened to.                                  *)
(*                                                                         *)
(* A Revision stands for a source revision with its tooling and profile.   *)
(* A report is the run each channel's complete evidence came from; its     *)
(* assets are named by their content, so a report is its own asset name.   *)
(***************************************************************************)
EXTENDS Naturals, FiniteSets

CONSTANTS Project, Revision, Channel, Run,
          Request,     \* accepted requests: [project, revision, order, again]
          Together,    \* sets of channels that share one producer
          Concurrent,  \* publishers at work at once, over all projects
          NoRun, NoRevision, NoRequest

ASSUME RequestAssumption ==
  /\ Request \subseteq [project : Project, revision : Revision, order : Nat \ {0}, again : BOOLEAN]
  /\ NoRun \notin Run \cup Project /\ NoRevision \notin Revision /\ NoRequest \notin Request

\* The queue accepts a project's requests one after the other.
ASSUME OrderAssumption ==
  \A q, r \in Request : q.project = r.project /\ q.order = r.order => q = r

VARIABLES state,    \* project -> analysis-state manifest: last request, plan, receipts
          current,  \* project -> analysis-current manifest: the published report
          assets,   \* project -> reports whose assets are stored
          pub,      \* run -> its publisher
          asked,    \* request -> channels the queue was asked for
          settled,  \* request -> those it recorded as finished
          overwritten  \* history: projects whose manifests were written back late

queueVars == <<asked, settled>>
pubVars == <<state, current, assets, pub, queueVars, overwritten>>

-----------------------------------------------------------------------------
Report == [revision : Revision \cup {NoRevision}, from : [Channel -> Run \cup {NoRun}]]
Blank == [revision |-> NoRevision, from |-> [c \in Channel |-> NoRun]]
Complete(r) == {c \in Channel : r.from[c] # NoRun}

Receipt == [status : {"none", "queued", "collected", "reused", "published", "failed"},
            completed : SUBSET Channel, run : Run \cup {NoRun}]
NoReceipt == [status |-> "none", completed |-> {}, run |-> NoRun]
Attempt == [run : Run \cup {NoRun}, complete : SUBSET Channel]
NoAttempt == [run |-> NoRun, complete |-> {}]

StateManifest == [last : Request \cup {NoRequest}, plan : SUBSET Channel, refresh : BOOLEAN,
                  receipts : [Request -> Receipt]]
CurrentManifest == [report : Report, by : Request \cup {NoRequest},
                    receipts : [Request -> Receipt], recent : [Request -> Attempt]]
NewState == [last |-> NoRequest, plan |-> {}, refresh |-> FALSE, receipts |-> [q \in Request |-> NoReceipt]]
NewCurrent == [report |-> Blank, by |-> NoRequest, receipts |-> [q \in Request |-> NoReceipt],
               recent |-> [q \in Request |-> NoAttempt]]

Stage == {"unused", "next", "state", "read", "collect", "report", "receipts", "final", "done", "over"}
\* What became of the claimed request in this pass.
Result == {"none", "cached", "skipped", "collecting", "published", "rejected", "unusable", "requeued"}
Publisher == [stage : Stage, request : Request \cup {NoRequest}, channels : SUBSET Channel,
              complete : SUBSET Channel, busy : BOOLEAN, left : SUBSET Project,
              at : Project \cup {NoRun}, copy : [Project -> StateManifest],
              read : CurrentManifest, next : Report, result : Result]
Resting == [stage |-> "unused", request |-> NoRequest, channels |-> {}, complete |-> {},
            busy |-> FALSE, left |-> {}, at |-> NoRun, copy |-> [p \in Project |-> NewState],
            read |-> NewCurrent, next |-> Blank, result |-> "none"]

Working(w) == pub[w].stage \notin {"unused", "over"}
Own(w) == pub[w].at = pub[w].request.project
\* What it is about to write back of another project is not what is stored.
Late(w) ==
  /\ ~Own(w)
  /\ \/ pub[w].copy[pub[w].at] # state[pub[w].at]
     \/ pub[w].stage = "report" /\ pub[w].read # current[pub[w].at]
WritesBack(w) == overwritten' = IF Late(w) THEN overwritten \cup {pub[w].at} ELSE overwritten
Published(w) == Own(w) /\ pub[w].result = "published"
At(w, stage) == pub[w].stage = stage

-----------------------------------------------------------------------------
(* The publish job starts once the lanes of its run ended: channels is what *)
(* the run claimed, everything asked for and not finished, complete what    *)
(* its scanners completed.  A request may have grown since its last claim.  *)
(* The job lists the workflow runs (busy: another one is in progress,       *)
(* publishing or not) and reads the state manifests of all projects.        *)

Begin(w, q) ==
  /\ At(w, "unused")
  /\ Cardinality({u \in Run : Working(u)}) < Concurrent
  /\ \A u \in Run : pub[u].request # NoRequest /\ pub[u].request.project = q.project =>
       ~Working(u) /\ pub[u].request.order <= q.order
  /\ \E cs \in (SUBSET (Channel \ settled[q])) \ {{}}, busy \in BOOLEAN :
       /\ asked[q] \ settled[q] \subseteq cs
       /\ asked' = [asked EXCEPT ![q] = @ \cup cs]
       /\ (\E u \in Run : Working(u)) => busy
       /\ \E ok \in SUBSET cs :
            pub' = [pub EXCEPT ![w] = [Resting EXCEPT
              !.stage = "next", !.request = q, !.channels = cs, !.complete = ok,
              !.busy = busy, !.left = Project, !.copy = state]]
  /\ UNCHANGED <<state, current, assets, settled, overwritten>>

\* The claimed project comes first, unless another has a manual refresh that no
\* pass collected yet.  What it visits of another project is written back as read:
\* the run's id is part of every row's analysis key, so whatever an earlier run
\* dispatched there is first reset to a queued row without a run to collect.
VisitOther(w, p) ==
  /\ At(w, "next") /\ p \in pub[w].left \ {pub[w].request.project}
  /\ pub[w].request.project \notin pub[w].left \/ pub[w].copy[p].refresh
  /\ pub' = [pub EXCEPT ![w].at = p, ![w].left = @ \ {p}, ![w].stage = "state"]
  /\ UNCHANGED <<state, current, assets, queueVars, overwritten>>

\* channel_execution_plan: a channel whose evidence is complete in the current
\* report is reused, unless a requested channel of the same producer has to run.
Shares(c, d) == c = d \/ \E g \in Together : {c, d} \subseteq g
Reused(q, cs, r) ==
  IF q.again \/ r.revision # q.revision THEN {}
  ELSE {c \in cs : \A d \in cs : Shares(c, d) => d \in Complete(r)}

Accept(w) ==
  LET q == pub[w].request
      p == q.project
      reused == Reused(q, pub[w].channels, current[p].report)
      execution == pub[w].channels \ reused
      receipt == [status |-> IF execution = {} THEN "reused" ELSE "queued",
                  completed |-> reused, run |-> NoRun]
  IN  [last |-> q, plan |-> execution, refresh |-> TRUE,
       receipts |-> [pub[w].copy[p].receipts EXCEPT ![q] = receipt]]

\* A request seen before keeps the plan it was first given; its row, reset like any
\* an earlier run dispatched (the run's id is in its analysis key), is dispatched
\* again as this run's.  Only another attempt of one run would find its own row.
Fresh(w) == pub[w].copy[pub[w].request.project].last # pub[w].request
Row(w) == IF Fresh(w) THEN Accept(w) ELSE pub[w].copy[pub[w].request.project]
PlanResult(w) ==
  IF Fresh(w) /\ Row(w).plan = {} THEN "cached" ELSE IF pub[w].busy THEN "skipped" ELSE "collecting"
Planned(w) ==
  LET p == pub[w].request.project
      kept == [Row(w) EXCEPT !.refresh = @ /\ PlanResult(w) # "collecting"]
  IN  [pub[w] EXCEPT !.at = p, !.left = @ \ {p}, !.stage = "state", !.result = PlanResult(w),
                     !.busy = FALSE, !.copy = [@ EXCEPT ![p] = kept]]
Plan(w) ==
  /\ At(w, "next") /\ pub[w].request.project \in pub[w].left
  /\ pub' = [pub EXCEPT ![w] = Planned(w)]
  /\ UNCHANGED <<state, current, assets, queueVars, overwritten>>

\* The plan is persisted before anything is collected; only the copy in memory
\* then says which run the evidence comes from.
Receipts(w) == pub[w].copy[pub[w].at].receipts
CollectedReceipts(w) ==
  IF Own(w) /\ pub[w].result = "collecting"
  THEN [Receipts(w) EXCEPT ![pub[w].request] = [@ EXCEPT !.status = "collected", !.run = w]]
  ELSE Receipts(w)
SaveState(w) ==
  /\ At(w, "state")
  /\ state' = [state EXCEPT ![pub[w].at] = pub[w].copy[pub[w].at]]
  /\ pub' = [pub EXCEPT ![w] = [pub[w] EXCEPT
       !.stage = "read", !.copy = [@ EXCEPT ![pub[w].at].receipts = CollectedReceipts(w)]]]
  /\ WritesBack(w)
  /\ UNCHANGED <<current, assets, queueVars>>

-----------------------------------------------------------------------------
(* report_publication.                                                      *)

Read(w) ==
  /\ At(w, "read")
  /\ LET p == pub[w].at IN
       pub' = [pub EXCEPT ![w].read = current[p], ![w].next = current[p].report,
                 ![w].stage = IF Own(w) /\ pub[w].result = "collecting" THEN "collect" ELSE "report"]
  /\ UNCHANGED <<state, current, assets, queueVars, overwritten>>

\* merge_channel_documents: only selected channels that completed are replaced.
MergeFault(old, w, selected) ==                  \* whatever was selected is replaced
  [old EXCEPT !.from = [c \in Channel |->
     IF c \in selected THEN (IF c \in pub[w].complete THEN w ELSE NoRun) ELSE old.from[c]]]
Merge(old, w, selected) ==
  [old EXCEPT !.from = [c \in Channel |-> IF c \in selected \cap pub[w].complete THEN w ELSE old.from[c]]]
Whole(w) ==
  [revision |-> pub[w].request.revision,
   from |-> [c \in Channel |-> IF c \in pub[w].complete THEN w ELSE NoRun]]
NextReportFault(w, selected) ==                  \* merged whatever the revision
  IF pub[w].read.report # Blank
  THEN Merge(pub[w].read.report, w, selected) ELSE Whole(w)
NextReport(w, selected) ==
  IF pub[w].read.report.revision = pub[w].request.revision
  THEN Merge(pub[w].read.report, w, selected) ELSE Whole(w)
\* Either way some selected channel must have completed.
Publishable(w, selected) == selected \cap pub[w].complete # {}

\* The evidence is validated (its identity, revision and run), and the assets
\* of the next report are stored before the manifest names them.
UploadedFault(w, selected) == Whole(w)           \* the evidence as collected
Uploaded(w, selected) == NextReport(w, selected)
Collect(w) ==
  /\ At(w, "collect")
  /\ LET p == pub[w].at
         selected == pub[w].copy[p].plan
     IN  IF Publishable(w, selected)
         THEN /\ assets' = [assets EXCEPT ![p] = @ \cup {Uploaded(w, selected)}]
              /\ pub' = [pub EXCEPT ![w].next = NextReport(w, selected),
                                    ![w].result = "published", ![w].stage = "report"]
         ELSE /\ pub' = [pub EXCEPT ![w].result = "rejected", ![w].stage = "report"]
              /\ UNCHANGED assets
  /\ UNCHANGED <<state, current, queueVars, overwritten>>
\* It fails validation, or the artifact is not there and the row is queued again.
CollectFails(w) ==
  /\ At(w, "collect")
  /\ \E r \in {"unusable", "requeued"} :
       pub' = [pub EXCEPT ![w].result = r, ![w].stage = "report"]
  /\ UNCHANGED <<state, current, assets, queueVars, overwritten>>

Manifest(w, receipts) ==
  [report |-> pub[w].next,
   by |-> IF Published(w) THEN pub[w].request ELSE pub[w].read.by,
   receipts |-> receipts,
   recent |-> IF Published(w)
              THEN [pub[w].read.recent EXCEPT ![pub[w].request] =
                     [run |-> w, complete |-> pub[w].complete]]
              ELSE pub[w].read.recent]

\* terminal_queue_request: the attempt that decides the claimed request, this
\* pass's own or the one an earlier pass published.
Earlier(w) ==
  LET q == pub[w].request
      m == Manifest(w, {})
      r == Receipts(w)[q]
  IN  {a \in {m.recent[q]} : a.run # NoRun /\ r.run \in {NoRun, a.run}}
DecidingFault(w) ==                              \* the lanes decide, published or not
  IF pub[w].result \in {"published", "rejected", "unusable"}
  THEN {[run |-> w, complete |-> pub[w].complete]} ELSE Earlier(w)
Deciding(w) ==
  CASE pub[w].result = "published" -> {[run |-> w, complete |-> pub[w].complete]}
    [] pub[w].result \in {"rejected", "unusable", "cached"} -> {NoAttempt}
    [] OTHER -> Earlier(w)

\* The manifest replaces the old one.  Then the assets only the old one named
\* are to be deleted: the storage API has no such operation and the error is
\* swallowed, so they stay.
WriteReport(w) ==
  /\ At(w, "report")
  /\ current' = [current EXCEPT ![pub[w].at] = Manifest(w, Receipts(w))]
  /\ pub' = [pub EXCEPT ![w].stage = IF Own(w) /\ Deciding(w) # {} THEN "receipts" ELSE "final"]
  /\ WritesBack(w)
  /\ UNCHANGED <<state, assets, queueVars>>

-----------------------------------------------------------------------------
(* Back in reconcile_repository: the receipt of the claimed request becomes *)
(* final and the manifest is written again, then the state manifest.        *)

Settle(w, receipt, a) ==
  LET plan == pub[w].copy[pub[w].at].plan
      completed == (receipt.completed \ plan) \cup (plan \cap a.complete)
  IN  IF pub[w].result = "cached" THEN [receipt EXCEPT !.status = "reused"]
      ELSE [receipt EXCEPT !.completed = completed,
                           !.status = IF completed = {} THEN "failed" ELSE "published"]

SettledReceipts(w, a) == [Receipts(w) EXCEPT ![pub[w].request] = Settle(w, @, a)]
WriteReceipts(w) ==
  /\ At(w, "receipts")
  /\ \E a \in Deciding(w) :
       /\ current' = [current EXCEPT ![pub[w].at] = Manifest(w, SettledReceipts(w, a))]
       /\ pub' = [pub EXCEPT ![w] = [pub[w] EXCEPT
            !.stage = "final", !.copy = [@ EXCEPT ![pub[w].at].receipts = SettledReceipts(w, a)]]]
  /\ UNCHANGED <<state, assets, queueVars, overwritten>>

\* (The publisher's record forgets what it is done with.)
SaveFinal(w) ==
  /\ At(w, "final")
  /\ state' = [state EXCEPT ![pub[w].at] = pub[w].copy[pub[w].at]]
  /\ pub' = [pub EXCEPT ![w] = [pub[w] EXCEPT
       !.stage = IF pub[w].left = {} THEN "done" ELSE "next", !.at = NoRun,
       !.copy = [@ EXCEPT ![pub[w].at] = NewState], !.read = NewCurrent, !.next = Blank]]
  /\ WritesBack(w)
  /\ UNCHANGED <<current, assets, queueVars>>

\* The job ends, well or in the middle of any step.  The queue records the
\* channels as finished, unless the completion is lost and the lease runs out.
\* Of what its scanners completed only what some report names is remembered.
Retired(w) ==
  [Resting EXCEPT !.stage = "over", !.request = pub[w].request,
     !.complete = {c \in pub[w].complete : \E p \in Project : \E r \in assets[p] : r.from[c] = w}]
End(w) ==
  /\ Working(w)
  /\ pub' = [pub EXCEPT ![w] = Retired(w)]
  /\ \/ settled' = [settled EXCEPT ![pub[w].request] = @ \cup pub[w].channels]
     \/ UNCHANGED settled
  /\ UNCHANGED <<state, current, assets, asked, overwritten>>

-----------------------------------------------------------------------------
\* Channels may have finished before: in a run whose publish job was cancelled or
\* in a request whose lanes all failed.
PublicationInit ==
  /\ state = [p \in Project |-> NewState]
  /\ current = [p \in Project |-> NewCurrent]
  /\ assets = [p \in Project |-> {}]
  /\ pub = [w \in Run |-> Resting]
  /\ settled \in [Request -> SUBSET Channel] /\ asked = settled
  /\ overwritten = {}

PublicationStep(w) ==
  \/ \E q \in Request : Begin(w, q)
  \/ \E p \in Project : VisitOther(w, p)
  \/ Plan(w) \/ SaveState(w) \/ Read(w) \/ Collect(w) \/ CollectFails(w)
  \/ WriteReport(w) \/ WriteReceipts(w) \/ SaveFinal(w) \/ End(w)
PublicationNext == \E w \in Run : PublicationStep(w)
PublicationSpec == PublicationInit /\ [][PublicationNext]_pubVars

-----------------------------------------------------------------------------
(* Properties.                                                              *)

(* Types of the manifests, the stored assets and the publishers.            *)
PublicationTypeOK ==
  /\ state \in [Project -> StateManifest]
  /\ current \in [Project -> CurrentManifest]
  /\ assets \in [Project -> SUBSET Report]
  /\ pub \in [Run -> Publisher]
  /\ asked \in [Request -> SUBSET Channel] /\ settled \in [Request -> SUBSET Channel]
  /\ overwritten \subseteq Project

(* A manifest never names a report whose assets are not stored, wherever a  *)
(* publisher dies and whoever rewrites the manifest.                        *)
AssetsStored ==
  \A p \in Project : current[p].report # Blank => current[p].report \in assets[p]

(* What a report shows as complete was completed by the run it names, for   *)
(* this project and exactly this revision, however reports were merged.     *)
EvidenceGenuine ==
  \A p \in Project, c \in Channel :
    LET w == current[p].report.from[c] IN
    w # NoRun => /\ c \in pub[w].complete
                 /\ pub[w].request.project = p
                 /\ pub[w].request.revision = current[p].report.revision

(* The receipt of a project's newest request never calls a channel          *)
(* completed that its report does not show, whatever overlaps and wherever  *)
(* passes die, until the publisher of another project writes the project's  *)
(* manifests back late: then the two may come from different passes.        *)
ReceiptsTruthful ==
  \A p \in Project \ overwritten, q \in Request :
    LET m == current[p] IN
    /\ m.receipts[q].status \in {"published", "reused"}
    /\ \A r \in Request : m.receipts[r].status # "none" => r.order <= q.order
    => /\ m.receipts[q].completed \subseteq Complete(m.report)
       /\ m.report.revision = q.revision

(* Publication implements the ledger: the current report of a project comes *)
(* from ever newer requests, always with some complete channel, and within  *)
(* one revision it never loses one; only a late write-back of another       *)
(* project's publisher takes a report away.                                 *)
OrderOf(m) == IF m.by = NoRequest THEN 0 ELSE m.by.order
Ledger == INSTANCE ReportLedger WITH
  ledger <- [p \in Project |-> [order |-> OrderOf(current[p]), revision |-> current[p].report.revision,
                                complete |-> Complete(current[p].report)]]
ImplementsLedger == Ledger!LedgerSpec

(* A pass that ran to its end on valid evidence leaves no channel its       *)
(* scanners completed out of the report.                                    *)
CompletedLanesShown ==
  \A w \in Run, c \in Channel :
    LET r == current[pub[w].request.project].report IN
    /\ At(w, "done") /\ pub[w].result \in {"published", "rejected", "cached"}
    /\ c \in pub[w].complete
    => r.revision = pub[w].request.revision /\ c \in Complete(r)
===============================================================================
