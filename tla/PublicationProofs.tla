--------------------------- MODULE PublicationProofs ---------------------------
(* Machine-checked proofs about Publication, for every registry of projects, *)
(* every set of requests, channels and runs, and any number of publishers at *)
(* work at once.                                                             *)
EXTENDS Publication, TLAPS

(* Nothing published yet is well typed.                                      *)
LEMMA BlankTypes ==
  /\ Blank \in Report /\ NoReceipt \in Receipt /\ NoAttempt \in Attempt
  /\ NewState \in StateManifest /\ NewCurrent \in CurrentManifest /\ Resting \in Publisher
<1>1. Blank \in Report
  BY DEF Blank, Report
<1>2. NoReceipt \in Receipt /\ NoAttempt \in Attempt
  BY DEF NoReceipt, Receipt, NoAttempt, Attempt
<1>3. NewState \in StateManifest
  BY <1>2 DEF NewState, StateManifest
<1>4. NewCurrent \in CurrentManifest
  BY <1>1, <1>2 DEF NewCurrent, CurrentManifest
<1>5. Resting \in Publisher
  BY <1>1, <1>3, <1>4 DEF Resting, Publisher, Stage, Result
<1> QED BY <1>1, <1>2, <1>3, <1>4, <1>5

(* The fields of a well-typed publisher.                                     *)
LEMMA PublisherFields ==
  ASSUME PublicationTypeOK, NEW w \in Run
  PROVE  /\ pub[w] \in Publisher
         /\ pub[w].stage \in Stage /\ pub[w].request \in Request \cup {NoRequest}
         /\ pub[w].channels \in SUBSET Channel /\ pub[w].complete \in SUBSET Channel
         /\ pub[w].left \in SUBSET Project /\ pub[w].at \in Project \cup {NoRun}
         /\ pub[w].copy \in [Project -> StateManifest]
         /\ pub[w].read \in CurrentManifest /\ pub[w].next \in Report
         /\ pub[w].result \in Result
BY DEF PublicationTypeOK, Publisher

LEMMA RequestFields ==
  ASSUME NEW q \in Request
  PROVE  q.project \in Project /\ q.revision \in Revision
BY RequestAssumption

-----------------------------------------------------------------------------
(* The operators of a pass.                                                  *)

LEMMA AcceptType ==
  ASSUME PublicationTypeOK, NEW w \in Run, pub[w].request \in Request
  PROVE  Accept(w) \in StateManifest
<1> DEFINE q == pub[w].request
           reused == Reused(q, pub[w].channels, current[q.project].report)
           receipt == [status |-> IF pub[w].channels \ reused = {} THEN "reused" ELSE "queued",
                       completed |-> reused, run |-> NoRun]
<1>1. reused \in SUBSET Channel
  BY PublisherFields DEF Reused
<1>2. receipt \in Receipt
  BY <1>1 DEF Receipt
<1>3. pub[w].copy[q.project].receipts \in [Request -> Receipt]
  BY PublisherFields, RequestFields DEF StateManifest
<1>4. [pub[w].copy[q.project].receipts EXCEPT ![q] = receipt] \in [Request -> Receipt]
  BY <1>2, <1>3
<1> HIDE DEF reused, receipt
<1>5. pub[w].channels \ reused \in SUBSET Channel
  BY PublisherFields
<1> QED BY <1>4, <1>5 DEF Accept, StateManifest, reused, receipt

LEMMA ReportTypes ==
  ASSUME PublicationTypeOK, NEW w \in Run, pub[w].request \in Request, NEW selected
  PROVE  NextReport(w, selected) \in Report
<1>1. pub[w].read.report \in Report
  BY PublisherFields DEF CurrentManifest
<1>2. Merge(pub[w].read.report, w, selected) \in Report
  BY <1>1 DEF Merge, Report
<1>3. Whole(w) \in Report
  BY RequestFields DEF Whole, Report
<1> QED BY <1>2, <1>3 DEF NextReport

LEMMA ManifestType ==
  ASSUME PublicationTypeOK, NEW w \in Run, pub[w].request \in Request,
         NEW receipts \in [Request -> Receipt]
  PROVE  Manifest(w, receipts) \in CurrentManifest
<1> DEFINE m == Manifest(w, receipts)
<1>1. pub[w].read \in CurrentManifest /\ pub[w].next \in Report /\ pub[w].complete \in SUBSET Channel
  BY PublisherFields
<1>2. [run |-> w, complete |-> pub[w].complete] \in Attempt
  BY <1>1 DEF Attempt
<1>3. pub[w].read.recent \in [Request -> Attempt] /\ pub[w].read.by \in Request \cup {NoRequest}
  BY <1>1 DEF CurrentManifest
<1>4. m.recent \in [Request -> Attempt] /\ m.by \in Request \cup {NoRequest}
  BY <1>2, <1>3 DEF Manifest
<1> QED BY <1>1, <1>4 DEF Manifest, CurrentManifest

LEMMA DecidingType ==
  ASSUME PublicationTypeOK, NEW w \in Run, pub[w].request \in Request, NEW a \in Deciding(w)
  PROVE  a \in Attempt
<1> DEFINE q == pub[w].request
<1>1. [run |-> w, complete |-> pub[w].complete] \in Attempt
  BY PublisherFields DEF Attempt
<1>2. pub[w].read.recent \in [Request -> Attempt]
  BY PublisherFields DEF CurrentManifest
<1>3. Manifest(w, {}).recent \in [Request -> Attempt]
  BY <1>1, <1>2 DEF Manifest
<1>4. Manifest(w, {}).recent[q] \in Attempt
  BY <1>3
<1>5. Earlier(w) \subseteq Attempt
  BY <1>4 DEF Earlier
<1> QED BY <1>1, <1>5, BlankTypes DEF Deciding

LEMMA SettleType ==
  ASSUME PublicationTypeOK, NEW w \in Run, NEW r \in Receipt, NEW a \in Attempt
  PROVE  Settle(w, r, a) \in Receipt
<1> DEFINE plan == pub[w].copy[pub[w].at].plan
           completed == (r.completed \ plan) \cup (plan \cap a.complete)
<1>1. completed \in SUBSET Channel
  BY DEF Receipt, Attempt
<1> HIDE DEF completed
<1>2. [r EXCEPT !.status = "reused"] \in Receipt
  BY DEF Receipt
<1>3. [r EXCEPT !.completed = completed,
                !.status = IF completed = {} THEN "failed" ELSE "published"] \in Receipt
  BY <1>1 DEF Receipt
<1> QED BY <1>2, <1>3 DEF Settle, completed

-----------------------------------------------------------------------------
(* Where a publisher is, and what it holds there: the manifest it read and   *)
(* the report it will write are stored, or nothing was published.            *)

Genuine(p, r) ==
  \A c \in Channel :
    LET w == r.from[c] IN
    w # NoRun => /\ w \in Run /\ pub[w].request \in Request
                 /\ c \in pub[w].complete
                 /\ pub[w].request.project = p
                 /\ pub[w].request.revision = r.revision
AllGenuine == \A p \in Project : \A r \in assets[p] : Genuine(p, r)

Held(p) == assets[p] \cup {Blank}
AtWork == {"state", "read", "collect", "report", "receipts", "final"}
Placed(w) ==
  /\ pub[w].stage = "unused" => pub[w].request = NoRequest
  /\ Working(w) => pub[w].request \in Request
  /\ pub[w].stage \in AtWork => pub[w].at \in Project
  /\ pub[w].stage \notin AtWork => pub[w].at = NoRun
  /\ pub[w].at = NoRun => pub[w].read.report = Blank /\ pub[w].next = Blank
  /\ pub[w].at \in Project => pub[w].read.report \in Held(pub[w].at) /\ pub[w].next \in Held(pub[w].at)
  /\ pub[w].stage = "collect" => pub[w].at = pub[w].request.project

PubInv ==
  /\ PublicationTypeOK
  /\ AllGenuine
  /\ \A p \in Project : current[p].report \in Held(p)
  /\ \A w \in Run : Placed(w)

(* A step changes the record of one publisher.                               *)
LEMMA OneStep ==
  ASSUME PubInv, NEW w \in Run,
         pub' \in [Run -> Publisher], \A u \in Run \ {w} : pub'[u] = pub[u],
         state' \in [Project -> StateManifest], current' \in [Project -> CurrentManifest],
         assets' \in [Project -> SUBSET Report],
         asked' \in [Request -> SUBSET Channel], settled' \in [Request -> SUBSET Channel],
         overwritten' \subseteq Project,
         \A p \in Project : assets[p] \subseteq assets'[p],
         \A p \in Project : current'[p].report \in assets'[p] \cup {Blank},
         AllGenuine', Placed(w)'
  PROVE  PubInv'
<1>1. PublicationTypeOK'
  BY DEF PublicationTypeOK
<1>2. ASSUME NEW u \in Run \ {w} PROVE Placed(u)'
  <2>1. pub'[u] = pub[u] /\ Placed(u)
    BY DEF PubInv
  <2> QED BY <2>1 DEF Placed, Working, Held
<1>3. \A u \in Run : Placed(u)'
  BY <1>2
<1> QED BY <1>1, <1>3 DEF PubInv, Held

(* Stored reports stay genuine while no publisher forgets what it completed. *)
LEMMA GenuineKept ==
  ASSUME PubInv, assets' = assets,
         \A u \in Run : pub'[u].request = pub[u].request /\ pub'[u].complete = pub[u].complete
  PROVE  AllGenuine'
<1> SUFFICES ASSUME NEW p \in Project, NEW r \in assets[p] PROVE Genuine(p, r)'
  BY DEF AllGenuine
<1>1. Genuine(p, r)
  BY DEF PubInv, AllGenuine
<1> QED BY <1>1 DEF Genuine

(* A step of the publisher alone: it holds what is stored, and the storage   *)
(* keeps what it had.                                                        *)
LEMMA QuietStep ==
  ASSUME PubInv, NEW w \in Run, NEW r \in Publisher,
         pub' = [pub EXCEPT ![w] = r], r.request = pub[w].request, r.complete = pub[w].complete,
         state' \in [Project -> StateManifest], current' \in [Project -> CurrentManifest],
         assets' = assets,
         asked' \in [Request -> SUBSET Channel], settled' \in [Request -> SUBSET Channel],
         overwritten' \subseteq Project,
         \A p \in Project : current'[p].report \in Held(p),
         Placed(w)'
  PROVE  PubInv'
<1>1. pub \in [Run -> Publisher] /\ assets \in [Project -> SUBSET Report]
  BY DEF PubInv, PublicationTypeOK
<1>2. pub' \in [Run -> Publisher] /\ pub'[w] = r /\ \A u \in Run \ {w} : pub'[u] = pub[u]
  BY <1>1
<1>3. AllGenuine'
  BY <1>2, GenuineKept
<1> QED BY <1>1, <1>2, <1>3, OneStep DEF Held

(* A late write is of the project visited.                                   *)
LEMMA LateTypes ==
  ASSUME PublicationTypeOK, NEW w \in Run, pub[w].at \in Project, WritesBack(w)
  PROVE  overwritten' \subseteq Project
BY DEF WritesBack, PublicationTypeOK

-----------------------------------------------------------------------------
(* One lemma per action.                                                     *)

LEMMA BeginInv ==
  ASSUME PubInv, NEW w \in Run, NEW q \in Request, Begin(w, q)
  PROVE  PubInv'
<1>1. PICK cs \in (SUBSET (Channel \ settled[q])) \ {{}}, busy \in BOOLEAN, ok \in SUBSET Channel :
        /\ ok \subseteq cs
        /\ asked' = [asked EXCEPT ![q] = @ \cup cs]
        /\ pub' = [pub EXCEPT ![w] = [Resting EXCEPT
              !.stage = "next", !.request = q, !.channels = cs, !.complete = ok,
              !.busy = busy, !.left = Project, !.copy = state]]
  <2>1. PICK cs \in (SUBSET (Channel \ settled[q])) \ {{}}, busy \in BOOLEAN :
          /\ asked' = [asked EXCEPT ![q] = @ \cup cs]
          /\ \E ok \in SUBSET cs :
               pub' = [pub EXCEPT ![w] = [Resting EXCEPT
                 !.stage = "next", !.request = q, !.channels = cs, !.complete = ok,
                 !.busy = busy, !.left = Project, !.copy = state]]
    BY DEF Begin
  <2> QED BY <2>1
<1> DEFINE r == [Resting EXCEPT
              !.stage = "next", !.request = q, !.channels = cs, !.complete = ok,
              !.busy = busy, !.left = Project, !.copy = state]
<1>2. PublicationTypeOK /\ UNCHANGED <<state, current, assets, settled, overwritten>>
  BY DEF PubInv, Begin
<1>3. cs \in SUBSET Channel /\ ok \in SUBSET Channel
  OBVIOUS
<1>4. r \in Publisher
  BY <1>2, <1>3, BlankTypes DEF PublicationTypeOK, Publisher, Stage
<1>5. /\ r.stage = "next" /\ r.request = q /\ r.complete = ok /\ r.at = NoRun
      /\ r.read.report = Blank /\ r.next = Blank
  BY DEF Resting, NewCurrent
<1> HIDE DEF r
<1>6. pub' \in [Run -> Publisher] /\ pub'[w] = r /\ \A u \in Run \ {w} : pub'[u] = pub[u]
  BY <1>1, <1>2, <1>4 DEF PublicationTypeOK, r
<1>7. asked' \in [Request -> SUBSET Channel]
  BY <1>1, <1>2, <1>3 DEF PublicationTypeOK
<1>8. pub[w].request = NoRequest
  BY DEF PubInv, Placed, Begin, At
<1>9. AllGenuine'
  <2> SUFFICES ASSUME NEW p \in Project, NEW x \in assets[p] PROVE Genuine(p, x)'
    BY <1>2 DEF AllGenuine
  <2>1. Genuine(p, x)
    BY DEF PubInv, AllGenuine
  <2>2. \A c \in Channel : x.from[c] # NoRun => x.from[c] \in Run \ {w}
    BY <2>1, <1>8, RequestAssumption DEF Genuine
  <2> QED BY <2>1, <2>2, <1>6 DEF Genuine
<1>10. Placed(w)'
  BY <1>5, <1>6, RequestAssumption DEF Placed, Working, AtWork
<1> QED BY <1>2, <1>6, <1>7, <1>9, <1>10, OneStep DEF PubInv, PublicationTypeOK, Held

LEMMA VisitOtherInv ==
  ASSUME PubInv, NEW w \in Run, NEW p \in Project, VisitOther(w, p)
  PROVE  PubInv'
<1> DEFINE r == [pub[w] EXCEPT !.at = p, !.left = @ \ {p}, !.stage = "state"]
<1>1. PublicationTypeOK /\ UNCHANGED <<state, current, assets, asked, settled, overwritten>>
  BY DEF PubInv, VisitOther, queueVars
<1>2. pub[w] \in Publisher /\ Placed(w)
  BY <1>1, PublisherFields DEF PubInv
<1>3. r \in Publisher
  BY <1>2 DEF Publisher, Stage
<1>4. pub' = [pub EXCEPT ![w] = r]
  BY <1>1 DEF VisitOther, PublicationTypeOK
<1>5. /\ r.request = pub[w].request /\ r.complete = pub[w].complete /\ r.stage = "state"
      /\ r.at = p /\ r.read = pub[w].read /\ r.next = pub[w].next
  BY <1>2 DEF Publisher
<1> HIDE DEF r
<1>6. pub'[w] = r
  BY <1>1, <1>4 DEF PublicationTypeOK
<1>7. pub[w].stage = "next"
  BY DEF VisitOther, At
<1>8. Placed(w)'
  BY <1>1, <1>2, <1>5, <1>6, <1>7, RequestAssumption DEF Placed, Working, AtWork, Held
<1> QED BY <1>1, <1>3, <1>4, <1>5, <1>8, QuietStep DEF PubInv, PublicationTypeOK

LEMMA PlanInv ==
  ASSUME PubInv, NEW w \in Run, Plan(w)
  PROVE  PubInv'
<1> DEFINE p == pub[w].request.project
           kept == [Row(w) EXCEPT !.refresh = @ /\ PlanResult(w) # "collecting"]
           r == Planned(w)
<1>1. PublicationTypeOK /\ UNCHANGED <<state, current, assets, asked, settled, overwritten>>
  BY DEF PubInv, Plan, queueVars
<1>2. pub[w] \in Publisher /\ Placed(w)
  BY <1>1, PublisherFields DEF PubInv
<1>3. pub[w].stage = "next" /\ pub[w].request \in Request
  BY <1>2 DEF Plan, At, Placed, Working
<1>4. p \in Project
  BY <1>3, RequestFields
<1>5. Row(w) \in StateManifest
  BY <1>1, <1>3, <1>4, AcceptType, PublisherFields DEF Row
<1>6. PlanResult(w) \in Result
  BY DEF PlanResult, Result
<1>7. pub' = [pub EXCEPT ![w] = r]
  BY DEF Plan
<1>8. kept \in StateManifest
  BY <1>5 DEF StateManifest
<1> HIDE DEF kept
<1> DEFINE copy == [pub[w].copy EXCEPT ![p] = kept]
<1>9. copy \in [Project -> StateManifest]
  BY <1>2, <1>8 DEF Publisher
<1>10. r = [pub[w] EXCEPT !.at = p, !.left = @ \ {p}, !.stage = "state", !.result = PlanResult(w),
                          !.busy = FALSE, !.copy = copy]
  BY DEF Planned, kept
<1> HIDE DEF copy, p, r
<1>11. r \in Publisher
  BY <1>2, <1>4, <1>6, <1>9, <1>10 DEF Publisher, Stage
<1>12. /\ r.request = pub[w].request /\ r.complete = pub[w].complete /\ r.stage = "state"
       /\ r.at = p /\ r.read = pub[w].read /\ r.next = pub[w].next
  BY <1>2, <1>10 DEF Publisher
<1>13. pub'[w] = r
  BY <1>1, <1>7 DEF PublicationTypeOK
<1>14. Placed(w)'
  BY <1>1, <1>2, <1>3, <1>4, <1>12, <1>13, RequestAssumption DEF Placed, Working, AtWork, Held
<1> QED BY <1>1, <1>7, <1>11, <1>12, <1>14, QuietStep DEF PubInv, PublicationTypeOK

LEMMA SaveStateInv ==
  ASSUME PubInv, NEW w \in Run, SaveState(w)
  PROVE  PubInv'
<1> DEFINE p == pub[w].at
           q == pub[w].request
           saved == pub[w].copy[p]
           receipts == CollectedReceipts(w)
           copy == [pub[w].copy EXCEPT ![p].receipts = receipts]
           r == [pub[w] EXCEPT !.stage = "read", !.copy = copy]
<1>1. PublicationTypeOK /\ UNCHANGED <<current, assets, asked, settled>>
  BY DEF PubInv, SaveState, queueVars
<1>2. pub[w] \in Publisher /\ Placed(w)
  BY <1>1, PublisherFields DEF PubInv
<1>3. pub[w].stage = "state" /\ pub[w].request \in Request /\ p \in Project
  BY <1>2 DEF SaveState, At, Placed, Working, AtWork
<1>4. saved \in StateManifest
  BY <1>2, <1>3 DEF Publisher
<1>5. state' \in [Project -> StateManifest]
  BY <1>1, <1>4 DEF SaveState, PublicationTypeOK
<1>6. Receipts(w) \in [Request -> Receipt]
  BY <1>4 DEF StateManifest, Receipts
<1> DEFINE one == [Receipts(w)[q] EXCEPT !.status = "collected", !.run = w]
<1>7. one \in Receipt
  BY ZenonT(30), <1>3, <1>6 DEF Receipt
<1>8. receipts \in [Request -> Receipt]
  <2>1. receipts \in {Receipts(w), [Receipts(w) EXCEPT ![q] = one]}
    BY DEF CollectedReceipts
  <2> HIDE DEF one, receipts
  <2> QED BY <1>3, <1>6, <1>7, <2>1
<1>9. pub' = [pub EXCEPT ![w] = r]
  BY <1>1 DEF SaveState, PublicationTypeOK
<1> HIDE DEF receipts
<1>10. [saved EXCEPT !.receipts = receipts] \in StateManifest
  BY <1>4, <1>8 DEF StateManifest
<1>11. copy \in [Project -> StateManifest]
  BY <1>2, <1>3, <1>10 DEF Publisher
<1> HIDE DEF copy
<1>12. r \in Publisher
  BY <1>2, <1>11 DEF Publisher, Stage
<1>13. /\ r.request = pub[w].request /\ r.complete = pub[w].complete /\ r.stage = "read"
       /\ r.at = p /\ r.read = pub[w].read /\ r.next = pub[w].next
  BY <1>2 DEF Publisher
<1> HIDE DEF r
<1>14. pub'[w] = r
  BY <1>1, <1>9 DEF PublicationTypeOK
<1>15. Placed(w)'
  BY <1>1, <1>2, <1>3, <1>13, <1>14, RequestAssumption DEF Placed, Working, AtWork, Held
<1>16. overwritten' \subseteq Project
  BY <1>1, <1>3, LateTypes DEF SaveState
<1> QED BY <1>1, <1>5, <1>9, <1>12, <1>13, <1>15, <1>16, QuietStep DEF PubInv, PublicationTypeOK

LEMMA ReadInv ==
  ASSUME PubInv, NEW w \in Run, Read(w)
  PROVE  PubInv'
<1> DEFINE p == pub[w].at
           stage == IF Own(w) /\ pub[w].result = "collecting" THEN "collect" ELSE "report"
           r == [pub[w] EXCEPT !.read = current[p], !.next = current[p].report, !.stage = stage]
<1>1. PublicationTypeOK /\ UNCHANGED <<state, current, assets, asked, settled, overwritten>>
  BY DEF PubInv, Read, queueVars
<1>2. pub[w] \in Publisher /\ Placed(w)
  BY <1>1, PublisherFields DEF PubInv
<1>3. pub[w].stage = "read" /\ pub[w].request \in Request /\ p \in Project
  BY <1>2 DEF Read, At, Placed, Working, AtWork
<1>4. current[p] \in CurrentManifest /\ current[p].report \in Report
  BY <1>1, <1>3 DEF PublicationTypeOK, CurrentManifest
<1>5. pub' = [pub EXCEPT ![w] = r]
  BY <1>1 DEF Read, PublicationTypeOK
<1>6. stage \in {"collect", "report"} /\ (stage = "collect" => p = pub[w].request.project)
  BY DEF Own
<1> HIDE DEF stage
<1>7. r \in Publisher
  BY <1>2, <1>4, <1>6 DEF Publisher, Stage
<1>8. /\ r.request = pub[w].request /\ r.complete = pub[w].complete /\ r.stage = stage
      /\ r.at = p /\ r.read = current[p] /\ r.next = current[p].report
  BY <1>2 DEF Publisher
<1>9. current[p].report \in Held(p)
  BY <1>3 DEF PubInv
<1> HIDE DEF r
<1>10. pub'[w] = r
  BY <1>1, <1>5 DEF PublicationTypeOK
<1>11. Placed(w)'
  BY <1>1, <1>3, <1>6, <1>8, <1>9, <1>10, RequestAssumption DEF Placed, Working, AtWork, Held
<1> QED BY <1>1, <1>5, <1>7, <1>8, <1>11, QuietStep DEF PubInv, PublicationTypeOK

LEMMA CollectFailsInv ==
  ASSUME PubInv, NEW w \in Run, CollectFails(w)
  PROVE  PubInv'
<1>1. PICK result \in {"unusable", "requeued"} :
        pub' = [pub EXCEPT ![w].result = result, ![w].stage = "report"]
  BY DEF CollectFails
<1> DEFINE r == [pub[w] EXCEPT !.result = result, !.stage = "report"]
<1>2. PublicationTypeOK /\ UNCHANGED <<state, current, assets, asked, settled, overwritten>>
  BY DEF PubInv, CollectFails, queueVars
<1>3. pub[w] \in Publisher /\ Placed(w)
  BY <1>2, PublisherFields DEF PubInv
<1>4. pub[w].stage = "collect" /\ pub[w].request \in Request /\ pub[w].at \in Project
  BY <1>3 DEF CollectFails, At, Placed, Working, AtWork
<1>5. pub' = [pub EXCEPT ![w] = r]
  BY <1>1, <1>2 DEF PublicationTypeOK
<1>6. r \in Publisher
  BY <1>3 DEF Publisher, Stage, Result
<1>7. /\ r.request = pub[w].request /\ r.complete = pub[w].complete /\ r.stage = "report"
      /\ r.at = pub[w].at /\ r.read = pub[w].read /\ r.next = pub[w].next
  BY <1>3 DEF Publisher
<1> HIDE DEF r
<1>8. pub'[w] = r
  BY <1>2, <1>5 DEF PublicationTypeOK
<1>9. Placed(w)'
  BY <1>2, <1>3, <1>4, <1>7, <1>8, RequestAssumption DEF Placed, Working, AtWork, Held
<1> QED BY <1>2, <1>5, <1>6, <1>7, <1>9, QuietStep DEF PubInv, PublicationTypeOK

(* What is stored for the claimed project is genuine: either the evidence of *)
(* this run alone, or merged into a stored report of the same revision.      *)
LEMMA NextReportGenuine ==
  ASSUME PubInv, NEW w \in Run, pub[w].stage = "collect", NEW selected
  PROVE  Genuine(pub[w].at, NextReport(w, selected))
<1> DEFINE p == pub[w].at
           old == pub[w].read.report
           next == NextReport(w, selected)
<1>1. Placed(w) /\ pub[w].request \in Request /\ p \in Project /\ p = pub[w].request.project
  BY DEF PubInv, Placed, Working, AtWork
<1>2. next.revision = pub[w].request.revision /\ pub[w].request.revision \in Revision
  <2>1. old.revision = pub[w].request.revision => Merge(old, w, selected).revision = pub[w].request.revision
    BY PublisherFields DEF PubInv, Merge, CurrentManifest, Report
  <2> QED BY <1>1, <2>1, RequestFields DEF NextReport, Whole
<1>3. CASE old.revision = pub[w].request.revision
  <2>1. old \in assets[p]
    BY <1>1, <1>2, <1>3, RequestAssumption DEF Placed, Held, Blank
  <2>2. Genuine(p, old)
    BY <1>1, <2>1 DEF PubInv, AllGenuine
  <2>3. old \in Report
    BY PublisherFields DEF PubInv, CurrentManifest
  <2>4. ASSUME NEW c \in Channel
        PROVE  (next.from[c] = w /\ c \in pub[w].complete) \/ next.from[c] = old.from[c]
    BY <1>3, <2>3 DEF NextReport, Merge, Report
  <2> HIDE DEF next, old
  <2> QED BY <1>1, <1>2, <1>3, <2>2, <2>4 DEF Genuine, next
<1>4. CASE old.revision # pub[w].request.revision
  <2>1. ASSUME NEW c \in Channel, next.from[c] # NoRun
        PROVE  next.from[c] = w /\ c \in pub[w].complete
    BY <1>4, <2>1 DEF NextReport, Whole
  <2> HIDE DEF next
  <2> QED BY <1>1, <1>2, <2>1 DEF Genuine, next
<1> QED BY <1>3, <1>4

LEMMA CollectInv ==
  ASSUME PubInv, NEW w \in Run, Collect(w)
  PROVE  PubInv'
<1> DEFINE p == pub[w].at
           selected == pub[w].copy[p].plan
           next == NextReport(w, selected)
<1>1. PublicationTypeOK /\ UNCHANGED <<state, current, asked, settled, overwritten>>
  BY DEF PubInv, Collect, queueVars
<1>2. pub[w] \in Publisher /\ Placed(w) /\ pub \in [Run -> Publisher]
  BY <1>1, PublisherFields DEF PubInv, PublicationTypeOK
<1>3. pub[w].stage = "collect" /\ pub[w].request \in Request /\ p \in Project
  BY <1>2 DEF Collect, At, Placed, Working, AtWork
<1>4. CASE ~Publishable(w, selected)
  <2> DEFINE r == [pub[w] EXCEPT !.result = "rejected", !.stage = "report"]
  <2>1. pub' = [pub EXCEPT ![w] = r] /\ assets' = assets
    BY <1>2, <1>4 DEF Collect
  <2>2. r \in Publisher
    BY <1>2 DEF Publisher, Stage, Result
  <2>3. /\ r.request = pub[w].request /\ r.complete = pub[w].complete /\ r.stage = "report"
        /\ r.at = p /\ r.read = pub[w].read /\ r.next = pub[w].next
    BY <1>2 DEF Publisher
  <2> HIDE DEF r
  <2>4. pub'[w] = r
    BY <1>2, <2>1
  <2>5. Placed(w)'
    BY <1>2, <1>3, <2>1, <2>3, <2>4, RequestAssumption DEF Placed, Working, AtWork, Held
  <2> QED BY <1>1, <2>1, <2>2, <2>3, <2>5, QuietStep DEF PubInv, PublicationTypeOK
<1>5. CASE Publishable(w, selected)
  <2> DEFINE r == [pub[w] EXCEPT !.next = next, !.result = "published", !.stage = "report"]
  <2>1. pub' = [pub EXCEPT ![w] = r] /\ assets' = [assets EXCEPT ![p] = @ \cup {next}]
    BY <1>2, <1>5 DEF Collect, Uploaded
  <2>2. next \in Report
    BY <1>1, <1>3, ReportTypes
  <2>3. Genuine(p, next)
    BY <1>3, NextReportGenuine
  <2> HIDE DEF next
  <2>4. r \in Publisher
    BY <1>2, <2>2 DEF Publisher, Stage, Result
  <2>5. /\ r.request = pub[w].request /\ r.complete = pub[w].complete /\ r.stage = "report"
        /\ r.at = p /\ r.read = pub[w].read /\ r.next = next
    BY <1>2 DEF Publisher
  <2> HIDE DEF r
  <2>6. pub' \in [Run -> Publisher] /\ pub'[w] = r /\ \A u \in Run \ {w} : pub'[u] = pub[u]
    BY <1>2, <2>1, <2>4
  <2>7. /\ assets' \in [Project -> SUBSET Report]
        /\ \A x \in Project : assets[x] \subseteq assets'[x]
        /\ assets'[p] = assets[p] \cup {next} /\ \A x \in Project \ {p} : assets'[x] = assets[x]
    BY <1>1, <1>3, <2>1, <2>2 DEF PublicationTypeOK
  <2>8. \A u \in Run : pub'[u].request = pub[u].request /\ pub'[u].complete = pub[u].complete
    BY <2>5, <2>6
  <2>9. AllGenuine'
    <3>1. ASSUME NEW x \in Project, NEW y \in assets'[x] PROVE Genuine(x, y)
      BY <2>3, <2>7 DEF PubInv, AllGenuine
    <3> QED BY <2>8, <3>1 DEF AllGenuine, Genuine
  <2>10. Placed(w)'
    BY <1>2, <1>3, <2>5, <2>6, <2>7, RequestAssumption DEF Placed, Working, AtWork, Held
  <2> QED BY <1>1, <2>6, <2>7, <2>9, <2>10, OneStep DEF PubInv, PublicationTypeOK, Held
<1> QED BY <1>4, <1>5

(* Whatever it is written with, the manifest names the next report.          *)
LEMMA ManifestHeld ==
  ASSUME PubInv, NEW w \in Run, pub[w].stage \in AtWork,
         NEW receipts \in [Request -> Receipt],
         current' = [current EXCEPT ![pub[w].at] = Manifest(w, receipts)]
  PROVE  /\ current' \in [Project -> CurrentManifest]
         /\ \A p \in Project : current'[p].report \in Held(p)
<1>1. PublicationTypeOK /\ Placed(w)
  BY DEF PubInv
<1>2. pub[w].request \in Request /\ pub[w].at \in Project /\ pub[w].next \in Held(pub[w].at)
  BY <1>1 DEF Placed, Working, AtWork
<1>3. Manifest(w, receipts) \in CurrentManifest
  BY <1>1, <1>2, ManifestType
<1>4. Manifest(w, receipts).report = pub[w].next
  BY DEF Manifest
<1> QED BY <1>1, <1>2, <1>3, <1>4 DEF PubInv, PublicationTypeOK

LEMMA ReceiptsType ==
  ASSUME PublicationTypeOK, NEW w \in Run, pub[w].at \in Project
  PROVE  Receipts(w) \in [Request -> Receipt]
BY PublisherFields DEF Receipts, StateManifest

LEMMA WriteReportInv ==
  ASSUME PubInv, NEW w \in Run, WriteReport(w)
  PROVE  PubInv'
<1> DEFINE stage == IF Own(w) /\ Deciding(w) # {} THEN "receipts" ELSE "final"
           r == [pub[w] EXCEPT !.stage = stage]
<1>1. PublicationTypeOK /\ UNCHANGED <<state, assets, asked, settled>>
  BY DEF PubInv, WriteReport, queueVars
<1>2. pub[w] \in Publisher /\ Placed(w) /\ pub \in [Run -> Publisher]
  BY <1>1, PublisherFields DEF PubInv, PublicationTypeOK
<1>3. pub[w].stage = "report" /\ pub[w].request \in Request /\ pub[w].at \in Project
  BY <1>2 DEF WriteReport, At, Placed, Working, AtWork
<1>4. Receipts(w) \in [Request -> Receipt]
  BY <1>1, <1>3, ReceiptsType
<1>5. /\ current' \in [Project -> CurrentManifest]
      /\ \A p \in Project : current'[p].report \in Held(p)
  BY <1>3, <1>4, ManifestHeld DEF WriteReport, AtWork
<1>6. pub' = [pub EXCEPT ![w] = r]
  BY DEF WriteReport
<1>7. stage \in {"receipts", "final"}
  OBVIOUS
<1> HIDE DEF stage
<1>8. r \in Publisher
  BY <1>2, <1>7 DEF Publisher, Stage
<1>9. /\ r.request = pub[w].request /\ r.complete = pub[w].complete /\ r.stage = stage
      /\ r.at = pub[w].at /\ r.read = pub[w].read /\ r.next = pub[w].next
  BY <1>2 DEF Publisher
<1> HIDE DEF r
<1>10. pub'[w] = r
  BY <1>2, <1>6
<1>11. Placed(w)'
  BY <1>1, <1>2, <1>3, <1>7, <1>9, <1>10, RequestAssumption DEF Placed, Working, AtWork, Held
<1>12. overwritten' \subseteq Project
  BY <1>1, <1>3, LateTypes DEF WriteReport
<1> QED BY <1>1, <1>5, <1>6, <1>8, <1>9, <1>11, <1>12, QuietStep DEF PubInv, PublicationTypeOK

LEMMA WriteReceiptsInv ==
  ASSUME PubInv, NEW w \in Run, WriteReceipts(w)
  PROVE  PubInv'
<1>1. PublicationTypeOK /\ UNCHANGED <<state, assets, asked, settled, overwritten>>
  BY DEF PubInv, WriteReceipts, queueVars
<1>2. pub[w] \in Publisher /\ Placed(w) /\ pub \in [Run -> Publisher]
  BY <1>1, PublisherFields DEF PubInv, PublicationTypeOK
<1>3. pub[w].stage = "receipts" /\ pub[w].request \in Request /\ pub[w].at \in Project
  BY <1>2 DEF WriteReceipts, At, Placed, Working, AtWork
<1>4. PICK a \in Deciding(w) :
        /\ current' = [current EXCEPT ![pub[w].at] = Manifest(w, SettledReceipts(w, a))]
        /\ pub' = [pub EXCEPT ![w] = [pub[w] EXCEPT
             !.stage = "final", !.copy = [@ EXCEPT ![pub[w].at].receipts = SettledReceipts(w, a)]]]
  BY DEF WriteReceipts
<1> DEFINE q == pub[w].request
           receipts == SettledReceipts(w, a)
           saved == pub[w].copy[pub[w].at]
           copy == [pub[w].copy EXCEPT ![pub[w].at].receipts = receipts]
           r == [pub[w] EXCEPT !.stage = "final", !.copy = copy]
<1>5. Receipts(w) \in [Request -> Receipt]
  BY <1>1, <1>3, ReceiptsType
<1>6. Settle(w, Receipts(w)[q], a) \in Receipt
  BY <1>1, <1>3, <1>5, DecidingType, SettleType
<1>7. receipts \in [Request -> Receipt]
  BY <1>5, <1>6 DEF SettledReceipts
<1> HIDE DEF receipts
<1>8. /\ current' \in [Project -> CurrentManifest]
      /\ \A p \in Project : current'[p].report \in Held(p)
  BY <1>3, <1>4, <1>7, ManifestHeld DEF AtWork, receipts
<1>9. pub' = [pub EXCEPT ![w] = r]
  BY <1>4 DEF receipts
<1>10. [saved EXCEPT !.receipts = receipts] \in StateManifest
  <2>1. saved \in StateManifest
    BY <1>2, <1>3 DEF Publisher
  <2> HIDE DEF saved
  <2> QED BY <1>7, <2>1 DEF StateManifest
<1>11. copy \in [Project -> StateManifest]
  BY <1>2, <1>3, <1>10 DEF Publisher
<1> HIDE DEF copy
<1>12. r \in Publisher
  BY <1>2, <1>11 DEF Publisher, Stage
<1>13. /\ r.request = pub[w].request /\ r.complete = pub[w].complete /\ r.stage = "final"
       /\ r.at = pub[w].at /\ r.read = pub[w].read /\ r.next = pub[w].next
  BY <1>2 DEF Publisher
<1> HIDE DEF r
<1>14. pub'[w] = r
  BY <1>2, <1>9
<1>15. Placed(w)'
  BY <1>1, <1>2, <1>3, <1>13, <1>14, RequestAssumption DEF Placed, Working, AtWork, Held
<1> QED BY <1>1, <1>8, <1>9, <1>12, <1>13, <1>15, QuietStep DEF PubInv, PublicationTypeOK

LEMMA SaveFinalInv ==
  ASSUME PubInv, NEW w \in Run, SaveFinal(w)
  PROVE  PubInv'
<1> DEFINE stage == IF pub[w].left = {} THEN "done" ELSE "next"
           copy == [pub[w].copy EXCEPT ![pub[w].at] = NewState]
           r == [pub[w] EXCEPT !.stage = stage, !.at = NoRun, !.copy = copy,
                               !.read = NewCurrent, !.next = Blank]
<1>1. PublicationTypeOK /\ UNCHANGED <<current, assets, asked, settled>>
  BY DEF PubInv, SaveFinal, queueVars
<1>2. pub[w] \in Publisher /\ Placed(w) /\ pub \in [Run -> Publisher]
  BY <1>1, PublisherFields DEF PubInv, PublicationTypeOK
<1>3. pub[w].stage = "final" /\ pub[w].request \in Request /\ pub[w].at \in Project
  BY <1>2 DEF SaveFinal, At, Placed, Working, AtWork
<1>4. pub[w].copy[pub[w].at] \in StateManifest
  BY <1>2, <1>3 DEF Publisher
<1>5. state' \in [Project -> StateManifest]
  BY <1>1, <1>4 DEF SaveFinal, PublicationTypeOK
<1>6. pub' = [pub EXCEPT ![w] = r]
  BY DEF SaveFinal
<1>7. copy \in [Project -> StateManifest]
  BY <1>2, <1>3, BlankTypes DEF Publisher
<1>8. stage \in {"done", "next"}
  OBVIOUS
<1> HIDE DEF copy, stage
<1>9. r \in Publisher
  BY <1>2, <1>7, <1>8, BlankTypes DEF Publisher, Stage
<1>10. /\ r.request = pub[w].request /\ r.complete = pub[w].complete /\ r.stage = stage
       /\ r.at = NoRun /\ r.read.report = Blank /\ r.next = Blank
  BY <1>2 DEF Publisher, NewCurrent
<1> HIDE DEF r
<1>11. pub'[w] = r
  BY <1>2, <1>6
<1>12. Placed(w)'
  BY <1>3, <1>8, <1>10, <1>11, RequestAssumption DEF Placed, Working, AtWork
<1>13. overwritten' \subseteq Project
  BY <1>1, <1>3, LateTypes DEF SaveFinal
<1> QED BY <1>1, <1>5, <1>6, <1>9, <1>10, <1>12, <1>13, QuietStep DEF PubInv, PublicationTypeOK

(* What a stored report names of this run is not forgotten.                  *)
LEMMA EndInv ==
  ASSUME PubInv, NEW w \in Run, End(w)
  PROVE  PubInv'
<1> DEFINE r == Retired(w)
<1>1. PublicationTypeOK /\ UNCHANGED <<state, current, assets, asked, overwritten>>
  BY DEF PubInv, End
<1>2. pub[w] \in Publisher /\ Placed(w) /\ pub \in [Run -> Publisher]
  BY <1>1, PublisherFields DEF PubInv, PublicationTypeOK
<1>3. pub[w].request \in Request
  BY <1>2 DEF End, Placed
<1>4. settled' \in [Request -> SUBSET Channel]
  BY <1>1, <1>2, <1>3 DEF End, PublicationTypeOK, Publisher
<1>5. r \in Publisher
  BY <1>2, BlankTypes DEF Retired, Publisher, Stage
<1>6. /\ r.request = pub[w].request /\ r.stage = "over" /\ r.at = NoRun
      /\ r.read.report = Blank /\ r.next = Blank
      /\ r.complete = {c \in pub[w].complete : \E p \in Project : \E x \in assets[p] : x.from[c] = w}
  BY DEF Retired, Resting, NewCurrent
<1> HIDE DEF r
<1>7. pub' = [pub EXCEPT ![w] = r]
  BY DEF End, r
<1>8. pub' \in [Run -> Publisher] /\ pub'[w] = r /\ \A u \in Run \ {w} : pub'[u] = pub[u]
  BY <1>2, <1>5, <1>7
<1>9. AllGenuine'
  <2> SUFFICES ASSUME NEW p \in Project, NEW x \in assets[p] PROVE Genuine(p, x)'
    BY <1>1 DEF AllGenuine
  <2>1. Genuine(p, x)
    BY DEF PubInv, AllGenuine
  <2>2. ASSUME NEW c \in Channel, x.from[c] = w, w # NoRun PROVE c \in r.complete
    BY <1>6, <2>1, <2>2 DEF Genuine
  <2> QED BY <1>6, <1>8, <2>1, <2>2 DEF Genuine
<1>10. Placed(w)'
  BY <1>3, <1>6, <1>8, RequestAssumption DEF Placed, Working, AtWork
<1> QED BY <1>1, <1>4, <1>8, <1>9, <1>10, OneStep DEF PubInv, PublicationTypeOK, Held

-----------------------------------------------------------------------------
(* The invariant holds initially and every step keeps it.                    *)

LEMMA InitInv == PublicationInit => PubInv
<1> SUFFICES ASSUME PublicationInit PROVE PubInv
  OBVIOUS
<1>1. PublicationTypeOK
  BY BlankTypes DEF PublicationInit, PublicationTypeOK
<1>2. AllGenuine
  BY DEF PublicationInit, AllGenuine
<1>3. \A p \in Project : current[p].report = Blank
  BY DEF PublicationInit, NewCurrent
<1>4. ASSUME NEW w \in Run PROVE Placed(w)
  <2>1. pub[w] = Resting
    BY DEF PublicationInit
  <2>2. /\ Resting.stage = "unused" /\ Resting.request = NoRequest /\ Resting.at = NoRun
        /\ Resting.read.report = Blank /\ Resting.next = Blank
    BY DEF Resting, NewCurrent
  <2> QED BY <2>1, <2>2, RequestAssumption DEF Placed, Working, AtWork
<1> QED BY <1>1, <1>2, <1>3, <1>4 DEF PubInv, Held

LEMMA StepInv == PubInv /\ [PublicationNext]_pubVars => PubInv'
<1> SUFFICES ASSUME PubInv, [PublicationNext]_pubVars PROVE PubInv'
  OBVIOUS
<1>1. CASE UNCHANGED pubVars
  BY <1>1 DEF pubVars, queueVars, PubInv, PublicationTypeOK, AllGenuine, Genuine, Held, Placed, Working
<1>2. CASE PublicationNext
  <2>1. PICK w \in Run : PublicationStep(w)
    BY <1>2 DEF PublicationNext
  <2> QED BY <2>1, BeginInv, VisitOtherInv, PlanInv, SaveStateInv, ReadInv, CollectInv,
             CollectFailsInv, WriteReportInv, WriteReceiptsInv, SaveFinalInv, EndInv
          DEF PublicationStep
<1> QED BY <1>1, <1>2

LEMMA AlwaysPubInv == PublicationSpec => []PubInv
<1> QED BY InitInv, StepInv, PTL DEF PublicationSpec

(* Every step of every publisher keeps the manifests, the stored assets and  *)
(* the publishers well typed.                                                *)
THEOREM PublicationTypes == PublicationSpec => []PublicationTypeOK
<1>1. PubInv => PublicationTypeOK
  BY DEF PubInv
<1> QED BY <1>1, AlwaysPubInv, PTL

(* No manifest ever names a report whose assets are not stored, wherever     *)
(* publishers stop and however those of different projects interleave.       *)
THEOREM AssetsAreStored == PublicationSpec => []AssetsStored
<1>1. PubInv => AssetsStored
  BY DEF PubInv, AssetsStored, Held
<1> QED BY <1>1, AlwaysPubInv, PTL

(* However often reports were merged and rewritten, a channel shown as       *)
(* complete was completed by the run it names, for this project and exactly  *)
(* this revision.                                                            *)
THEOREM EvidenceIsGenuine == PublicationSpec => []EvidenceGenuine
<1>1. ASSUME PubInv, NEW p \in Project, NEW c \in Channel, current[p].report.from[c] # NoRun
      PROVE  /\ c \in pub[current[p].report.from[c]].complete
             /\ pub[current[p].report.from[c]].request.project = p
             /\ pub[current[p].report.from[c]].request.revision = current[p].report.revision
  <2>1. current[p].report # Blank
    BY <1>1 DEF Blank
  <2>2. Genuine(p, current[p].report)
    BY <1>1, <2>1 DEF PubInv, Held, AllGenuine
  <2> QED BY <1>1, <2>2 DEF Genuine
<1>2. PubInv => EvidenceGenuine
  BY <1>1 DEF EvidenceGenuine
<1> QED BY <1>2, AlwaysPubInv, PTL

-----------------------------------------------------------------------------
(* Until a project's manifests are written back late (overwritten), what its *)
(* own publisher has read is still what is stored when it writes: only the   *)
(* receipts of the current manifest may have been replaced, by those of the  *)
(* state manifest.  And the rows of the two manifests fit: a row of a        *)
(* project's state manifest is Sound for the current manifest m when its     *)
(* last request is the newest it or m records, and what it calls complete of *)
(* that request is in the report.                                            *)

Backed(q, done, report) ==
  done \subseteq Complete(report) /\ (done # {} => report.revision = q.revision)
Decided == {"published", "reused"}
Upto(q, p, row) == row.last \in Request /\ q.project = p /\ q.order <= row.last.order
Sound(p, row, m) ==
  /\ \A q \in Request : row.receipts[q].status # "none" => Upto(q, p, row)
  /\ \A q \in Request : m.recent[q].complete # {} => Upto(q, p, row)
  /\ \A q \in Request : row.receipts[q].status \in Decided => row.receipts[q].completed # {}
  /\ row.last \in Request =>
       /\ row.last.project = p
       /\ row.receipts[row.last].status # "none"
       /\ Backed(row.last, row.receipts[row.last].completed, m.report)
       /\ Backed(row.last, row.plan \cap m.recent[row.last].complete, m.report)

IsNewest(q, m) == \A x \in Request : m.receipts[x].status # "none" => x.order <= q.order
Truthful(m) ==
  \A q \in Request :
    m.receipts[q].status \in Decided /\ IsNewest(q, m)
    => m.receipts[q].completed # {} /\ Backed(q, m.receipts[q].completed, m.report)

\* A report that may follow another: of the request's revision, with what was
\* planned and done.
Ripe(q, old, plan, done, new) ==
  /\ new.revision = q.revision /\ Complete(new) # {}
  /\ old.revision = q.revision => Complete(old) \subseteq Complete(new)
  /\ plan \cap done \subseteq Complete(new)

\* A publisher r of run w that is at work on the project of row and m.
OwnOf(r) == r.at = r.request.project
PublishedOf(r) == OwnOf(r) /\ r.result = "published"
Written(w, r, receipts) ==
  [report |-> r.next,
   by |-> IF PublishedOf(r) THEN r.request ELSE r.read.by,
   receipts |-> receipts,
   recent |-> IF PublishedOf(r)
              THEN [r.read.recent EXCEPT ![r.request] = [run |-> w, complete |-> r.complete]]
              ELSE r.read.recent]
Carries(r, copy, row) ==
  /\ ~OwnOf(r) => copy = row
  /\ OwnOf(r) =>
       /\ copy.last = r.request
       /\ r.stage # "state" => row.last = r.request /\ row.plan = copy.plan
       /\ r.stage \in {"state", "read"} => r.result \in {"cached", "skipped", "collecting"}
       /\ r.result = "cached" => copy.receipts[r.request].completed # {}
SameReport(m, n) == m.report = n.report /\ m.by = n.by /\ m.recent = n.recent
Visits(w, r, row, m) ==
  /\ Sound(r.at, r.copy[r.at], m)
  /\ Carries(r, r.copy[r.at], row)
  /\ r.stage = "collect" => OwnOf(r) /\ r.result = "collecting" /\ r.next = m.report
  /\ r.stage \in {"collect", "report"} => SameReport(r.read, m)
  /\ r.stage = "report" =>
       /\ PublishedOf(r) => Ripe(r.request, m.report, r.copy[r.at].plan, r.complete, r.next)
       /\ ~PublishedOf(r) => r.next = m.report
  /\ r.stage = "receipts" => OwnOf(r) /\ SameReport(m, Written(w, r, r.copy[r.at].receipts))

Begun(q) == \E u \in Run : pub[u].request = q
Newest(w) ==
  \A u \in Run : pub[u].request \in Request /\ pub[u].request.project = pub[w].request.project
                 => pub[u].request.order <= pub[w].request.order
\* A publisher carries its own project from reading to writing, and writes of
\* another only what it read.
Faithful(w) ==
  LET p == pub[w].request.project IN
  p \notin overwritten =>
    /\ p \in pub[w].left => pub[w].copy[p] = state[p]
    /\ pub[w].stage \in AtWork /\ Own(w) => Visits(w, pub[w], state[p], current[p])
Plain(r) == ~OwnOf(r) => r.stage \notin {"collect", "receipts"} /\ (r.stage = "report" => r.next = r.read.report)
Pass(w) ==
  Working(w) =>
    /\ pub[w].channels # {}
    /\ Newest(w)
    /\ pub[w].at \notin pub[w].left
    /\ Faithful(w)
    /\ Plain(pub[w])
StoredWell(p) ==
  /\ Sound(p, state[p], current[p])
  /\ state[p].last \in Request => Begun(state[p].last)
  /\ current[p].by \in Request => Begun(current[p].by) /\ current[p].by.project = p
  /\ Truthful(current[p])
Apart == \A u, v \in Run : Working(u) /\ Working(v) /\ pub[u].request.project = pub[v].request.project => u = v
PassInv == Apart /\ (\A p \in Project \ overwritten : StoredWell(p)) /\ (\A w \in Run : Pass(w))

(* A step of a publisher on its own project: what it leaves of it.           *)
LEMMA PassStep ==
  ASSUME PubInv, PassInv, NEW w \in Run, Working(w), NEW r \in Publisher, NEW p \in Project,
         NEW row, NEW m,
         p = pub[w].request.project, p \notin overwritten, overwritten' = overwritten,
         pub' = [pub EXCEPT ![w] = r],
         state' = [state EXCEPT ![p] = row], current' = [current EXCEPT ![p] = m],
         r.request = pub[w].request, r.channels = pub[w].channels,
         r.at \notin r.left, p \notin r.left,
         Sound(p, row, m), Truthful(m),
         row.last \in Request => row.last \in {pub[w].request, state[p].last},
         m.by \in Request => m.by = current[p].by \/ (m.by = pub[w].request /\ m.by.project = p),
         r.stage \in AtWork => r.at = p /\ Visits(w, r, row, m)
  PROVE  PassInv'
<1>1. /\ pub \in [Run -> Publisher] /\ state \in [Project -> StateManifest]
      /\ current \in [Project -> CurrentManifest]
  BY DEF PubInv, PublicationTypeOK
<1>2. pub'[w] = r /\ \A u \in Run \ {w} : pub'[u] = pub[u]
  BY <1>1
<1>3. /\ state'[p] = row /\ current'[p] = m
      /\ \A x \in Project \ {p} : state'[x] = state[x] /\ current'[x] = current[x]
  BY <1>1
<1>4. \A u \in Run : pub'[u].request = pub[u].request
  BY <1>2
<1>5. ASSUME NEW u \in Run, Working(u)' PROVE Working(u)
  BY <1>2, <1>5 DEF Working
<1>6. Apart'
  BY <1>4, <1>5 DEF PassInv, Apart
<1>7. \A q : Begun(q) <=> Begun(q)'
  BY <1>4 DEF Begun
<1>8. Begun(pub[w].request)
  BY DEF Begun
<1>9. ASSUME NEW x \in Project \ overwritten PROVE StoredWell(x)'
  <2>1. StoredWell(x)
    BY DEF PassInv
  <2>2. CASE x = p
    BY <1>3, <1>7, <1>8, <2>1, <2>2 DEF StoredWell
  <2>3. CASE x # p
    BY <1>3, <1>7, <2>1, <2>3 DEF StoredWell
  <2> QED BY <2>2, <2>3
<1>10. Pass(w)
  BY DEF PassInv
<1>11. Newest(w)'
  BY <1>2, <1>4, <1>10 DEF Pass, Newest
<1>12. Faithful(w)'
  BY <1>2, <1>3 DEF Faithful
<1>13. Plain(pub'[w])
  BY <1>2 DEF Plain, OwnOf, AtWork
<1>14. Pass(w)'
  BY <1>2, <1>10, <1>11, <1>12, <1>13 DEF Pass
<1>15. ASSUME NEW u \in Run \ {w} PROVE Pass(u)'
  <2> SUFFICES ASSUME Working(u)' PROVE Pass(u)'
    BY DEF Pass
  <2>1. Working(u) /\ Pass(u) /\ pub'[u] = pub[u] /\ pub[u].request.project # p
    BY <1>2, <1>5 DEF PassInv, Apart
  <2>2. pub[u].request.project \in Project
    BY <2>1, RequestFields DEF PubInv, Placed
  <2>3. Faithful(u)'
    BY <1>3, <2>1, <2>2 DEF Pass, Faithful, Own
  <2>4. Newest(u)'
    BY <1>4, <2>1 DEF Pass, Newest
  <2> QED BY <2>1, <2>3, <2>4 DEF Pass
<1> QED BY <1>6, <1>9, <1>14, <1>15 DEF PassInv

(* The step of a publisher leaves everyone's request; another's End keeps    *)
(* what was begun.                                                           *)
LEMMA EndPass ==
  ASSUME PubInv, PassInv, NEW w \in Run, End(w)
  PROVE  PassInv'
<1>1. pub \in [Run -> Publisher] /\ UNCHANGED <<state, current, overwritten>>
  BY DEF PubInv, PublicationTypeOK, End
<1>2. Retired(w).stage = "over" /\ Retired(w).request = pub[w].request
  BY DEF Retired, Resting
<1>3. /\ pub'[w].stage = "over" /\ pub'[w].request = pub[w].request
      /\ \A u \in Run \ {w} : pub'[u] = pub[u]
  BY <1>1, <1>2 DEF End
<1>4. \A u \in Run : pub'[u].request = pub[u].request
  BY <1>3
<1>5. ~Working(w)'
  BY <1>3 DEF Working
<1>6. Apart'
  BY <1>3, <1>4, <1>5 DEF PassInv, Apart, Working
<1>7. \A q : Begun(q) <=> Begun(q)'
  BY <1>4 DEF Begun
<1>8. ASSUME NEW p \in Project \ overwritten PROVE StoredWell(p)'
  BY <1>1, <1>7 DEF PassInv, StoredWell
<1>9. ASSUME NEW u \in Run \ {w} PROVE Pass(u)'
  <2>1. Pass(u) /\ pub'[u] = pub[u]
    BY <1>3 DEF PassInv
  <2>2. Newest(u) => Newest(u)'
    BY <1>4 DEF Newest
  <2> QED BY <1>1, <2>1, <2>2 DEF Pass, Working, Faithful, Own
<1> QED BY <1>1, <1>5, <1>6, <1>8, <1>9 DEF PassInv, Pass

LEMMA BeginPass ==
  ASSUME PubInv, PassInv, NEW w \in Run, NEW q \in Request, Begin(w, q)
  PROVE  PassInv'
<1>1. PICK cs \in (SUBSET (Channel \ settled[q])) \ {{}}, busy \in BOOLEAN :
        \E ok \in SUBSET cs : pub' = [pub EXCEPT ![w] = [Resting EXCEPT
              !.stage = "next", !.request = q, !.channels = cs, !.complete = ok,
              !.busy = busy, !.left = Project, !.copy = state]]
  BY DEF Begin
<1>2. PICK ok \in SUBSET cs : pub' = [pub EXCEPT ![w] = [Resting EXCEPT
              !.stage = "next", !.request = q, !.channels = cs, !.complete = ok,
              !.busy = busy, !.left = Project, !.copy = state]]
  BY <1>1
<1>3. pub \in [Run -> Publisher] /\ UNCHANGED <<state, current, overwritten>>
  BY DEF PubInv, PublicationTypeOK, Begin
<1>4. /\ pub'[w].stage = "next" /\ pub'[w].request = q /\ pub'[w].channels = cs
      /\ pub'[w].at = NoRun /\ pub'[w].left = Project /\ pub'[w].copy = state
      /\ \A u \in Run \ {w} : pub'[u] = pub[u]
  BY <1>2, <1>3 DEF Resting
<1>5. \A u \in Run : pub[u].request # NoRequest /\ pub[u].request.project = q.project => ~Working(u)
  BY DEF Begin
<1>6. Apart'
  <2> SUFFICES ASSUME NEW u \in Run, NEW v \in Run, Working(u)', Working(v)',
                      pub'[u].request.project = pub'[v].request.project
               PROVE  u = v
    BY DEF Apart
  <2>1. \A x \in Run \ {w} : Working(x)' => Working(x) /\ pub[x].request \in Request
    BY <1>4 DEF Working, PubInv, Placed
  <2>2. \A x \in Run \ {w} : Working(x)' => pub[x].request.project # q.project
    BY <1>5, <2>1, RequestAssumption
  <2> QED BY <1>4, <2>1, <2>2 DEF PassInv, Apart
<1>7. pub[w].request = NoRequest
  BY DEF PubInv, Placed, Begin, At
<1>8. ASSUME NEW x \in Request, Begun(x) PROVE Begun(x)'
  <2>1. PICK u \in Run : pub[u].request = x
    BY <1>8 DEF Begun
  <2>2. u # w
    BY <1>7, <2>1, RequestAssumption
  <2> QED BY <1>4, <2>1, <2>2 DEF Begun
<1>9. ASSUME NEW p \in Project \ overwritten PROVE StoredWell(p)'
  BY <1>3, <1>8 DEF PassInv, StoredWell
<1>10. \A u \in Run : pub[u].request # NoRequest /\ pub[u].request.project = q.project
                      => pub[u].request.order <= q.order
  BY DEF Begin
<1>11. q.order \in Nat
  BY RequestAssumption
<1>12. Newest(w)'
  <2> SUFFICES ASSUME NEW u \in Run, pub'[u].request \in Request, pub'[u].request.project = q.project
               PROVE  pub'[u].request.order <= q.order
    BY <1>4 DEF Newest
  <2>1. CASE u = w
    BY <1>4, <1>11, <2>1
  <2>2. CASE u # w
    BY <1>4, <1>10, <2>2, RequestAssumption
  <2> QED BY <2>1, <2>2
<1>13. Pass(w)'
  <2>1. cs # {}
    OBVIOUS
  <2>2. Faithful(w)'
    <3>1. pub'[w].copy = state /\ pub'[w].stage \notin AtWork /\ state' = state
      BY <1>3, <1>4 DEF AtWork
    <3> QED BY <3>1 DEF Faithful
  <2>3. pub'[w].at \notin pub'[w].left /\ Plain(pub'[w])
    BY <1>4, RequestAssumption DEF Plain
  <2> QED BY <1>4, <1>12, <2>1, <2>2, <2>3 DEF Pass
<1>14. ASSUME NEW u \in Run \ {w} PROVE Pass(u)'
  <2> SUFFICES ASSUME Working(u)' PROVE Pass(u)'
    BY DEF Pass
  <2>1. Working(u) /\ Pass(u) /\ pub'[u] = pub[u] /\ pub[u].request \in Request
    BY <1>4 DEF PassInv, Working, PubInv, Placed
  <2>2. pub[u].request.project # q.project
    BY <1>5, <2>1, RequestAssumption
  <2>3. Newest(u)'
    <3> SUFFICES ASSUME NEW v \in Run, pub'[v].request \in Request, pub'[v].request.project = pub[u].request.project
                 PROVE  pub'[v].request.order <= pub[u].request.order
      BY <2>1 DEF Newest
    <3>1. v # w
      BY <1>4, <2>2
    <3> QED BY <1>4, <2>1, <3>1 DEF Pass, Newest
  <2> QED BY <1>3, <2>1, <2>3 DEF Pass, Faithful, Own
<1> QED BY <1>3, <1>6, <1>9, <1>13, <1>14 DEF PassInv

LEMMA InitPass == PublicationInit => PassInv
<1> SUFFICES ASSUME PublicationInit PROVE PassInv
  OBVIOUS
<1>1. \A w \in Run : ~Working(w)
  BY DEF PublicationInit, Resting, Working
<1>2. ASSUME NEW p \in Project PROVE StoredWell(p)
  <2>1. state[p] = NewState /\ current[p] = NewCurrent
    BY DEF PublicationInit
  <2>2. /\ NewState.last = NoRequest /\ NewCurrent.by = NoRequest
        /\ \A q \in Request : /\ NewState.receipts[q].status = "none" /\ NewCurrent.receipts[q].status = "none"
                              /\ NewCurrent.recent[q].complete = {}
    BY DEF NewState, NewCurrent, NoReceipt, NoAttempt
  <2> QED BY <2>1, <2>2, RequestAssumption DEF StoredWell, Sound, Truthful, Decided
<1> QED BY <1>1, <1>2 DEF PassInv, Apart, Pass

-----------------------------------------------------------------------------
(* What the invariant says of a publisher at work on its own project.        *)
Carrying(w) == Own(w) /\ pub[w].at \notin overwritten
LEMMA AtWorkFacts ==
  ASSUME PubInv, PassInv, NEW w \in Run, pub[w].stage \in AtWork, Carrying(w)
  PROVE  /\ Working(w) /\ pub[w] \in Publisher /\ pub[w].request \in Request
         /\ pub[w].at \in Project /\ pub[w].at \notin pub[w].left
         /\ pub[w].at = pub[w].request.project /\ pub[w].at \notin overwritten
         /\ pub[w].copy[pub[w].at] \in StateManifest
         /\ Visits(w, pub[w], state[pub[w].at], current[pub[w].at])
         /\ StoredWell(pub[w].at)
         /\ pub \in [Run -> Publisher] /\ state \in [Project -> StateManifest]
         /\ current \in [Project -> CurrentManifest]
<1>1. Placed(w) /\ Pass(w)
  BY DEF PubInv, PassInv
<1>2. Working(w)
  BY DEF Working, AtWork
<1>3. PublicationTypeOK /\ pub[w] \in Publisher
  BY PublisherFields DEF PubInv
<1>4. pub[w].request \in Request /\ pub[w].at \in Project
  BY <1>1, <1>2 DEF Placed
<1>5. pub[w].copy[pub[w].at] \in StateManifest
  BY <1>3, <1>4 DEF Publisher
<1>6. pub[w].at = pub[w].request.project /\ pub[w].at \notin overwritten
  BY DEF Carrying, Own
<1>7. Visits(w, pub[w], state[pub[w].at], current[pub[w].at])
  BY <1>1, <1>2, <1>6 DEF Pass, Faithful, Own
<1> QED BY <1>1, <1>2, <1>3, <1>4, <1>5, <1>6, <1>7 DEF Pass, PassInv, PublicationTypeOK

LEMMA NextFacts ==
  ASSUME PubInv, PassInv, NEW w \in Run, pub[w].stage = "next",
         pub[w].request.project \in pub[w].left, pub[w].request.project \notin overwritten
  PROVE  /\ Working(w) /\ pub[w] \in Publisher /\ pub[w].request \in Request
         /\ pub[w].request.project \in Project
         /\ pub[w].copy[pub[w].request.project] = state[pub[w].request.project] /\ pub[w].channels # {}
         /\ StoredWell(pub[w].request.project) /\ Newest(w)
         /\ pub \in [Run -> Publisher] /\ state \in [Project -> StateManifest]
         /\ current \in [Project -> CurrentManifest]
<1>1. Placed(w) /\ Pass(w)
  BY DEF PubInv, PassInv
<1>2. Working(w)
  BY DEF Working
<1>3. PublicationTypeOK /\ pub[w] \in Publisher /\ pub[w].left \subseteq Project
  BY PublisherFields DEF PubInv
<1>4. pub[w].request \in Request
  BY <1>1, <1>2 DEF Placed
<1> QED BY <1>1, <1>2, <1>3, <1>4 DEF Pass, Faithful, PassInv, PublicationTypeOK

-----------------------------------------------------------------------------
(* Sound rows.                                                               *)

LEMMA OrderFacts ==
  ASSUME NEW q \in Request, NEW x \in Request
  PROVE  /\ q.order \in Nat /\ x.order \in Nat
         /\ q.project = x.project /\ q.order <= x.order /\ x.order <= q.order => q = x
<1>1. q.order \in Nat /\ x.order \in Nat
  BY RequestAssumption
<1> QED BY <1>1, OrderAssumption

(* The receipt of the last request takes another status, with as much of it  *)
(* complete as the report shows.                                             *)
LEMMA SoundMarked ==
  ASSUME NEW p, NEW row \in StateManifest, NEW m, Sound(p, row, m), row.last \in Request,
         NEW receipt, receipt.status # "none",
         receipt.status \in Decided => receipt.completed # {},
         Backed(row.last, receipt.completed, m.report),
         NEW row2, row2.last = row.last, row2.plan = row.plan,
         row2.receipts = [row.receipts EXCEPT ![row.last] = receipt]
  PROVE  Sound(p, row2, m)
<1>1. row.receipts \in [Request -> Receipt]
  BY DEF StateManifest
<1>2. /\ row2.receipts[row.last] = receipt
      /\ \A q \in Request \ {row.last} : row2.receipts[q] = row.receipts[q]
  BY <1>1
<1>3. \A q \in Request : row2.receipts[q].status # "none" => Upto(q, p, row2)
  <2> SUFFICES ASSUME NEW q \in Request, row2.receipts[q].status # "none" PROVE Upto(q, p, row2)
    OBVIOUS
  <2>1. row.receipts[q].status # "none"
    BY <1>2 DEF Sound
  <2> QED BY <2>1 DEF Sound, Upto
<1>4. \A q \in Request : m.recent[q].complete # {} => Upto(q, p, row2)
  BY DEF Sound, Upto
<1>5. \A q \in Request : row2.receipts[q].status \in Decided => row2.receipts[q].completed # {}
  BY <1>2 DEF Sound
<1> QED BY <1>2, <1>3, <1>4, <1>5 DEF Sound

(* A report that may follow shows what the one before it backed.             *)
LEMMA BackedByNext ==
  ASSUME NEW q, NEW old, NEW plan, NEW done, NEW new, Ripe(q, old, plan, done, new),
         NEW shown, Backed(q, shown, old)
  PROVE  Backed(q, shown, new)
BY DEF Ripe, Backed

(* The report changes on the way to m2, for the last request of the row.     *)
LEMMA SoundRipe ==
  ASSUME NEW p, NEW row, NEW m, Sound(p, row, m), row.last \in Request,
         m.recent \in [Request -> Attempt],
         NEW m2, NEW done, NEW w,
         Ripe(row.last, m.report, row.plan, done, m2.report),
         m2.recent = [m.recent EXCEPT ![row.last] = [run |-> w, complete |-> done]]
  PROVE  Sound(p, row, m2)
<1>1. /\ m2.recent[row.last].complete = done
      /\ \A q \in Request \ {row.last} : m2.recent[q] = m.recent[q]
  OBVIOUS
<1>2. Backed(row.last, row.receipts[row.last].completed, m2.report)
  BY BackedByNext DEF Sound
<1>3. Backed(row.last, row.plan \cap done, m2.report)
  BY DEF Ripe, Backed
<1>4. Upto(row.last, p, row)
  BY DEF Sound
<1>5. \A q \in Request : m2.recent[q].complete # {} => Upto(q, p, row)
  BY <1>1, <1>4 DEF Sound
<1> QED BY <1>1, <1>2, <1>3, <1>5 DEF Sound

(* A sound row's receipts are truthful of the manifest they are written to.  *)
LEMMA SoundTruthful ==
  ASSUME NEW p, NEW row, NEW m, Sound(p, row, m), m.receipts = row.receipts
  PROVE  Truthful(m)
<1> SUFFICES ASSUME NEW q \in Request, m.receipts[q].status \in Decided, IsNewest(q, m)
             PROVE  m.receipts[q].completed # {} /\ Backed(q, m.receipts[q].completed, m.report)
  BY DEF Truthful
<1>1. row.receipts[q].status # "none"
  BY DEF Decided
<1>2. Upto(q, p, row)
  BY <1>1 DEF Sound
<1>3. row.last \in Request /\ row.last.project = p /\ row.receipts[row.last].status # "none"
  BY <1>2 DEF Sound, Upto
<1>4. row.last.order <= q.order
  BY <1>3 DEF IsNewest
<1>5. q = row.last
  BY <1>2, <1>3, <1>4, OrderFacts DEF Upto
<1> QED BY <1>3, <1>5 DEF Sound

(* Any other step of a publisher: on a project that is written back late, or *)
(* one that leaves of the project what was there, but for the receipts.      *)
LEMMA ElseStep ==
  ASSUME PubInv, PubInv', PassInv, NEW w \in Run, Working(w), NEW p \in Project,
         overwritten \subseteq overwritten', overwritten' \subseteq overwritten \cup {p},
         \A u \in Run \ {w} : pub'[u] = pub[u],
         \A x \in Project \ {p} : state'[x] = state[x] /\ current'[x] = current[x],
         pub'[w].request = pub[w].request, pub'[w].channels = pub[w].channels,
         pub'[w].left \subseteq pub[w].left, pub'[w].at \notin pub'[w].left,
         \A x \in pub'[w].left : pub'[w].copy[x] = pub[w].copy[x],
         pub'[w].stage \in AtWork => pub'[w].at = p,
         Plain(pub'[w]),
         p \in overwritten' \/
           /\ p # pub[w].request.project
           /\ state'[p] = state[p] /\ SameReport(current'[p], current[p])
           /\ current'[p].receipts \in {current[p].receipts, state[p].receipts}
  PROVE  PassInv'
<1>1. \A u \in Run : pub'[u].request = pub[u].request
  OBVIOUS
<1>2. ASSUME NEW u \in Run, Working(u)' PROVE Working(u)
  BY <1>2 DEF Working
<1>3. Apart'
  BY <1>1, <1>2 DEF PassInv, Apart
<1>4. \A q : Begun(q) <=> Begun(q)'
  BY <1>1 DEF Begun
<1>5. ASSUME NEW x \in Project, x \notin overwritten' PROVE StoredWell(x)'
  <2>1. StoredWell(x)
    BY <1>5 DEF PassInv
  <2>2. CASE x # p
    BY <1>4, <2>1, <2>2 DEF StoredWell
  <2>3. CASE x = p
    <3>1. state'[p] = state[p] /\ SameReport(current'[p], current[p])
      BY <1>5, <2>3
    <3>2. Sound(p, state[p], current[p]) /\ Truthful(current[p])
      BY <2>1, <2>3 DEF StoredWell
    <3>3. Sound(p, state[p], current'[p])
      BY <3>1, <3>2 DEF Sound, SameReport
    <3>4. Truthful(current'[p])
      <4>1. CASE current'[p].receipts = current[p].receipts
        BY <3>1, <3>2, <4>1 DEF Truthful, IsNewest, SameReport
      <4>2. CASE current'[p].receipts = state[p].receipts
        BY <3>3, <4>2, SoundTruthful
      <4> QED BY <1>5, <2>3, <4>1, <4>2
    <3> QED BY <1>4, <2>1, <2>3, <3>1, <3>3, <3>4 DEF StoredWell, SameReport
  <2> QED BY <2>2, <2>3
<1>6. ASSUME NEW u \in Run, Working(u)' PROVE Faithful(u)'
  <2> DEFINE x == pub[u].request.project
  <2>1. Faithful(u) /\ x \in Project /\ pub'[u].request.project = x
    BY <1>1, <1>2, <1>6, RequestFields DEF PassInv, Pass, PubInv, Placed
  <2>2. pub'[u].left \subseteq pub[u].left /\ \A y \in pub'[u].left : pub'[u].copy[y] = pub[u].copy[y]
    OBVIOUS
  <2> HIDE DEF x
  <2>3. CASE x \in overwritten'
    BY <2>1, <2>3 DEF Faithful
  <2>4. CASE x \notin overwritten' /\ x # p
    <3>1. state'[x] = state[x] /\ current'[x] = current[x] /\ x \notin overwritten
      BY <2>1, <2>4
    <3>2. u = w => pub'[u].stage \notin AtWork \/ ~Own(u)'
      BY <2>1, <2>4 DEF Own
    <3>3. u # w => pub'[u] = pub[u]
      OBVIOUS
    <3> QED BY <2>1, <2>2, <3>1, <3>2, <3>3 DEF Faithful, Own, x
  <2>5. CASE x \notin overwritten' /\ x = p
    <3>1. /\ p # pub[w].request.project /\ x \notin overwritten
          /\ state'[p] = state[p] /\ SameReport(current'[p], current[p])
      BY <2>5
    <3>2. u # w /\ pub'[u] = pub[u]
      BY <2>5, <3>1 DEF x
    <3>3. ASSUME Visits(u, pub[u], state[p], current[p]) PROVE Visits(u, pub[u], state[p], current'[p])
      BY <3>1, <3>3 DEF Visits, SameReport, Sound
    <3> QED BY <2>1, <2>5, <3>1, <3>2, <3>3 DEF Faithful, Own, x
  <2> QED BY <2>3, <2>4, <2>5
<1>7. ASSUME NEW u \in Run PROVE Pass(u)'
  <2> SUFFICES ASSUME Working(u)' PROVE Pass(u)'
    BY DEF Pass
  <2>1. Pass(u) /\ Working(u) /\ Faithful(u)'
    BY <1>2, <1>6 DEF PassInv
  <2>2. Newest(u)'
    BY <1>1, <2>1 DEF Pass, Newest
  <2>3. pub'[u].channels = pub[u].channels /\ pub'[u].at \notin pub'[u].left /\ Plain(pub'[u])
    BY <2>1 DEF Pass
  <2> QED BY <2>1, <2>2, <2>3 DEF Pass
<1> QED BY <1>3, <1>5, <1>7 DEF PassInv

-----------------------------------------------------------------------------
(* The plan.                                                                 *)

LEMMA AcceptSound ==
  ASSUME PubInv, PassInv, NEW w \in Run, pub[w].stage = "next",
         pub[w].request.project \in pub[w].left, pub[w].request.project \notin overwritten, Fresh(w)
  PROVE  /\ Sound(pub[w].request.project, Accept(w), current[pub[w].request.project])
         /\ Accept(w).last = pub[w].request
         /\ Accept(w).plan = {} => Accept(w).receipts[pub[w].request].completed # {}
<1> DEFINE q == pub[w].request
           p == q.project
           m == current[p]
           row == state[p]
           reused == Reused(q, pub[w].channels, m.report)
           status == IF pub[w].channels \ reused = {} THEN "reused" ELSE "queued"
           new == Accept(w)
<1>1. /\ pub[w] \in Publisher /\ q \in Request /\ p \in Project /\ pub[w].copy[p] = row
      /\ pub[w].channels # {} /\ StoredWell(p) /\ Newest(w)
      /\ state \in [Project -> StateManifest] /\ current \in [Project -> CurrentManifest]
  BY NextFacts
<1>2. row.receipts \in [Request -> Receipt]
  BY <1>1 DEF StateManifest
<1>3. /\ new.last = q /\ new.plan = pub[w].channels \ reused
      /\ new.receipts = [row.receipts EXCEPT ![q] = [status |-> status, completed |-> reused, run |-> NoRun]]
  BY <1>1 DEF Accept
<1>4. Backed(q, reused, m.report)
  BY DEF Backed, Reused, Shares
<1> HIDE DEF reused, new, status
<1>5. /\ new.receipts[q].status = status /\ new.receipts[q].completed = reused
      /\ \A x \in Request \ {q} : new.receipts[x] = row.receipts[x]
  <2>1. q \in Request
    BY <1>1
  <2> HIDE DEF q, p, row
  <2> QED BY <1>2, <1>3, <2>1
<1>6. Sound(p, row, m) /\ row.last # q
  BY <1>1 DEF StoredWell, Fresh
<1>7. row.last \in Request => row.last.order <= q.order /\ row.last.project = p
  <2> SUFFICES ASSUME row.last \in Request PROVE row.last.order <= q.order /\ row.last.project = p
    OBVIOUS
  <2>1. PICK u \in Run : pub[u].request = row.last
    BY <1>1 DEF StoredWell, Begun
  <2>2. row.last.project = p
    BY <1>6 DEF Sound
  <2> QED BY <1>1, <2>1, <2>2 DEF Newest
<1>8. ASSUME NEW x \in Request, Upto(x, p, row) PROVE x # q /\ Upto(x, p, new)
  <2>1. row.last \in Request /\ x.project = p /\ x.order <= row.last.order /\ row.last.order <= q.order
    BY <1>7, <1>8 DEF Upto
  <2>2. x.order \in Nat /\ q.order \in Nat /\ row.last.order \in Nat
    BY <1>1, <2>1, OrderFacts
  <2>3. x.order <= q.order
    BY <2>1, <2>2
  <2>4. x # q
    BY <1>1, <1>6, <1>7, <2>1, OrderFacts
  <2> QED BY <1>1, <1>3, <2>1, <2>3, <2>4 DEF Upto
<1>9. Upto(q, p, new)
  <2>1. q.order \in Nat
    BY <1>1, OrderFacts
  <2> QED BY <1>1, <1>3, <2>1 DEF Upto
<1>10. \A x \in Request : new.receipts[x].status # "none" => Upto(x, p, new)
  BY <1>5, <1>6, <1>8, <1>9 DEF Sound
<1>11. \A x \in Request : m.recent[x].complete # {} => x # q /\ Upto(x, p, new)
  BY <1>6, <1>8 DEF Sound
<1>12. pub[w].channels \ reused = {} => reused # {}
  BY <1>1
<1>13. status \in {"queued", "reused"} /\ (status = "reused" => reused # {})
  BY <1>12 DEF status
<1>14. \A x \in Request : new.receipts[x].status \in Decided => new.receipts[x].completed # {}
  BY <1>5, <1>6, <1>13 DEF Sound, Decided
<1>15. Backed(q, new.plan \cap m.recent[q].complete, m.report)
  BY <1>1, <1>11 DEF Backed
<1>16. Sound(p, new, m)
  BY <1>3, <1>4, <1>5, <1>10, <1>11, <1>13, <1>14, <1>15 DEF Sound
<1> QED BY <1>3, <1>5, <1>12, <1>16 DEF new

LEMMA PlanPass ==
  ASSUME PubInv, PassInv, NEW w \in Run, Plan(w), pub[w].request.project \notin overwritten
  PROVE  PassInv'
<1> DEFINE q == pub[w].request
           p == q.project
           m == current[p]
           kept == [Row(w) EXCEPT !.refresh = @ /\ PlanResult(w) # "collecting"]
           copy == [pub[w].copy EXCEPT ![p] = kept]
           r == Planned(w)
<1>1. pub[w].stage = "next" /\ p \in pub[w].left
  BY DEF Plan, At
<1>2. /\ Working(w) /\ pub[w] \in Publisher /\ q \in Request /\ p \in Project
      /\ pub[w].copy[p] = state[p] /\ StoredWell(p)
      /\ pub \in [Run -> Publisher] /\ state \in [Project -> StateManifest]
      /\ current \in [Project -> CurrentManifest]
  BY <1>1, NextFacts
<1>3. /\ Sound(p, Row(w), m) /\ Row(w).last = q
      /\ PlanResult(w) = "cached" => Row(w).receipts[q].completed # {}
  <2>1. CASE Fresh(w)
    <3>1. Row(w) = Accept(w)
      BY <2>1 DEF Row
    <3>2. PlanResult(w) = "cached" => Accept(w).plan = {}
      BY <3>1 DEF PlanResult
    <3> QED BY <1>1, <2>1, <3>1, <3>2, AcceptSound
  <2>2. CASE ~Fresh(w)
    <3>1. Row(w) = state[p] /\ PlanResult(w) # "cached"
      BY <1>2, <2>2 DEF Row, PlanResult
    <3>2. state[p].last = q
      BY <1>2, <2>2 DEF Fresh
    <3> QED BY <1>2, <3>1, <3>2 DEF StoredWell
  <2> QED BY <2>1, <2>2
<1>4. Row(w) \in StateManifest
  BY <1>2, AcceptType DEF Row, PubInv
<1>5. PlanResult(w) \in {"cached", "skipped", "collecting"}
  BY DEF PlanResult
<1>6. /\ kept \in StateManifest /\ kept.last = q /\ kept.plan = Row(w).plan
      /\ kept.receipts = Row(w).receipts
  BY <1>3, <1>4 DEF StateManifest
<1> HIDE DEF kept
<1>7. Sound(p, kept, m)
  BY <1>3, <1>6 DEF Sound, Upto
<1>8. /\ copy \in [Project -> StateManifest] /\ copy[p] = kept
      /\ \A x \in Project \ {p} : copy[x] = pub[w].copy[x]
  BY <1>2, <1>6 DEF Publisher
<1>9. r = [pub[w] EXCEPT !.at = p, !.left = @ \ {p}, !.stage = "state", !.result = PlanResult(w),
                         !.busy = FALSE, !.copy = copy]
  BY DEF Planned, kept
<1> HIDE DEF copy, r
<1>10. r \in Publisher
  BY <1>2, <1>5, <1>8, <1>9 DEF Publisher, Stage, Result
<1>11. /\ r.request = q /\ r.channels = pub[w].channels /\ r.stage = "state" /\ r.at = p
       /\ r.left = pub[w].left \ {p} /\ r.copy = copy /\ r.result = PlanResult(w)
  BY <1>2, <1>9 DEF Publisher
<1>12. Visits(w, r, state[p], m)
  BY <1>3, <1>5, <1>6, <1>7, <1>8, <1>11 DEF Visits, Carries, OwnOf
<1>13. pub' = [pub EXCEPT ![w] = r] /\ UNCHANGED <<state, current, overwritten>>
  BY DEF Plan, r
<1>14. state' = [state EXCEPT ![p] = state[p]] /\ current' = [current EXCEPT ![p] = m]
  BY <1>2, <1>13
<1>15. \A x \in r.left : r.copy[x] = pub[w].copy[x]
  BY <1>2, <1>8, <1>11 DEF Publisher
<1>16. Sound(p, state[p], m) /\ Truthful(m)
  BY <1>2 DEF StoredWell
<1>17. p \notin r.left /\ p = pub[w].request.project /\ p \notin overwritten /\ m.by = current[p].by
  BY <1>11
<1> HIDE DEF q, p, m
<1> QED BY <1>2, <1>10, <1>11, <1>12, <1>13, <1>14, <1>15, <1>16, <1>17, PassStep DEF q, m

-----------------------------------------------------------------------------
(* The steps of a visit.                                                     *)

LEMMA NotLate ==
  ASSUME NEW w \in Run, Carrying(w), WritesBack(w)
  PROVE  overwritten' = overwritten
BY DEF Carrying, WritesBack, Late

LEMMA SaveStatePass ==
  ASSUME PubInv, PassInv, NEW w \in Run, SaveState(w), Carrying(w)
  PROVE  PassInv'
<1> DEFINE q == pub[w].request
           p == pub[w].at
           m == current[p]
           row == pub[w].copy[p]
           marked == [row EXCEPT !.receipts = CollectedReceipts(w)]
           copy == [pub[w].copy EXCEPT ![p] = marked]
           r == [pub[w] EXCEPT !.stage = "read", !.copy = copy]
<1>1. pub[w].stage = "state"
  BY DEF SaveState, At
<1>2. /\ Working(w) /\ pub[w] \in Publisher /\ q \in Request /\ p \in Project
      /\ p = q.project /\ p \notin overwritten
      /\ p \notin pub[w].left /\ row \in StateManifest
      /\ Visits(w, pub[w], state[p], m) /\ StoredWell(p)
      /\ pub \in [Run -> Publisher] /\ state \in [Project -> StateManifest]
      /\ current \in [Project -> CurrentManifest]
  BY <1>1, AtWorkFacts DEF AtWork
<1>3. row.receipts \in [Request -> Receipt]
  BY <1>2 DEF StateManifest
<1>4. /\ marked.last = row.last /\ marked.plan = row.plan /\ marked.receipts = CollectedReceipts(w)
      /\ Receipts(w) = row.receipts
  BY <1>2 DEF StateManifest, Receipts
<1>5. ~(Own(w) /\ pub[w].result = "collecting") => marked = row
  BY <1>2, <1>4 DEF CollectedReceipts, StateManifest
<1>6. Sound(p, row, m) /\ Carries(pub[w], row, state[p])
  BY <1>2 DEF Visits
<1>7. CollectedReceipts(w) \in [Request -> Receipt]
  <2> DEFINE one == [row.receipts[q] EXCEPT !.status = "collected", !.run = w]
  <2>1. one \in Receipt
    BY <1>2, <1>3 DEF Receipt
  <2>2. CollectedReceipts(w) \in {row.receipts, [row.receipts EXCEPT ![q] = one]}
    BY <1>4 DEF CollectedReceipts
  <2> HIDE DEF one
  <2> QED BY <1>2, <1>3, <2>1, <2>2
<1>8. Sound(p, marked, m)
  <2>1. CASE Own(w) /\ pub[w].result = "collecting"
    <3> DEFINE one == [row.receipts[q] EXCEPT !.status = "collected", !.run = w]
    <3>1. row.last = q
      BY <1>6, <2>1 DEF Carries, Own, OwnOf
    <3>2. /\ one.status = "collected" /\ one.completed = row.receipts[q].completed
      BY <1>2, <1>3 DEF Receipt
    <3>3. marked.receipts = [row.receipts EXCEPT ![row.last] = one]
      BY <1>4, <2>1, <3>1 DEF CollectedReceipts
    <3>4. Backed(row.last, one.completed, m.report)
      BY <1>2, <1>6, <3>1, <3>2 DEF Sound
    <3> HIDE DEF one, marked
    <3> QED BY <1>2, <1>4, <1>6, <3>1, <3>2, <3>3, <3>4, SoundMarked DEF Decided
  <2>2. CASE ~(Own(w) /\ pub[w].result = "collecting")
    BY <1>5, <1>6, <2>2
  <2> QED BY <2>1, <2>2
<1>9. marked \in StateManifest
  BY <1>2, <1>7 DEF StateManifest
<1>10. Carries(pub[w], row, state[p]) /\ marked.last = row.last /\ marked.plan = row.plan
       /\ (pub[w].result # "collecting" \/ ~OwnOf(pub[w]) => marked = row)
  BY <1>4, <1>5, <1>6 DEF Own, OwnOf
<1> HIDE DEF marked
<1>11. /\ copy \in [Project -> StateManifest] /\ copy[p] = marked
       /\ \A x \in Project \ {p} : copy[x] = pub[w].copy[x]
  BY <1>2, <1>9 DEF Publisher
<1> HIDE DEF copy
<1>12. r \in Publisher
  BY <1>2, <1>11 DEF Publisher, Stage
<1>13. /\ r.request = q /\ r.channels = pub[w].channels /\ r.stage = "read" /\ r.at = p
       /\ r.left = pub[w].left /\ r.copy = copy /\ r.result = pub[w].result
  BY <1>2 DEF Publisher
<1>14. pub' = [pub EXCEPT ![w] = r]
  BY <1>2 DEF SaveState, copy, marked, Publisher
<1> HIDE DEF r
<1>15. Carries(r, marked, row)
  BY <1>1, <1>10, <1>13 DEF Carries, OwnOf
<1>16. Visits(w, r, row, m)
  BY <1>8, <1>11, <1>13, <1>15 DEF Visits
<1>17. state' = [state EXCEPT ![p] = row] /\ current' = [current EXCEPT ![p] = m]
  BY <1>2 DEF SaveState
<1>18. row.last \in Request => row.last \in {pub[w].request, state[p].last}
  BY <1>6 DEF Carries
<1>19. Truthful(m)
  BY <1>2 DEF StoredWell
<1>20. \A x \in r.left : r.copy[x] = pub[w].copy[x]
  BY <1>2, <1>11, <1>13 DEF Publisher
<1>21. m.by \in Request => m.by = current[p].by
  OBVIOUS
<1>22. overwritten' = overwritten
  BY NotLate DEF SaveState
<1> HIDE DEF q, p, m, row
<1> QED BY <1>2, <1>6, <1>12, <1>13, <1>14, <1>16, <1>17, <1>18, <1>19, <1>20, <1>21, <1>22, PassStep DEF q, m

LEMMA ReadPass ==
  ASSUME PubInv, PassInv, NEW w \in Run, Read(w), Carrying(w)
  PROVE  PassInv'
<1> DEFINE p == pub[w].at
           m == current[p]
           stage == IF Own(w) /\ pub[w].result = "collecting" THEN "collect" ELSE "report"
           r == [pub[w] EXCEPT !.read = m, !.next = m.report, !.stage = stage]
<1>1. pub[w].stage = "read"
  BY DEF Read, At
<1>2. /\ Working(w) /\ pub[w] \in Publisher /\ p \in Project
      /\ p = pub[w].request.project /\ p \notin overwritten
      /\ p \notin pub[w].left /\ Visits(w, pub[w], state[p], m) /\ StoredWell(p)
      /\ pub \in [Run -> Publisher] /\ state \in [Project -> StateManifest]
      /\ current \in [Project -> CurrentManifest]
  BY <1>1, AtWorkFacts DEF AtWork
<1>3. m \in CurrentManifest /\ m.report \in Report
  BY <1>2 DEF CurrentManifest
<1>4. stage \in {"collect", "report"}
      /\ (stage = "collect" => OwnOf(pub[w]) /\ pub[w].result = "collecting")
  BY DEF Own, OwnOf
<1>5. pub' = [pub EXCEPT ![w] = r] /\ UNCHANGED <<state, current, overwritten>>
  BY <1>2 DEF Read
<1> HIDE DEF stage
<1>6. r \in Publisher
  BY <1>2, <1>3, <1>4 DEF Publisher, Stage
<1>7. /\ r.request = pub[w].request /\ r.channels = pub[w].channels /\ r.stage = stage /\ r.at = p
      /\ r.left = pub[w].left /\ r.copy = pub[w].copy /\ r.result = pub[w].result
      /\ r.read = m /\ r.next = m.report
  BY <1>2 DEF Publisher
<1> HIDE DEF r
<1>8. Sound(p, pub[w].copy[p], m) /\ Carries(pub[w], pub[w].copy[p], state[p])
  BY <1>2 DEF Visits
<1>9. Carries(r, r.copy[p], state[p])
  BY <1>1, <1>4, <1>7, <1>8 DEF Carries, OwnOf
<1>10. ~PublishedOf(r)
  BY <1>1, <1>7, <1>8 DEF Carries, OwnOf, PublishedOf
<1>11. Visits(w, r, state[p], m)
  BY <1>4, <1>7, <1>8, <1>9, <1>10 DEF Visits, OwnOf, SameReport
<1>12. state' = [state EXCEPT ![p] = state[p]] /\ current' = [current EXCEPT ![p] = m]
  BY <1>2, <1>5
<1>13. Sound(p, state[p], m) /\ Truthful(m)
  BY <1>2 DEF StoredWell
<1>14. \A x \in r.left : r.copy[x] = pub[w].copy[x]
  BY <1>7
<1> HIDE DEF p, m
<1> QED BY <1>2, <1>5, <1>6, <1>7, <1>11, <1>12, <1>13, <1>14, PassStep DEF m

LEMMA CollectFailsPass ==
  ASSUME PubInv, PassInv, NEW w \in Run, CollectFails(w), Carrying(w)
  PROVE  PassInv'
<1>1. PICK result \in {"unusable", "requeued"} :
        pub' = [pub EXCEPT ![w].result = result, ![w].stage = "report"]
  BY DEF CollectFails
<1> DEFINE p == pub[w].at
           m == current[p]
           r == [pub[w] EXCEPT !.result = result, !.stage = "report"]
<1>2. pub[w].stage = "collect"
  BY DEF CollectFails, At
<1>3. /\ Working(w) /\ pub[w] \in Publisher /\ p \in Project
      /\ p = pub[w].request.project /\ p \notin overwritten
      /\ p \notin pub[w].left /\ Visits(w, pub[w], state[p], m) /\ StoredWell(p)
      /\ pub \in [Run -> Publisher] /\ state \in [Project -> StateManifest]
      /\ current \in [Project -> CurrentManifest]
  BY <1>2, AtWorkFacts DEF AtWork
<1>4. pub' = [pub EXCEPT ![w] = r] /\ UNCHANGED <<state, current, overwritten>>
  BY <1>1, <1>3 DEF CollectFails
<1>5. r \in Publisher
  BY <1>3 DEF Publisher, Stage, Result
<1>6. /\ r.request = pub[w].request /\ r.channels = pub[w].channels /\ r.stage = "report" /\ r.at = p
      /\ r.left = pub[w].left /\ r.copy = pub[w].copy /\ r.result = result
      /\ r.read = pub[w].read /\ r.next = pub[w].next
  BY <1>3 DEF Publisher
<1> HIDE DEF r
<1>7. /\ Sound(p, pub[w].copy[p], m) /\ Carries(pub[w], pub[w].copy[p], state[p])
      /\ SameReport(pub[w].read, m) /\ pub[w].next = m.report
  BY <1>2, <1>3 DEF Visits
<1>8. Carries(r, r.copy[p], state[p])
  BY <1>2, <1>6, <1>7 DEF Carries, OwnOf
<1>9. ~PublishedOf(r)
  BY <1>6 DEF PublishedOf
<1>10. Visits(w, r, state[p], m)
  BY <1>6, <1>7, <1>8, <1>9 DEF Visits, OwnOf
<1>11. state' = [state EXCEPT ![p] = state[p]] /\ current' = [current EXCEPT ![p] = m]
  BY <1>3, <1>4
<1>12. Sound(p, state[p], m) /\ Truthful(m)
  BY <1>3 DEF StoredWell
<1>13. \A x \in r.left : r.copy[x] = pub[w].copy[x]
  BY <1>6
<1>14. p \notin r.left /\ m.by = current[p].by
  BY <1>3, <1>6
<1> HIDE DEF p, m
<1> QED BY <1>3, <1>4, <1>5, <1>6, <1>10, <1>11, <1>12, <1>14, PassStep

(* What collection stores may follow what it read.                           *)
LEMMA NextReportRipe ==
  ASSUME PubInv, NEW w \in Run, pub[w].stage = "collect",
         NEW selected \in SUBSET Channel, Publishable(w, selected)
  PROVE  Ripe(pub[w].request, pub[w].read.report, selected, pub[w].complete, NextReport(w, selected))
<1> DEFINE q == pub[w].request
           old == pub[w].read.report
           next == NextReport(w, selected)
<1>1. old \in Report /\ pub[w].complete \subseteq Channel
  BY PublisherFields DEF PubInv, CurrentManifest
<1>2. w # NoRun
  BY RequestAssumption
<1>3. PICK c \in selected : c \in pub[w].complete
  BY DEF Publishable
<1>4. CASE old.revision = q.revision
  <2>1. next = Merge(old, w, selected)
    BY <1>4 DEF NextReport
  <2>2. /\ next.revision = q.revision
        /\ \A x \in Channel : next.from[x] = IF x \in selected \cap pub[w].complete THEN w ELSE old.from[x]
    BY <1>1, <1>4, <2>1 DEF Merge, Report
  <2> HIDE DEF next, old
  <2> QED BY <1>1, <1>2, <1>3, <2>2 DEF Ripe, Complete, old, next
<1>5. CASE old.revision # q.revision
  <2>1. next = Whole(w)
    BY <1>5 DEF NextReport
  <2>2. /\ next.revision = q.revision
        /\ \A x \in Channel : next.from[x] = IF x \in pub[w].complete THEN w ELSE NoRun
    BY <2>1 DEF Whole
  <2> HIDE DEF next
  <2> QED BY <1>1, <1>2, <1>3, <1>5, <2>2 DEF Ripe, Complete, next
<1> QED BY <1>4, <1>5

LEMMA CollectPass ==
  ASSUME PubInv, PassInv, NEW w \in Run, Collect(w), Carrying(w)
  PROVE  PassInv'
<1> DEFINE p == pub[w].at
           m == current[p]
           selected == pub[w].copy[p].plan
           next == NextReport(w, selected)
<1>1. pub[w].stage = "collect"
  BY DEF Collect, At
<1>2. /\ Working(w) /\ pub[w] \in Publisher /\ p \in Project /\ pub[w].request \in Request
      /\ p = pub[w].request.project /\ p \notin overwritten /\ overwritten' = overwritten
      /\ p \notin pub[w].left /\ Visits(w, pub[w], state[p], m) /\ StoredWell(p)
      /\ pub \in [Run -> Publisher] /\ state \in [Project -> StateManifest]
      /\ current \in [Project -> CurrentManifest] /\ pub[w].copy[p] \in StateManifest
  BY <1>1, AtWorkFacts DEF AtWork, Collect
<1>3. /\ Sound(p, pub[w].copy[p], m) /\ Carries(pub[w], pub[w].copy[p], state[p])
      /\ SameReport(pub[w].read, m) /\ pub[w].next = m.report /\ OwnOf(pub[w])
  BY <1>1, <1>2 DEF Visits
<1>4. state' = [state EXCEPT ![p] = state[p]] /\ current' = [current EXCEPT ![p] = m]
  BY <1>2 DEF Collect
<1>5. Sound(p, state[p], m) /\ Truthful(m)
  BY <1>2 DEF StoredWell
<1>6. CASE ~Publishable(w, selected)
  <2> DEFINE r == [pub[w] EXCEPT !.result = "rejected", !.stage = "report"]
  <2>1. pub' = [pub EXCEPT ![w] = r]
    BY <1>2, <1>6 DEF Collect
  <2>2. r \in Publisher
    BY <1>2 DEF Publisher, Stage, Result
  <2>3. /\ r.request = pub[w].request /\ r.channels = pub[w].channels /\ r.stage = "report" /\ r.at = p
        /\ r.left = pub[w].left /\ r.copy = pub[w].copy /\ r.result = "rejected"
        /\ r.read = pub[w].read /\ r.next = pub[w].next
    BY <1>2 DEF Publisher
  <2> HIDE DEF r
  <2>4. Carries(r, r.copy[p], state[p]) /\ ~PublishedOf(r)
    BY <1>1, <1>3, <2>3 DEF Carries, OwnOf, PublishedOf
  <2>5. Visits(w, r, state[p], m)
    BY <1>3, <2>3, <2>4 DEF Visits, OwnOf
  <2>6. \A x \in r.left : r.copy[x] = pub[w].copy[x]
    BY <2>3
  <2> HIDE DEF p, m, selected, next
  <2> QED BY <1>2, <1>4, <1>5, <2>1, <2>2, <2>3, <2>5, <2>6, PassStep DEF m
<1>7. CASE Publishable(w, selected)
  <2> DEFINE r == [pub[w] EXCEPT !.next = next, !.result = "published", !.stage = "report"]
  <2>1. selected \in SUBSET Channel
    BY <1>2 DEF StateManifest
  <2>2. pub' = [pub EXCEPT ![w] = r]
    BY <1>2, <1>7 DEF Collect
  <2>3. next \in Report
    BY <1>2, ReportTypes DEF PubInv
  <2>4. Ripe(pub[w].request, m.report, selected, pub[w].complete, next)
    BY <1>1, <1>3, <1>7, <2>1, NextReportRipe DEF SameReport
  <2> HIDE DEF next
  <2>5. r \in Publisher
    BY <1>2, <2>3 DEF Publisher, Stage, Result
  <2>6. /\ r.request = pub[w].request /\ r.channels = pub[w].channels /\ r.stage = "report" /\ r.at = p
        /\ r.left = pub[w].left /\ r.copy = pub[w].copy /\ r.result = "published"
        /\ r.read = pub[w].read /\ r.next = next /\ r.complete = pub[w].complete
    BY <1>2 DEF Publisher
  <2> HIDE DEF r
  <2>7. Carries(r, r.copy[p], state[p]) /\ PublishedOf(r)
    BY <1>1, <1>3, <2>6 DEF Carries, OwnOf, PublishedOf
  <2>8. Visits(w, r, state[p], m)
    BY <1>3, <2>4, <2>6, <2>7 DEF Visits, OwnOf
  <2>9. \A x \in r.left : r.copy[x] = pub[w].copy[x]
    BY <2>6
  <2> HIDE DEF p, m, selected
  <2> QED BY <1>2, <1>4, <1>5, <2>2, <2>5, <2>6, <2>8, <2>9, PassStep DEF m
<1> QED BY <1>6, <1>7

(* What is written for the visited project.                                  *)
LEMMA ManifestWritten ==
  ASSUME NEW w \in Run, NEW receipts
  PROVE  Manifest(w, receipts) = Written(w, pub[w], receipts)
BY DEF Manifest, Written, Published, PublishedOf, Own, OwnOf

LEMMA WrittenFields ==
  ASSUME NEW w, NEW r, NEW receipts
  PROVE  /\ Written(w, r, receipts).report = r.next
         /\ Written(w, r, receipts).receipts = receipts
         /\ PublishedOf(r) => /\ Written(w, r, receipts).by = r.request
                              /\ Written(w, r, receipts).recent
                                   = [r.read.recent EXCEPT ![r.request] = [run |-> w, complete |-> r.complete]]
         /\ ~PublishedOf(r) => /\ Written(w, r, receipts).by = r.read.by
                               /\ Written(w, r, receipts).recent = r.read.recent
BY DEF Written

LEMMA WriteReportPass ==
  ASSUME PubInv, PassInv, NEW w \in Run, WriteReport(w), Carrying(w)
  PROVE  PassInv'
<1> DEFINE q == pub[w].request
           p == pub[w].at
           m == current[p]
           copy == pub[w].copy[p]
           m2 == Written(w, pub[w], copy.receipts)
           stage == IF Own(w) /\ Deciding(w) # {} THEN "receipts" ELSE "final"
           r == [pub[w] EXCEPT !.stage = stage]
<1>1. pub[w].stage = "report"
  BY DEF WriteReport, At
<1>2. /\ Working(w) /\ pub[w] \in Publisher /\ p \in Project /\ q \in Request
      /\ p = q.project /\ p \notin overwritten
      /\ p \notin pub[w].left /\ Visits(w, pub[w], state[p], m) /\ StoredWell(p)
      /\ pub \in [Run -> Publisher] /\ state \in [Project -> StateManifest]
      /\ current \in [Project -> CurrentManifest] /\ copy \in StateManifest
  BY <1>1, AtWorkFacts DEF AtWork
<1>3. /\ Sound(p, copy, m) /\ Carries(pub[w], copy, state[p]) /\ SameReport(pub[w].read, m)
      /\ PublishedOf(pub[w]) => Ripe(q, m.report, copy.plan, pub[w].complete, pub[w].next)
      /\ ~PublishedOf(pub[w]) => pub[w].next = m.report
  BY <1>1, <1>2 DEF Visits
<1>4. m.recent \in [Request -> Attempt]
  BY <1>2 DEF CurrentManifest
<1>5. Sound(p, state[p], m)
  BY <1>2 DEF StoredWell
<1>6. /\ state' = [state EXCEPT ![p] = state[p]] /\ current' = [current EXCEPT ![p] = m2]
      /\ pub' = [pub EXCEPT ![w] = r]
  BY <1>2, ManifestWritten DEF WriteReport, Receipts
<1>7. m2.report = pub[w].next /\ m2.receipts = copy.receipts
  BY DEF Written
<1>8. /\ PublishedOf(pub[w]) => m2.by = q /\ m2.recent = [m.recent EXCEPT ![q] = [run |-> w, complete |-> pub[w].complete]]
      /\ ~PublishedOf(pub[w]) => m2.by = m.by /\ m2.recent = m.recent
  <2> DEFINE me == pub[w]
  <2>1. SameReport(me.read, m)
    BY <1>3
  <2> HIDE DEF me, m, copy, p
  <2>2. /\ PublishedOf(me) => /\ m2.by = me.request
                               /\ m2.recent = [me.read.recent EXCEPT ![me.request] = [run |-> w, complete |-> me.complete]]
        /\ ~PublishedOf(me) => m2.by = me.read.by /\ m2.recent = me.read.recent
    BY WrittenFields DEF me
  <2> QED BY <2>1, <2>2 DEF SameReport, me
<1> HIDE DEF m2, copy, m
<1>9. Sound(p, copy, m2) /\ Sound(p, state[p], m2)
  <2>1. CASE PublishedOf(pub[w])
    <3>1. copy.last = q /\ state[p].last = q /\ state[p].plan = copy.plan
      BY <1>1, <1>3, <2>1 DEF Carries, PublishedOf
    <3>2. Ripe(q, m.report, copy.plan, pub[w].complete, m2.report)
      BY <1>3, <1>7, <2>1
    <3> QED BY <1>2, <1>3, <1>4, <1>5, <1>8, <2>1, <3>1, <3>2, SoundRipe
  <2>2. CASE ~PublishedOf(pub[w])
    BY <1>3, <1>5, <1>7, <1>8, <2>2 DEF Sound
  <2> QED BY <2>1, <2>2
<1>10. Truthful(m2)
  BY <1>7, <1>9, SoundTruthful
<1>11. stage \in {"receipts", "final"} /\ (stage = "receipts" => OwnOf(pub[w]))
  BY DEF Own, OwnOf
<1> HIDE DEF stage
<1>12. r \in Publisher
  BY <1>2, <1>11 DEF Publisher, Stage
<1>13. /\ r.request = q /\ r.channels = pub[w].channels /\ r.stage = stage /\ r.at = p
       /\ r.left = pub[w].left /\ r.copy = pub[w].copy /\ r.result = pub[w].result
       /\ r.read = pub[w].read /\ r.next = pub[w].next /\ r.complete = pub[w].complete
  BY <1>2 DEF Publisher
<1> HIDE DEF r
<1>14. Carries(r, copy, state[p])
  BY <1>1, <1>3, <1>11, <1>13 DEF Carries, OwnOf
<1>15. SameReport(m2, Written(w, r, copy.receipts))
  BY <1>13 DEF SameReport, m2, Written, PublishedOf, OwnOf
<1>16. Visits(w, r, state[p], m2)
  BY <1>9, <1>11, <1>13, <1>14, <1>15 DEF Visits, OwnOf, copy
<1>17. m2.by \in Request => m2.by = current[p].by \/ (m2.by = q /\ m2.by.project = p)
  BY <1>8 DEF m, PublishedOf, OwnOf
<1>18. \A x \in r.left : r.copy[x] = pub[w].copy[x]
  BY <1>13
<1>19. overwritten' = overwritten
  BY NotLate DEF WriteReport
<1> HIDE DEF p, q
<1> QED BY <1>2, <1>6, <1>9, <1>10, <1>12, <1>13, <1>16, <1>17, <1>18, <1>19, PassStep DEF q

(* The attempt that decides the claimed request is the one m records, and    *)
(* what it completed of the plan is in the report.                           *)
LEMMA SettleBacked ==
  ASSUME PubInv, PassInv, NEW w \in Run, pub[w].stage = "receipts", Carrying(w), NEW a \in Deciding(w),
         NEW q, q = pub[w].request, NEW row, row = pub[w].copy[pub[w].at],
         NEW receipt, receipt = Settle(w, row.receipts[q], a)
  PROVE  /\ receipt.status # "none"
         /\ receipt.status \in Decided => receipt.completed # {}
         /\ Backed(q, receipt.completed, current[pub[w].at].report)
<1> DEFINE p == pub[w].at
           m == current[p]
           old == row.receipts[q]
           completed == (old.completed \ row.plan) \cup (row.plan \cap a.complete)
<1>1. /\ pub[w] \in Publisher /\ p \in Project /\ q \in Request
      /\ Visits(w, pub[w], state[p], m) /\ row \in StateManifest
      /\ current \in [Project -> CurrentManifest]
  BY AtWorkFacts DEF AtWork
<1>2. /\ Sound(p, row, m) /\ Carries(pub[w], row, state[p]) /\ OwnOf(pub[w])
      /\ SameReport(m, Written(w, pub[w], row.receipts))
  BY <1>1 DEF Visits
<1>3. row.last = q
  BY <1>2 DEF Carries
<1>4. old \in Receipt
  BY <1>1 DEF StateManifest
<1>5. Backed(q, old.completed, m.report) /\ Backed(q, row.plan \cap m.recent[q].complete, m.report)
  BY <1>1, <1>2, <1>3 DEF Sound
<1>6. CASE pub[w].result = "cached"
  <2>1. receipt = [old EXCEPT !.status = "reused"]
    BY <1>6 DEF Settle
  <2>2. receipt.status = "reused" /\ receipt.completed = old.completed
    BY <1>4, <2>1 DEF Receipt
  <2>3. old.completed # {}
    BY <1>2, <1>6 DEF Carries
  <2> QED BY <1>5, <2>2, <2>3
<1>7. CASE pub[w].result # "cached"
  <2>1. receipt = [old EXCEPT !.completed = completed,
                              !.status = IF completed = {} THEN "failed" ELSE "published"]
    BY <1>7 DEF Settle
  <2>2. receipt.completed = completed /\ receipt.status = IF completed = {} THEN "failed" ELSE "published"
    BY <1>4, <2>1 DEF Receipt
  <2>3. a.complete = {} \/ a.complete = m.recent[q].complete
    <3>1. CASE pub[w].result = "published"
      <4>1. a.complete = pub[w].complete
        BY <3>1 DEF Deciding
      <4>2. m.recent = [pub[w].read.recent EXCEPT ![q] = [run |-> w, complete |-> pub[w].complete]]
        <5>1. PublishedOf(pub[w])
          BY <1>2, <3>1 DEF PublishedOf
        <5>2. Written(w, pub[w], row.receipts).recent
                = [pub[w].read.recent EXCEPT ![pub[w].request] = [run |-> w, complete |-> pub[w].complete]]
          <6> DEFINE me == pub[w]
                     written == Written(w, me, row.receipts)
          <6>1. PublishedOf(me)
            BY <5>1
          <6> HIDE DEF me
          <6>2. written.recent = [me.read.recent EXCEPT ![me.request] = [run |-> w, complete |-> me.complete]]
            BY <6>1, WrittenFields
          <6> QED BY <6>2 DEF me
        <5>3. m.recent = Written(w, pub[w], row.receipts).recent
          BY <1>2 DEF SameReport
        <5> QED BY <5>2, <5>3
      <4>3. pub[w].read.recent \in [Request -> Attempt]
        BY <1>1 DEF Publisher, CurrentManifest
      <4> DEFINE log == pub[w].read.recent
                 done == pub[w].complete
      <4>4. q \in Request /\ log \in [Request -> Attempt] /\ m.recent = [log EXCEPT ![q] = [run |-> w, complete |-> done]]
        BY <1>1, <4>2, <4>3
      <4> HIDE DEF log, done, m
      <4>5. m.recent[q].complete = done
        BY <4>4
      <4> QED BY <4>1, <4>5 DEF done
    <3>2. CASE pub[w].result \in {"rejected", "unusable"}
      <4>1. a = NoAttempt
        BY <3>2 DEF Deciding
      <4> QED BY <4>1 DEF NoAttempt
    <3>3. CASE pub[w].result \notin {"published", "rejected", "unusable"}
      <4>1. a = Manifest(w, {}).recent[q]
        BY <1>7, <3>3 DEF Deciding, Earlier
      <4>2. m.recent = pub[w].read.recent /\ Manifest(w, {}).recent = pub[w].read.recent
        <5>1. ~PublishedOf(pub[w])
          BY <3>3 DEF PublishedOf
        <5>2. m.recent = pub[w].read.recent
          BY <1>2, <5>1 DEF Written, SameReport
        <5>3. Manifest(w, {}).recent = pub[w].read.recent
          BY <3>3 DEF Manifest, Published
        <5> QED BY <5>2, <5>3
      <4> QED BY <4>1, <4>2
    <3> QED BY <3>1, <3>2, <3>3
  <2>4. Backed(q, row.plan \cap a.complete, m.report)
    BY <1>5, <2>3 DEF Backed
  <2>5. Backed(q, completed, m.report)
    BY <1>5, <2>4 DEF Backed
  <2> HIDE DEF completed
  <2> QED BY <2>2, <2>5 DEF Decided
<1> QED BY <1>6, <1>7

LEMMA WriteReceiptsPass ==
  ASSUME PubInv, PassInv, NEW w \in Run, WriteReceipts(w), Carrying(w)
  PROVE  PassInv'
<1>1. PICK a \in Deciding(w) :
        /\ current' = [current EXCEPT ![pub[w].at] = Manifest(w, SettledReceipts(w, a))]
        /\ pub' = [pub EXCEPT ![w] = [pub[w] EXCEPT
             !.stage = "final", !.copy = [@ EXCEPT ![pub[w].at].receipts = SettledReceipts(w, a)]]]
  BY DEF WriteReceipts
<1> DEFINE q == pub[w].request
           p == pub[w].at
           m == current[p]
           row == pub[w].copy[p]
           receipts == SettledReceipts(w, a)
           receipt == Settle(w, row.receipts[q], a)
           m2 == Written(w, pub[w], receipts)
           marked == [row EXCEPT !.receipts = receipts]
           copy == [pub[w].copy EXCEPT ![p] = marked]
           r == [pub[w] EXCEPT !.stage = "final", !.copy = copy]
<1>2. pub[w].stage = "receipts"
  BY DEF WriteReceipts, At
<1>3. /\ Working(w) /\ pub[w] \in Publisher /\ p \in Project /\ q \in Request
      /\ p = q.project /\ p \notin overwritten /\ overwritten' = overwritten
      /\ p \notin pub[w].left /\ Visits(w, pub[w], state[p], m) /\ StoredWell(p)
      /\ pub \in [Run -> Publisher] /\ state \in [Project -> StateManifest]
      /\ current \in [Project -> CurrentManifest] /\ row \in StateManifest
  BY <1>2, AtWorkFacts DEF AtWork, WriteReceipts
<1>4. /\ Sound(p, row, m) /\ Carries(pub[w], row, state[p]) /\ OwnOf(pub[w])
      /\ SameReport(m, Written(w, pub[w], row.receipts))
  BY <1>2, <1>3 DEF Visits
<1>5. row.last = q /\ state[p].last = q
  BY <1>2, <1>4 DEF Carries
<1>6. row.receipts \in [Request -> Receipt] /\ Receipts(w) = row.receipts
  BY <1>3 DEF StateManifest, Receipts
<1>7. receipt \in Receipt
  BY <1>3, <1>6, DecidingType, SettleType DEF PubInv
<1>8. receipts = [row.receipts EXCEPT ![q] = receipt]
  BY <1>6 DEF SettledReceipts
<1>9. /\ receipt.status # "none"
      /\ receipt.status \in Decided => receipt.completed # {}
      /\ Backed(q, receipt.completed, m.report)
  BY <1>2, SettleBacked
<1> HIDE DEF receipt, receipts
<1>10. receipts \in [Request -> Receipt]
  BY <1>3, <1>6, <1>7, <1>8
<1>11. /\ marked \in StateManifest /\ marked.last = row.last /\ marked.plan = row.plan
       /\ marked.receipts = receipts
  BY <1>3, <1>10 DEF StateManifest
<1> HIDE DEF marked
<1>12. Sound(p, marked, m)
  <2>1. Backed(row.last, receipt.completed, m.report) /\ row \in StateManifest /\ row.last \in Request
    BY <1>3, <1>5, <1>9
  <2>2. marked.receipts = [row.receipts EXCEPT ![row.last] = receipt]
    BY <1>5, <1>8, <1>11
  <2> HIDE DEF row, m
  <2> QED BY <1>4, <1>9, <1>11, <2>1, <2>2, SoundMarked
<1>13. m2.report = m.report /\ m2.by = m.by /\ m2.recent = m.recent /\ m2.receipts = receipts
  BY <1>4 DEF Written, SameReport
<1>14. Sound(p, marked, m2) /\ Sound(p, state[p], m2)
  BY <1>3, <1>12, <1>13 DEF Sound, StoredWell
<1>15. Truthful(m2)
  BY <1>11, <1>13, <1>14, SoundTruthful
<1>16. /\ copy \in [Project -> StateManifest] /\ copy[p] = marked
       /\ \A x \in Project \ {p} : copy[x] = pub[w].copy[x]
  BY <1>3, <1>11 DEF Publisher
<1>17. /\ state' = [state EXCEPT ![p] = state[p]] /\ current' = [current EXCEPT ![p] = m2]
       /\ pub' = [pub EXCEPT ![w] = r]
  BY <1>1, <1>3, ManifestWritten DEF WriteReceipts, receipts, marked
<1> HIDE DEF copy, m2
<1>18. r \in Publisher
  BY <1>3, <1>16 DEF Publisher, Stage
<1>19. /\ r.request = q /\ r.channels = pub[w].channels /\ r.stage = "final" /\ r.at = p
       /\ r.left = pub[w].left /\ r.copy = copy /\ r.result = pub[w].result
  BY <1>3 DEF Publisher
<1> HIDE DEF r
<1>20. Carries(r, marked, state[p])
  <2>1. row.plan = state[p].plan
    BY <1>2, <1>4 DEF Carries
  <2>2. r.result = "cached" => marked.receipts[q].completed # {}
    <3> SUFFICES ASSUME pub[w].result = "cached" PROVE marked.receipts[q].completed # {}
      BY <1>19
    <3>1. row.receipts[q].completed # {}
      BY <1>4 DEF Carries
    <3>2. row.receipts[q] \in Receipt
      BY <1>3, <1>6
    <3>3. receipt.completed = row.receipts[q].completed
      BY <3>2 DEF receipt, Settle, Receipt
    <3> QED BY <1>3, <1>6, <1>8, <1>11, <3>1, <3>3
  <2> QED BY <1>4, <1>5, <1>11, <1>19, <2>1, <2>2 DEF Carries, OwnOf
<1>21. Visits(w, r, state[p], m2)
  BY <1>14, <1>16, <1>19, <1>20 DEF Visits
<1>22. \A x \in r.left : r.copy[x] = pub[w].copy[x]
  BY <1>3, <1>16, <1>19 DEF Publisher
<1> HIDE DEF p, q, m, row
<1> QED BY <1>3, <1>13, <1>14, <1>15, <1>17, <1>18, <1>19, <1>21, <1>22, PassStep DEF q, m

LEMMA SaveFinalPass ==
  ASSUME PubInv, PassInv, NEW w \in Run, SaveFinal(w), Carrying(w)
  PROVE  PassInv'
<1> DEFINE p == pub[w].at
           m == current[p]
           row == pub[w].copy[p]
           stage == IF pub[w].left = {} THEN "done" ELSE "next"
           copy == [pub[w].copy EXCEPT ![p] = NewState]
           r == [pub[w] EXCEPT !.stage = stage, !.at = NoRun, !.copy = copy,
                               !.read = NewCurrent, !.next = Blank]
<1>1. pub[w].stage = "final"
  BY DEF SaveFinal, At
<1>2. /\ Working(w) /\ pub[w] \in Publisher /\ p \in Project
      /\ p = pub[w].request.project /\ p \notin overwritten
      /\ p \notin pub[w].left /\ Visits(w, pub[w], state[p], m) /\ StoredWell(p)
      /\ pub \in [Run -> Publisher] /\ state \in [Project -> StateManifest]
      /\ current \in [Project -> CurrentManifest]
  BY <1>1, AtWorkFacts DEF AtWork
<1>3. Sound(p, row, m) /\ Carries(pub[w], row, state[p])
  BY <1>2 DEF Visits
<1>4. row.last \in Request => row.last \in {pub[w].request, state[p].last}
  BY <1>3 DEF Carries
<1>5. state' = [state EXCEPT ![p] = row] /\ current' = [current EXCEPT ![p] = m]
      /\ pub' = [pub EXCEPT ![w] = r]
  BY <1>2 DEF SaveFinal
<1>6. /\ copy \in [Project -> StateManifest]
      /\ \A x \in Project \ {p} : copy[x] = pub[w].copy[x]
  BY <1>2, BlankTypes DEF Publisher
<1>7. stage \in {"done", "next"}
  OBVIOUS
<1> HIDE DEF copy, stage
<1>8. r \in Publisher
  BY <1>2, <1>6, <1>7, BlankTypes DEF Publisher, Stage
<1>9. /\ r.request = pub[w].request /\ r.channels = pub[w].channels /\ r.stage = stage
      /\ r.at = NoRun /\ r.left = pub[w].left /\ r.copy = copy
  BY <1>2 DEF Publisher
<1> HIDE DEF r
<1>10. r.left \subseteq Project /\ r.at \notin r.left
  BY <1>2, <1>9, RequestAssumption DEF Publisher
<1>11. \A x \in r.left : r.copy[x] = pub[w].copy[x]
  BY <1>2, <1>6, <1>9, <1>10
<1>12. Truthful(m) /\ r.stage \notin AtWork
  BY <1>2, <1>7, <1>9 DEF StoredWell, AtWork
<1>13. overwritten' = overwritten
  BY NotLate DEF SaveFinal
<1>14. p \notin r.left
  BY <1>2, <1>9
<1> HIDE DEF p, m, row
<1> QED BY <1>2, <1>3, <1>4, <1>5, <1>8, <1>9, <1>10, <1>11, <1>12, <1>13, <1>14, PassStep DEF m

(* How a step of a visit moves the publisher.                                *)
Moved(w, p) ==
  /\ \A u \in Run \ {w} : pub'[u] = pub[u]
  /\ pub'[w].request = pub[w].request /\ pub'[w].channels = pub[w].channels
  /\ pub'[w].left = pub[w].left
  /\ pub'[w].at = p \/ (pub'[w].at = NoRun /\ pub'[w].stage \notin AtWork)
  /\ \A x \in Project \ {p} : pub'[w].copy[x] = pub[w].copy[x]
LEMMA VisitMoves ==
  ASSUME pub \in [Run -> Publisher], NEW w \in Run, NEW p \in Project, p = pub[w].at,
         SaveState(w) \/ Read(w) \/ Collect(w) \/ CollectFails(w) \/ WriteReport(w)
           \/ WriteReceipts(w) \/ SaveFinal(w)
  PROVE  Moved(w, p)
<1>1. pub[w] \in Publisher
  OBVIOUS
<1>2. CASE SaveState(w)
  <2> DEFINE copy == [pub[w].copy EXCEPT ![p].receipts = CollectedReceipts(w)]
             r == [pub[w] EXCEPT !.stage = "read", !.copy = copy]
  <2>1. \A x \in Project \ {p} : copy[x] = pub[w].copy[x]
    BY <1>1 DEF Publisher
  <2> HIDE DEF copy
  <2>2. pub' = [pub EXCEPT ![w] = r]
    BY <1>2 DEF SaveState, copy
  <2>3. /\ r.request = pub[w].request /\ r.channels = pub[w].channels /\ r.left = pub[w].left
        /\ r.at = p /\ r.copy = copy
    BY <1>1 DEF Publisher
  <2> QED BY <2>1, <2>2, <2>3 DEF Moved
<1>3. CASE Read(w)
  BY <1>1, <1>3 DEF Read, Moved, Publisher
<1>4. CASE Collect(w)
  <2>1. CASE ~Publishable(w, pub[w].copy[p].plan)
    BY <1>1, <1>4, <2>1 DEF Collect, Moved, Publisher
  <2>2. CASE Publishable(w, pub[w].copy[p].plan)
    <3> DEFINE report == NextReport(w, pub[w].copy[p].plan)
               r == [pub[w] EXCEPT !.next = report, !.result = "published", !.stage = "report"]
    <3>1. pub' = [pub EXCEPT ![w] = r]
      BY <1>4, <2>2 DEF Collect
    <3> HIDE DEF report
    <3>2. /\ r.request = pub[w].request /\ r.channels = pub[w].channels /\ r.left = pub[w].left
          /\ r.at = p /\ r.copy = pub[w].copy
      BY <1>1 DEF Publisher
    <3> HIDE DEF r
    <3> QED BY <3>1, <3>2 DEF Moved
  <2> QED BY <2>1, <2>2
<1>5. CASE CollectFails(w)
  BY <1>1, <1>5 DEF CollectFails, Moved, Publisher
<1>6. CASE WriteReport(w)
  BY <1>1, <1>6 DEF WriteReport, Moved, Publisher
<1>7. CASE WriteReceipts(w)
  <2>1. PICK a \in Deciding(w) :
          pub' = [pub EXCEPT ![w] = [pub[w] EXCEPT
             !.stage = "final", !.copy = [@ EXCEPT ![pub[w].at].receipts = SettledReceipts(w, a)]]]
    BY <1>7 DEF WriteReceipts
  <2> DEFINE copy == [pub[w].copy EXCEPT ![p].receipts = SettledReceipts(w, a)]
             r == [pub[w] EXCEPT !.stage = "final", !.copy = copy]
  <2>2. \A x \in Project \ {p} : copy[x] = pub[w].copy[x]
    BY <1>1 DEF Publisher
  <2> HIDE DEF copy
  <2>3. pub' = [pub EXCEPT ![w] = r]
    BY <2>1 DEF copy
  <2>4. /\ r.request = pub[w].request /\ r.channels = pub[w].channels /\ r.left = pub[w].left
        /\ r.at = p /\ r.copy = copy
    BY <1>1 DEF Publisher
  <2> QED BY <2>2, <2>3, <2>4 DEF Moved
<1>8. CASE SaveFinal(w)
  <2> DEFINE stage == IF pub[w].left = {} THEN "done" ELSE "next"
             copy == [pub[w].copy EXCEPT ![p] = NewState]
             r == [pub[w] EXCEPT !.stage = stage, !.at = NoRun, !.copy = copy,
                                 !.read = NewCurrent, !.next = Blank]
  <2>1. \A x \in Project \ {p} : copy[x] = pub[w].copy[x]
    BY <1>1 DEF Publisher
  <2>2. stage \notin AtWork
    BY DEF AtWork
  <2> HIDE DEF copy, stage
  <2>3. pub' = [pub EXCEPT ![w] = r]
    BY <1>8 DEF SaveFinal, copy, stage
  <2>4. /\ r.request = pub[w].request /\ r.channels = pub[w].channels /\ r.left = pub[w].left
        /\ r.at = NoRun /\ r.copy = copy /\ r.stage = stage
    BY <1>1 DEF Publisher
  <2> QED BY <2>1, <2>2, <2>3, <2>4 DEF Moved
<1> QED BY <1>2, <1>3, <1>4, <1>5, <1>6, <1>7, <1>8

(* The steps of a publisher on a project that is not its own, or that was    *)
(* written back late.                                                        *)
LEMMA ElsePass ==
  ASSUME PubInv, PubInv', PassInv, NEW w \in Run, pub[w].stage \in AtWork, ~Carrying(w),
         SaveState(w) \/ Read(w) \/ Collect(w) \/ CollectFails(w) \/ WriteReport(w)
           \/ WriteReceipts(w) \/ SaveFinal(w)
  PROVE  PassInv'
<1> DEFINE p == pub[w].at
<1>1. /\ Working(w) /\ p \in Project /\ p \notin pub[w].left /\ Plain(pub[w])
      /\ pub \in [Run -> Publisher] /\ pub[w] \in Publisher /\ state \in [Project -> StateManifest]
      /\ current \in [Project -> CurrentManifest]
  <2>1. Working(w) /\ Placed(w) /\ Pass(w)
    BY DEF Working, AtWork, PubInv, PassInv
  <2> QED BY <2>1, PublisherFields DEF PubInv, PublicationTypeOK, Placed, Pass
<1>2. /\ \A u \in Run \ {w} : pub'[u] = pub[u]
      /\ pub'[w].request = pub[w].request /\ pub'[w].channels = pub[w].channels
      /\ pub'[w].left = pub[w].left
  BY <1>1, VisitMoves DEF Moved
<1>3. pub'[w].at = p \/ (pub'[w].at = NoRun /\ pub'[w].stage \notin AtWork)
  BY <1>1, VisitMoves DEF Moved
<1>4. \A x \in pub'[w].left : pub'[w].copy[x] = pub[w].copy[x]
  <2>1. \A x \in Project \ {p} : pub'[w].copy[x] = pub[w].copy[x]
    BY <1>1, VisitMoves DEF Moved
  <2>2. pub'[w].left \subseteq Project \ {p}
    BY <1>1, <1>2 DEF Publisher
  <2> QED BY <2>1, <2>2
<1>5. \A x \in Project \ {p} : state'[x] = state[x] /\ current'[x] = current[x]
  BY <1>1 DEF SaveState, Read, Collect, CollectFails, WriteReport, WriteReceipts, SaveFinal
<1>6. overwritten \subseteq overwritten' /\ overwritten' \subseteq overwritten \cup {p}
  BY DEF SaveState, Read, Collect, CollectFails, WriteReport, WriteReceipts, SaveFinal, WritesBack
<1>7. Plain(pub'[w])
  <2> SUFFICES ASSUME ~OwnOf(pub'[w])
               PROVE  /\ pub'[w].stage \notin {"collect", "receipts"}
                      /\ pub'[w].stage = "report" => pub'[w].next = pub'[w].read.report
    BY DEF Plain
  <2>1. CASE pub'[w].at # p
    BY <1>3, <2>1 DEF AtWork
  <2>2. CASE pub'[w].at = p
    <3>1. ~Own(w)
      BY <1>2, <2>2 DEF Own, OwnOf
    <3>2. pub[w].stage \notin {"collect", "receipts"} /\ (pub[w].stage = "report" => pub[w].next = pub[w].read.report)
      BY <1>1, <3>1 DEF Plain, Own, OwnOf
    <3>3. ~Collect(w) /\ ~CollectFails(w) /\ ~WriteReceipts(w)
      BY <3>2 DEF Collect, CollectFails, WriteReceipts, At
    <3>4. CASE SaveState(w)
      BY <1>1, <3>4 DEF SaveState, Publisher
    <3>5. CASE Read(w)
      BY <1>1, <3>1, <3>5 DEF Read, Publisher
    <3>6. CASE WriteReport(w)
      BY <1>1, <3>1, <3>6 DEF WriteReport, Publisher
    <3>7. CASE SaveFinal(w)
      <4>1. pub'[w].at = NoRun
        BY <1>1, <3>7 DEF SaveFinal, Publisher
      <4> QED BY <1>1, <2>2, <4>1, RequestAssumption
    <3> QED BY <3>3, <3>4, <3>5, <3>6, <3>7
  <2> QED BY <2>1, <2>2
<1>8. ASSUME p \notin overwritten'
      PROVE  /\ p # pub[w].request.project
             /\ state'[p] = state[p] /\ SameReport(current'[p], current[p])
             /\ current'[p].receipts \in {current[p].receipts, state[p].receipts}
  <2>1. ~Own(w)
    BY <1>6, <1>8 DEF Carrying
  <2>2. pub[w].stage \notin {"collect", "receipts"} /\ (pub[w].stage = "report" => pub[w].next = pub[w].read.report)
    BY <1>1, <2>1 DEF Plain, Own, OwnOf
  <2>3. ~Collect(w) /\ ~CollectFails(w) /\ ~WriteReceipts(w)
    BY <2>2 DEF Collect, CollectFails, WriteReceipts, At
  <2>4. WritesBack(w) => pub[w].copy[p] = state[p] /\ (pub[w].stage = "report" => pub[w].read = current[p])
    BY <1>8, <2>1 DEF WritesBack, Late
  <2>5. CASE SaveState(w) \/ SaveFinal(w)
    <3>1. current' = current /\ state'[p] = pub[w].copy[p]
      BY <1>1, <2>5 DEF SaveState, SaveFinal
    <3>2. WritesBack(w)
      BY <2>5 DEF SaveState, SaveFinal
    <3> QED BY <2>1, <2>4, <3>1, <3>2 DEF Own, SameReport
  <2>6. CASE Read(w)
    BY <2>1, <2>6 DEF Read, Own, SameReport
  <2>7. CASE WriteReport(w)
    <3>1. state' = state /\ current'[p] = Manifest(w, Receipts(w)) /\ WritesBack(w) /\ pub[w].stage = "report"
      BY <1>1, <2>7 DEF WriteReport, At
    <3>2. pub[w].copy[p] = state[p] /\ pub[w].read = current[p] /\ pub[w].next = current[p].report
      BY <2>2, <2>4, <3>1
    <3>3. /\ Manifest(w, Receipts(w)).report = pub[w].next
          /\ Manifest(w, Receipts(w)).by = pub[w].read.by
          /\ Manifest(w, Receipts(w)).recent = pub[w].read.recent
          /\ Manifest(w, Receipts(w)).receipts = pub[w].copy[p].receipts
      BY <2>1 DEF Manifest, Published, Receipts
    <3> QED BY <2>1, <3>1, <3>2, <3>3 DEF Own, SameReport
  <2> QED BY <2>3, <2>5, <2>6, <2>7
<1>9. pub'[w].at \notin pub'[w].left
  BY <1>1, <1>2, <1>3, RequestAssumption DEF Publisher
<1>10. pub'[w].stage \in AtWork => pub'[w].at = p
  BY <1>3
<1> HIDE DEF p
<1> QED BY <1>1, <1>2, <1>4, <1>5, <1>6, <1>7, <1>8, <1>9, <1>10, ElseStep

LEMMA VisitStartPass ==
  ASSUME PubInv, PubInv', PassInv, NEW w \in Run,
         \/ \E p \in Project : VisitOther(w, p)
         \/ Plan(w) /\ pub[w].request.project \in overwritten
  PROVE  PassInv'
<1>1. PICK p \in pub[w].left :
        \/ VisitOther(w, p)
        \/ Plan(w) /\ p = pub[w].request.project /\ p \in overwritten
  BY DEF VisitOther, Plan
<1>2. /\ Working(w) /\ p \in Project /\ pub \in [Run -> Publisher] /\ pub[w] \in Publisher
  <2>1. pub[w].stage = "next"
    BY DEF VisitOther, Plan, At
  <2> QED BY <2>1, PublisherFields DEF Working, PubInv, PublicationTypeOK
<1>3. UNCHANGED <<state, current, overwritten>>
  BY <1>1 DEF VisitOther, Plan
<1>4. /\ \A u \in Run \ {w} : pub'[u] = pub[u]
      /\ pub'[w].request = pub[w].request /\ pub'[w].channels = pub[w].channels
      /\ pub'[w].left = pub[w].left \ {p} /\ pub'[w].at = p /\ pub'[w].stage = "state"
      /\ \A x \in Project \ {p} : pub'[w].copy[x] = pub[w].copy[x]
  <2>1. CASE VisitOther(w, p)
    BY <1>2, <2>1 DEF VisitOther, Publisher
  <2>2. CASE Plan(w) /\ p = pub[w].request.project
    <3> DEFINE kept == [Row(w) EXCEPT !.refresh = @ /\ PlanResult(w) # "collecting"]
               copy == [pub[w].copy EXCEPT ![p] = kept]
               r == [pub[w] EXCEPT !.at = p, !.left = @ \ {p}, !.stage = "state",
                                   !.result = PlanResult(w), !.busy = FALSE, !.copy = copy]
    <3>1. \A x \in Project \ {p} : copy[x] = pub[w].copy[x]
      BY <1>2 DEF Publisher
    <3> HIDE DEF kept
    <3>2. pub' = [pub EXCEPT ![w] = r]
      BY <2>2 DEF Plan, Planned, kept
    <3> HIDE DEF copy
    <3>3. /\ r.request = pub[w].request /\ r.channels = pub[w].channels
          /\ r.left = pub[w].left \ {p} /\ r.at = p /\ r.stage = "state" /\ r.copy = copy
      BY <1>2 DEF Publisher
    <3> QED BY <1>2, <3>1, <3>2, <3>3
  <2> QED BY <1>1, <2>1, <2>2
<1>5. \A x \in pub'[w].left : pub'[w].copy[x] = pub[w].copy[x]
  BY <1>2, <1>4 DEF Publisher
<1>6. p \in overwritten \/ p # pub[w].request.project
  BY <1>1 DEF VisitOther
<1> QED BY <1>2, <1>3, <1>4, <1>5, <1>6, ElseStep DEF Plain, SameReport

LEMMA StepPass == PubInv /\ PubInv' /\ PassInv /\ [PublicationNext]_pubVars => PassInv'
<1> SUFFICES ASSUME PubInv, PubInv', PassInv, [PublicationNext]_pubVars PROVE PassInv'
  OBVIOUS
<1>1. CASE UNCHANGED pubVars
  BY <1>1 DEF pubVars, queueVars, PassInv, Apart, StoredWell, Begun, Pass, Newest, Working, Faithful, Own
<1>2. CASE PublicationNext
  <2>1. PICK w \in Run : PublicationStep(w)
    BY <1>2 DEF PublicationNext
  <2>2. CASE (\E q \in Request : Begin(w, q)) \/ End(w)
    BY <2>2, BeginPass, EndPass
  <2>3. CASE (\E p \in Project : VisitOther(w, p)) \/ Plan(w)
    BY <2>3, VisitStartPass, PlanPass
  <2>4. CASE SaveState(w) \/ Read(w) \/ Collect(w) \/ CollectFails(w) \/ WriteReport(w)
               \/ WriteReceipts(w) \/ SaveFinal(w)
    <3>1. pub[w].stage \in AtWork
      BY <2>4 DEF SaveState, Read, Collect, CollectFails, WriteReport, WriteReceipts, SaveFinal, At, AtWork
    <3>2. CASE Carrying(w)
      BY <2>4, <3>2, SaveStatePass, ReadPass, CollectPass, CollectFailsPass, WriteReportPass,
         WriteReceiptsPass, SaveFinalPass
    <3>3. CASE ~Carrying(w)
      BY <2>4, <3>1, <3>3, ElsePass
    <3> QED BY <3>2, <3>3
  <2> QED BY <2>1, <2>2, <2>3, <2>4 DEF PublicationStep
<1> QED BY <1>1, <1>2

LEMMA AlwaysPass == PublicationSpec => []PassInv
<1> QED BY InitPass, StepPass, AlwaysPubInv, PTL DEF PublicationSpec

(* Until another project's publisher writes a project's manifests back late, *)
(* the receipt of its newest request never calls a channel completed that    *)
(* its report does not show, whichever step of whichever pass died before    *)
(* and however many publishers of other projects are at work.                *)
THEOREM ReceiptsAreTruthful == PublicationSpec => []ReceiptsTruthful
<1>1. ASSUME PassInv PROVE ReceiptsTruthful
  <2>1. \A p \in Project \ overwritten : Truthful(current[p])
    BY <1>1 DEF PassInv, StoredWell
  <2>2. SUFFICES ASSUME NEW p \in Project \ overwritten, NEW q \in Request,
                        current[p].receipts[q].status \in {"published", "reused"},
                        \A r \in Request : current[p].receipts[r].status # "none" => r.order <= q.order
                 PROVE  /\ current[p].receipts[q].completed \subseteq Complete(current[p].report)
                        /\ current[p].report.revision = q.revision
    BY DEF ReceiptsTruthful
  <2>3. IsNewest(q, current[p])
    BY <2>2 DEF IsNewest
  <2> QED BY <2>1, <2>2, <2>3 DEF Truthful, Decided, Backed
<1> QED BY <1>1, AlwaysPass, PTL

-----------------------------------------------------------------------------
(* The ledger.                                                               *)

EntryOf(m) == [order |-> OrderOf(m), revision |-> m.report.revision, complete |-> Complete(m.report)]
Entries == [p \in Project |-> EntryOf(current[p])]

\* What WriteReport does to the ledger's entry of the publisher's own project.
LEMMA WriteReportRecords ==
  ASSUME PubInv, PassInv, NEW w \in Run, WriteReport(w), Carrying(w)
  PROVE  \/ \A p \in Project : current'[p].report = current[p].report /\ current'[p].by = current[p].by
         \/ \E p \in Project, m2 \in CurrentManifest :
              /\ current' = [current EXCEPT ![p] = m2]
              /\ EntryOf(m2) \in [order : Nat, revision : Revision, complete : (SUBSET Channel) \ {{}}]
              /\ OrderOf(m2) >= OrderOf(current[p])
              /\ m2.report.revision = current[p].report.revision =>
                   Complete(current[p].report) \subseteq Complete(m2.report)
<1> DEFINE q == pub[w].request
           p == pub[w].at
           m == current[p]
           m2 == Manifest(w, Receipts(w))
<1>1. pub[w].stage = "report"
  BY DEF WriteReport, At
<1>2. /\ pub[w] \in Publisher /\ p \in Project /\ q \in Request
      /\ p = q.project /\ p \notin overwritten
      /\ Visits(w, pub[w], state[p], m) /\ StoredWell(p)
      /\ current \in [Project -> CurrentManifest]
  BY <1>1, AtWorkFacts DEF AtWork
<1>3. current' = [current EXCEPT ![p] = m2]
  BY DEF WriteReport
<1>4. m2 \in CurrentManifest
  BY <1>2, ReceiptsType, ManifestType DEF PubInv
<1>5. m2.report = pub[w].next /\ m2.by = IF PublishedOf(pub[w]) THEN q ELSE pub[w].read.by
  BY DEF Manifest, Published, Own, PublishedOf, OwnOf
<1>6. /\ SameReport(pub[w].read, m)
      /\ PublishedOf(pub[w]) => Ripe(q, m.report, pub[w].copy[p].plan, pub[w].complete, pub[w].next)
      /\ ~PublishedOf(pub[w]) => pub[w].next = m.report
  BY <1>1, <1>2 DEF Visits
<1> HIDE DEF m2
<1>7. CASE ~PublishedOf(pub[w])
  BY <1>2, <1>3, <1>5, <1>6, <1>7 DEF SameReport
<1>8. CASE PublishedOf(pub[w])
  <2>1. Ripe(q, m.report, pub[w].copy[p].plan, pub[w].complete, m2.report) /\ m2.by = q
    BY <1>5, <1>6, <1>8
  <2>2. OrderOf(m2) = q.order /\ q.order \in Nat /\ q.revision \in Revision
    BY <1>2, <2>1, RequestAssumption DEF OrderOf
  <2>3. Complete(m2.report) \in (SUBSET Channel) \ {{}}
    BY <2>1 DEF Ripe, Complete
  <2>4. EntryOf(m2) \in [order : Nat, revision : Revision, complete : (SUBSET Channel) \ {{}}]
    BY <2>1, <2>2, <2>3 DEF EntryOf, Ripe
  <2>5. OrderOf(m2) >= OrderOf(m)
    <3>1. CASE m.by = NoRequest
      BY <2>2, <3>1 DEF OrderOf
    <3>2. CASE m.by # NoRequest
      <4>1. m.by \in Request /\ m.by.order \in Nat
        BY <1>2, <3>2, RequestAssumption DEF CurrentManifest
      <4>2. PICK u \in Run : pub[u].request = m.by
        BY <1>2, <4>1 DEF StoredWell, Begun
      <4>3. m.by.project = q.project
        BY <1>2, <1>8, <4>1 DEF StoredWell, PublishedOf, OwnOf
      <4>4. Working(w) /\ Pass(w)
        BY <1>1, AtWorkFacts DEF AtWork, PassInv
      <4>5. m.by.order <= q.order
        BY <4>1, <4>2, <4>3, <4>4 DEF Pass, Newest
      <4> QED BY <2>2, <3>2, <4>1, <4>5 DEF OrderOf
    <3> QED BY <3>1, <3>2
  <2>6. m2.report.revision = m.report.revision => Complete(m.report) \subseteq Complete(m2.report)
    BY <2>1 DEF Ripe
  <2> QED BY <1>2, <1>3, <1>4, <2>4, <2>5, <2>6
<1> QED BY <1>7, <1>8

\* No other step changes an entry, but for that of a project written back late.
Untouched(p) == current'[p].report = current[p].report /\ current'[p].by = current[p].by
LEMMA ReceiptsKept ==
  ASSUME PubInv, PassInv, NEW w \in Run, WriteReceipts(w), Carrying(w)
  PROVE  \A p \in Project : Untouched(p)
<1>1. CASE WriteReceipts(w)
  <2>1. PICK a \in Deciding(w) : current' = [current EXCEPT ![pub[w].at] = Manifest(w, SettledReceipts(w, a))]
    BY <1>1 DEF WriteReceipts
  <2> DEFINE m == current[pub[w].at]
             row == pub[w].copy[pub[w].at]
  <2>2. pub[w].stage = "receipts"
    BY <1>1 DEF WriteReceipts, At
  <2>3. /\ pub[w].at \in Project /\ Visits(w, pub[w], state[pub[w].at], m)
        /\ current \in [Project -> CurrentManifest]
    BY <2>2, AtWorkFacts DEF AtWork
  <2>4. SameReport(m, Written(w, pub[w], row.receipts))
    BY <2>2, <2>3 DEF Visits
  <2>5. /\ Written(w, pub[w], SettledReceipts(w, a)).report = m.report
        /\ Written(w, pub[w], SettledReceipts(w, a)).by = m.by
    BY <2>4 DEF Written, SameReport
  <2> QED BY <2>1, <2>3, <2>5, ManifestWritten DEF Untouched
<1> QED BY <1>1

\* What a step does to the entry of the project visited: it is kept, recorded or
\* overwritten, and every other entry is kept.
Recorded(p) ==
  /\ UNCHANGED overwritten /\ p \notin overwritten
  /\ \E m \in CurrentManifest :
       /\ current' = [current EXCEPT ![p] = m]
       /\ EntryOf(m) \in [order : Nat, revision : Revision, complete : (SUBSET Channel) \ {{}}]
       /\ OrderOf(m) >= OrderOf(current[p])
       /\ m.report.revision = current[p].report.revision => Complete(current[p].report) \subseteq Complete(m.report)
LEMMA WhatChanges ==
  ASSUME PubInv, PubInv', PassInv, NEW w \in Run, PublicationStep(w)
  PROVE  \/ UNCHANGED overwritten /\ \A x \in Project : Untouched(x)
         \/ \E p \in Project : Recorded(p)
         \/ \E p \in Project : /\ overwritten' = overwritten \cup {p}
                               /\ \A x \in Project \ {p} : Untouched(x)
<1>1. CASE ~(SaveState(w) \/ WriteReport(w) \/ WriteReceipts(w) \/ SaveFinal(w))
  BY <1>1 DEF PublicationStep, Begin, VisitOther, Plan, Read, Collect, CollectFails, End, Untouched
<1>2. CASE SaveState(w) \/ WriteReport(w) \/ WriteReceipts(w) \/ SaveFinal(w)
  <2> DEFINE p == pub[w].at
  <2>1. pub[w].stage \in AtWork /\ Working(w)
    BY <1>2 DEF SaveState, WriteReport, WriteReceipts, SaveFinal, At, AtWork, Working
  <2>2. p \in Project /\ current \in [Project -> CurrentManifest] /\ Pass(w)
    BY <2>1 DEF PubInv, Placed, PublicationTypeOK, PassInv
  <2>3. \A x \in Project \ {p} : Untouched(x)
    BY <1>2, <2>2 DEF SaveState, WriteReport, WriteReceipts, SaveFinal, Untouched
  <2>4. CASE Carrying(w)
    <3>1. UNCHANGED overwritten
      BY <1>2, <2>4, NotLate DEF SaveState, WriteReport, WriteReceipts, SaveFinal
    <3>2. CASE SaveState(w) \/ SaveFinal(w)
      BY <3>1, <3>2 DEF SaveState, SaveFinal, Untouched
    <3>3. CASE WriteReceipts(w)
      BY <2>4, <3>1, <3>3, ReceiptsKept
    <3>4. CASE WriteReport(w)
      <4>1. p \notin overwritten
        BY <2>4 DEF Carrying
      <4>2. (\A x \in Project : Untouched(x)) \/ \E x \in Project : Recorded(x)
        <5>1. CASE \A x \in Project : Untouched(x)
          BY <5>1
        <5>2. CASE ~\A x \in Project : Untouched(x)
          <6>1. PICK x \in Project, m2 \in CurrentManifest :
                  /\ current' = [current EXCEPT ![x] = m2]
                  /\ EntryOf(m2) \in [order : Nat, revision : Revision, complete : (SUBSET Channel) \ {{}}]
                  /\ OrderOf(m2) >= OrderOf(current[x])
                  /\ m2.report.revision = current[x].report.revision =>
                       Complete(current[x].report) \subseteq Complete(m2.report)
            BY <2>4, <3>4, <5>2, WriteReportRecords DEF Untouched
          <6>2. x = p
            <7>1. \A y \in Project \ {x} : Untouched(y)
              BY <2>2, <6>1 DEF Untouched
            <7>2. PICK z \in Project : ~Untouched(z)
              BY <5>2
            <7> QED BY <2>3, <7>1, <7>2
          <6> QED BY <3>1, <4>1, <6>1, <6>2 DEF Recorded
        <5> QED BY <5>1, <5>2
      <4> QED BY <3>1, <4>2
    <3> QED BY <1>2, <3>2, <3>3, <3>4
  <2>5. CASE ~Carrying(w) /\ p \in overwritten'
    <3>1. overwritten' = overwritten \cup {p}
      BY <1>2, <2>5 DEF SaveState, WriteReport, WriteReceipts, SaveFinal, WritesBack
    <3> QED BY <2>2, <2>3, <3>1
  <2>6. CASE ~Carrying(w) /\ p \notin overwritten'
    <3>1. ~Own(w) /\ ~Late(w) /\ UNCHANGED overwritten
      <4>1. overwritten \subseteq overwritten'
        BY <1>2 DEF SaveState, WriteReport, WriteReceipts, SaveFinal, WritesBack
      <4>2. ~Own(w)
        BY <2>6, <4>1 DEF Carrying
      <4>3. ~WriteReceipts(w)
        BY <2>1, <2>2, <4>2 DEF WriteReceipts, At, Pass, Plain, OwnOf, Own
      <4> QED BY <1>2, <2>6, <4>2, <4>3 DEF SaveState, WriteReport, SaveFinal, WritesBack
    <3>2. CASE WriteReport(w)
      <4>1. pub[w].read = current[p] /\ pub[w].next = pub[w].read.report
        BY <2>1, <2>2, <3>1, <3>2 DEF WriteReport, At, Late, Pass, Plain, OwnOf, Own
      <4>2. current'[p] = Manifest(w, Receipts(w))
        BY <2>2, <3>2 DEF WriteReport
      <4>3. Untouched(p)
        BY <3>1, <4>1, <4>2 DEF Untouched, Manifest, Published
      <4> QED BY <2>3, <3>1, <4>3
    <3>3. CASE ~WriteReport(w)
      <4>1. ~WriteReceipts(w)
        BY <2>1, <2>2, <3>1 DEF WriteReceipts, At, Pass, Plain, OwnOf, Own
      <4>2. UNCHANGED current
        BY <1>2, <3>3, <4>1 DEF SaveState, SaveFinal
      <4> QED BY <3>1, <4>2 DEF Untouched
    <3> QED BY <3>2, <3>3
  <2> QED BY <2>4, <2>5, <2>6
<1> QED BY <1>1, <1>2

LEMMA LedgerStarts == PublicationInit => Ledger!LedgerInit
<1> SUFFICES ASSUME PublicationInit PROVE Ledger!LedgerInit
  OBVIOUS
<1>1. ASSUME NEW p \in Project
      PROVE  current[p].by = NoRequest /\ current[p].report = Blank
  BY DEF PublicationInit, NewCurrent
<1>2. Blank.revision = NoRevision /\ Complete(Blank) = {}
  BY DEF Blank, Complete
<1>3. ASSUME NEW p \in Project
      PROVE  /\ OrderOf(current[p]) = 0 /\ current[p].report.revision = NoRevision
             /\ Complete(current[p].report) = {}
  BY <1>1, <1>2 DEF OrderOf
<1> QED BY <1>3 DEF PublicationInit, Ledger!LedgerInit, Ledger!Empty

LEMMA EntriesKept ==
  ASSUME \A p \in Project : Untouched(p)
  PROVE  Entries' = Entries
<1>1. ASSUME NEW p \in Project PROVE EntryOf(current'[p]) = EntryOf(current[p])
  BY DEF EntryOf, OrderOf, Untouched
<1> QED BY <1>1 DEF Entries, EntryOf, OrderOf

\* The ledger's entry of one project changes to that of m2.
LEMMA EntryRecorded ==
  ASSUME PubInv, NEW p \in Project, NEW m2 \in CurrentManifest,
         current' = [current EXCEPT ![p] = m2]
  PROVE  Entries' = [Entries EXCEPT ![p] = EntryOf(m2)]
<1>1. current \in [Project -> CurrentManifest]
  BY DEF PubInv, PublicationTypeOK
<1>2. current'[p] = m2 /\ \A x \in Project \ {p} : current'[x] = current[x]
  BY <1>1
<1>3. \A x \in Project : current'[x] = IF x = p THEN m2 ELSE current[x]
  BY <1>2
<1>4. Entries' = [x \in Project |-> IF x = p THEN EntryOf(m2) ELSE EntryOf(current[x])]
  BY <1>3 DEF Entries, EntryOf, OrderOf
<1> QED BY <1>4 DEF Entries

\* Only the entry of one project changes, to whatever.
LEMMA EntryOverwritten ==
  ASSUME NEW p \in Project, \A x \in Project \ {p} : Untouched(x)
  PROVE  Entries' = [Entries EXCEPT ![p] = Entries'[p]]
<1>1. ASSUME NEW x \in Project \ {p} PROVE EntryOf(current'[x]) = EntryOf(current[x])
  BY DEF EntryOf, OrderOf, Untouched
<1>2. \A x \in Project : Entries'[x] = IF x = p THEN Entries'[p] ELSE Entries[x]
  BY <1>1 DEF Entries, EntryOf, OrderOf
<1>3. Entries' = [x \in Project |-> Entries'[x]] /\ Entries = [x \in Project |-> Entries[x]]
  BY DEF Entries
<1> HIDE DEF Entries
<1> QED BY <1>2, <1>3

(* Publication implements the ledger of published reports: the current       *)
(* report of a project is replaced only by one of a request accepted no      *)
(* earlier, with complete evidence of some channel, and while the revision   *)
(* stays the same no channel that was complete is lost, until another        *)
(* project's publisher writes the project's manifests back late.             *)
THEOREM LedgerImplemented == PublicationSpec => ImplementsLedger
<1>1. ASSUME PubInv, PubInv', PassInv, [PublicationNext]_pubVars
      PROVE  [Ledger!LedgerNext]_<<Entries, overwritten>>
  <2>1. CASE UNCHANGED pubVars
    BY <2>1, EntriesKept DEF pubVars, Untouched
  <2>2. CASE PublicationNext
    <3>1. PICK w \in Run : PublicationStep(w)
      BY <2>2 DEF PublicationNext
    <3>2. CASE UNCHANGED overwritten /\ \A x \in Project : Untouched(x)
      BY <3>2, EntriesKept
    <3>3. CASE \E p \in Project : Recorded(p)
      <4>1. PICK p \in Project : Recorded(p)
        BY <3>3
      <4>2. PICK m2 \in CurrentManifest :
              /\ current' = [current EXCEPT ![p] = m2]
              /\ EntryOf(m2) \in [order : Nat, revision : Revision, complete : (SUBSET Channel) \ {{}}]
              /\ OrderOf(m2) >= OrderOf(current[p])
              /\ m2.report.revision = current[p].report.revision =>
                   Complete(current[p].report) \subseteq Complete(m2.report)
        BY <4>1 DEF Recorded
      <4>3. Entries' = [Entries EXCEPT ![p] = EntryOf(m2)]
        BY <1>1, <4>2, EntryRecorded
      <4>4. Entries'[p] = EntryOf(m2) /\ Entries[p] = EntryOf(current[p])
        BY <4>3 DEF Entries
      <4>5. p \notin overwritten /\ overwritten' = overwritten
        BY <4>1 DEF Recorded
      <4> QED BY <4>2, <4>3, <4>4, <4>5
              DEF Ledger!LedgerNext, Ledger!Record, Ledger!Entry, EntryOf, Entries
    <3>4. CASE \E p \in Project : /\ overwritten' = overwritten \cup {p}
                                  /\ \A x \in Project \ {p} : Untouched(x)
      <4>1. PICK p \in Project : /\ overwritten' = overwritten \cup {p}
                                 /\ \A x \in Project \ {p} : Untouched(x)
        BY <3>4
      <4>2. Entries' = [Entries EXCEPT ![p] = Entries'[p]]
        BY <4>1, EntryOverwritten
      <4> QED BY <4>1, <4>2 DEF Ledger!LedgerNext, Ledger!Overwrite, Entries, EntryOf
    <3> QED BY <1>1, <3>1, <3>2, <3>3, <3>4, WhatChanges
  <2> QED BY <1>1, <2>1, <2>2
<1>2. PubInv /\ PubInv' /\ PassInv /\ [PublicationNext]_pubVars
        => [Ledger!LedgerNext]_<<Entries, overwritten>>
  BY <1>1
<1> QED BY <1>2, LedgerStarts, AlwaysPubInv, AlwaysPass, PTL
        DEF PublicationSpec, ImplementsLedger, Ledger!LedgerSpec, Ledger!ledgerVars, Entries, EntryOf
===============================================================================
