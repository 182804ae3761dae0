-------------------------- MODULE HostedTargetsProofs --------------------------
(***************************************************************************)
(* What TLAPS proves of the hosted pipeline: what the manifest shows is     *)
(* genuine, nothing is dispatched twice, and what a scan calls collected is *)
(* the row's own revision.                                                  *)
(***************************************************************************)
EXTENDS HostedTargets, TLAPS

-----------------------------------------------------------------------------
(* Types.                                                                   *)

HostedTypeOK ==
  /\ head \in [Target -> Revision \cup {Closed}]
  /\ tooling \in Nat \ {0}
  /\ runs \in [Request -> Run \cup {NoRun}] /\ asked \in RequestOrNone
  /\ saved \in State
  /\ manifest \in [Target -> Shown \cup {NoRow}] /\ assets \subseteq Request
  /\ scanner \in Scanner /\ publisher \in Publisher
  /\ changes \in Nat

LEMMA Bounds == MaxRequests \in Nat /\ MaxChanges \in Nat /\ 0 \in RequestOrNone
<1>1. MaxRequests \in Nat /\ MaxChanges \in Nat
  BY HostedAssumption
<1> QED BY <1>1 DEF RequestOrNone

LEMMA Idle ==
  /\ NoRows \in [Target -> Row \cup {NoRow}] /\ NoRows \in [Target -> Shown \cup {NoRow}]
  /\ Present(NoRows) = {}
  /\ IdleScanner \in Scanner /\ IdlePublisher \in Publisher
  /\ IdleScanner.stage = "idle" /\ IdleScanner.state.rows = NoRows
  /\ IdleScanner.state.manual = NoRow /\ IdleScanner.todo = {}
  /\ IdlePublisher.rows = NoRows
BY DEF NoRows, Present, IdleScanner, IdlePublisher, Scanner, Publisher, State

LEMMA TypeInit == HostedInit => HostedTypeOK
<1> SUFFICES ASSUME HostedInit PROVE HostedTypeOK
  OBVIOUS
<1>1. saved \in State
  BY Idle DEF HostedInit, State
<1>2. 0 .. MaxChanges \subseteq Nat
  BY Bounds
<1> QED BY <1>1, <1>2, Idle, Bounds DEF HostedInit, HostedTypeOK

(* A row that starts, and one whose revision moved.                         *)
RowMoved(row, rev) == [Kept(row) EXCEPT !.head = rev]
ShownMoved(row, rev) == [Restale(row) EXCEPT !.head = rev]

LEMMA RowStarts ==
  ASSUME NEW rev \in Revision
  PROVE  /\ NewRow(rev) \in Row /\ NewRow(rev).head = rev /\ NewRow(rev).key = 0
         /\ NewRow(rev).status = "queued" /\ NewRow(rev).request = 0
         /\ NewShown(rev) \in Shown /\ NewShown(rev).asset = 0
         /\ NewShown(rev).status = "queued"
<1>1. NewRow(rev) \in Row
  BY Bounds DEF NewRow, Row
<1>2. NewShown(rev) \in Shown
  BY Bounds DEF NewShown, Shown
<1> QED BY <1>1, <1>2 DEF NewRow, NewShown

LEMMA RowMoves ==
  ASSUME NEW rev \in Revision, NEW row \in Row
  PROVE  /\ RowMoved(row, rev) \in Row
         /\ RowMoved(row, rev).head = rev /\ RowMoved(row, rev).key = 0
         /\ RowMoved(row, rev).status = "queued"
         /\ RowMoved(row, rev).request = row.request
BY Bounds DEF RowMoved, Kept, Row

LEMMA ShownMoves ==
  ASSUME NEW rev \in Revision, NEW row \in Shown
  PROVE  /\ ShownMoved(row, rev) \in Shown
         /\ ShownMoved(row, rev).asset = row.asset
         /\ ShownMoved(row, rev).analyzed = row.analyzed
         /\ ShownMoved(row, rev).status \in {"queued", "stale"}
BY DEF ShownMoved, Restale, Shown

(* Reconciliation keeps, moves or drops a row.                              *)
LEMMA RowsReconciled ==
  ASSUME head \in [Target -> Revision \cup {Closed}], NEW rows \in [Target -> Row \cup {NoRow}],
         NEW manual, NEW found, found = Reconciled(rows, manual, NewRow, Kept)
  PROVE  /\ found \in [Target -> Row \cup {NoRow}]
         /\ \A t \in Present(found) :
              /\ t \in Inventory(manual) /\ found[t].head = head[t]
              /\ \/ t \in Present(rows) /\ found[t] = rows[t]
                 \/ found[t].key = 0 /\ found[t].status = "queued" /\ found[t].request = 0
                 \/ /\ t \in Present(rows) /\ found[t].request = rows[t].request
                    /\ found[t].key = 0 /\ found[t].status = "queued"
         /\ \A t \in Present(rows) :
              t \in Inventory(manual) /\ rows[t].head = head[t] => found[t] = rows[t]
         /\ Inventory(manual) \subseteq Present(found)
<1> SUFFICES ASSUME NEW t \in Target
             PROVE  /\ found[t] \in Row \cup {NoRow}
                    /\ found[t] # NoRow =>
                         /\ t \in Inventory(manual) /\ found[t].head = head[t]
                         /\ \/ rows[t] # NoRow /\ found[t] = rows[t]
                            \/ /\ found[t].key = 0 /\ found[t].status = "queued"
                               /\ found[t].request = 0
                            \/ /\ rows[t] # NoRow /\ found[t].request = rows[t].request
                               /\ found[t].key = 0 /\ found[t].status = "queued"
                    /\ rows[t] # NoRow /\ t \in Inventory(manual) /\ rows[t].head = head[t]
                         => found[t] = rows[t]
                    /\ t \in Inventory(manual) => found[t] # NoRow
  BY DEF Reconciled, Present, Inventory
<1>1. t \in Inventory(manual) => head[t] \in Revision
  BY DEF Inventory
<1>2. found[t] = IF t \notin Inventory(manual) THEN NoRow
                 ELSE IF rows[t] = NoRow THEN NewRow(head[t])
                 ELSE IF rows[t].head = head[t] THEN rows[t]
                 ELSE [Kept(rows[t]) EXCEPT !.head = head[t]]
  BY DEF Reconciled
<1>3. CASE rows[t] = NoRow
  BY <1>1, <1>2, <1>3, NoneAssumption, RowStarts
<1>4. CASE rows[t] # NoRow
  <2>1. CASE t \notin Inventory(manual) \/ rows[t].head = head[t]
    BY <1>2, <1>4, <2>1
  <2>2. CASE t \in Inventory(manual) /\ rows[t].head # head[t]
    <3>1. rows[t] \in Row /\ found[t] = RowMoved(rows[t], head[t])
      BY <1>2, <1>4, <2>2 DEF RowMoved
    <3> QED BY <1>1, <1>4, <2>2, <3>1, NoneAssumption, RowMoves
  <2> QED BY <2>1, <2>2
<1> QED BY <1>3, <1>4

LEMMA ShownReconciled ==
  ASSUME head \in [Target -> Revision \cup {Closed}], NEW rows \in [Target -> Shown \cup {NoRow}],
         NEW manual, NEW found, found = Reconciled(rows, manual, NewShown, Restale)
  PROVE  /\ found \in [Target -> Shown \cup {NoRow}]
         /\ \A t \in Present(found) :
              \/ t \in Present(rows) /\ found[t] = rows[t]
              \/ found[t].asset = 0 /\ found[t].status = "queued"
              \/ /\ t \in Present(rows) /\ found[t].asset = rows[t].asset
                 /\ found[t].analyzed = rows[t].analyzed /\ found[t].status # "current"
<1> SUFFICES ASSUME NEW t \in Target
             PROVE  /\ found[t] \in Shown \cup {NoRow}
                    /\ found[t] # NoRow =>
                         \/ rows[t] # NoRow /\ found[t] = rows[t]
                         \/ found[t].asset = 0 /\ found[t].status = "queued"
                         \/ /\ rows[t] # NoRow /\ found[t].asset = rows[t].asset
                            /\ found[t].analyzed = rows[t].analyzed /\ found[t].status # "current"
  BY DEF Reconciled, Present
<1>1. t \in Inventory(manual) => head[t] \in Revision
  BY DEF Inventory
<1>2. found[t] = IF t \notin Inventory(manual) THEN NoRow
                 ELSE IF rows[t] = NoRow THEN NewShown(head[t])
                 ELSE IF rows[t].head = head[t] THEN rows[t]
                 ELSE [Restale(rows[t]) EXCEPT !.head = head[t]]
  BY DEF Reconciled
<1>3. CASE rows[t] = NoRow
  BY <1>1, <1>2, <1>3, NoneAssumption, RowStarts
<1>4. CASE rows[t] # NoRow
  <2>1. CASE t \notin Inventory(manual) \/ rows[t].head = head[t]
    BY <1>2, <1>4, <2>1
  <2>2. CASE t \in Inventory(manual) /\ rows[t].head # head[t]
    <3>1. rows[t] \in Shown /\ found[t] = ShownMoved(rows[t], head[t])
      BY <1>2, <1>4, <2>2 DEF ShownMoved
    <3> QED BY <1>1, <1>4, <2>2, <3>1, NoneAssumption, ShownMoves
  <2> QED BY <2>1, <2>2
<1> QED BY <1>3, <1>4
-----------------------------------------------------------------------------
(* What each step makes of its row.                                         *)

LostOf(row) == Ended(row.request) /\ ~Usable(row.request)

(* The scan takes a row of this revision and tooling as it is, or starts it *)
(* over when its key is another's or its run lost its report.               *)
LEMMA RowStartsOver ==
  ASSUME NEW old \in Row, NEW key \in Nat
  PROVE  LET row == Cleared(Keyed(old, key)) IN
         /\ row \in Row /\ row.head = old.head /\ row.key = key /\ row.refresh = old.refresh
         /\ row.request # 0 => row = old /\ ~LostOf(old)
         /\ row.request = 0 => old.key # key \/ old.request = 0 \/ LostOf(old)
<1>1. LET keyed == Keyed(old, key) IN
      /\ keyed \in Row /\ keyed.head = old.head /\ keyed.key = key /\ keyed.refresh = old.refresh
      /\ keyed = old \/ (keyed.request = 0 /\ old.key # key)
  BY Bounds DEF Keyed, Row
<1>2. ASSUME NEW keyed \in Row
      PROVE  /\ Cleared(keyed) \in Row /\ Cleared(keyed).head = keyed.head
             /\ Cleared(keyed).key = keyed.key /\ Cleared(keyed).refresh = keyed.refresh
             /\ \/ LostOf(keyed) /\ Cleared(keyed).request = 0
                \/ ~LostOf(keyed) /\ Cleared(keyed) = keyed
  BY Bounds DEF Cleared, Lost, LostOf, Row
<1> QED BY <1>1, <1>2

(* The scanner after a row, and the request it may make.                    *)
ScannedRow(t, row, stage, at) ==
  /\ scanner.stage = "rows" /\ t \in scanner.todo
  /\ scanner'.stage = stage /\ scanner'.at = at /\ scanner'.tooling = scanner.tooling
  /\ scanner'.todo = scanner.todo \ {t}
  /\ scanner'.state.rows = [scanner.state.rows EXCEPT ![t] = row]
  /\ scanner'.state.manual = scanner.state.manual
  /\ row.head = scanner.state.rows[t].head /\ row.key = scanner.tooling

RowWatched(t, row) ==
  LET old == scanner.state.rows[t] IN
  /\ old.key = scanner.tooling /\ old.request # 0 /\ ~LostOf(old)
  /\ row.request = old.request /\ row.tooling = old.tooling
  /\ \/ row = old
     \/ row.run = old.request /\ (row.status = "collected" => Ended(row.run))
  /\ UNCHANGED <<asked, saved>>
NothingAsked(t) ==
  LET old == scanner.state.rows[t] IN
  old.key # scanner.tooling \/ old.request = 0 \/ LostOf(old)
RowReused(t, row) ==
  /\ NothingAsked(t) /\ row.request = 0
  /\ \E u \in Present(scanner.state.rows) :
       LET other == scanner.state.rows[u] IN
       /\ other.status = "collected" /\ other.head = row.head
       /\ row.run = other.run /\ row.tooling = other.tooling
  /\ UNCHANGED <<asked, saved>>
RowAsked(t, row) ==
  /\ NothingAsked(t) /\ asked' = asked + 1 /\ asked < MaxRequests
  /\ row.request = asked' /\ row.tooling = scanner.tooling /\ row.status = "dispatching"
  /\ saved' = scanner'.state

LEMMA WithRowFacts ==
  ASSUME scanner \in Scanner, NEW t \in Target, NEW row \in Row, NEW lost \in SUBSET Request,
         scanner.stage = "rows"
  PROVE  LET next == WithRow(t, row, lost) IN
         /\ next \in Scanner /\ next.stage = "rows" /\ next.at = scanner.at
         /\ next.tooling = scanner.tooling /\ next.todo = scanner.todo \ {t}
         /\ next.state.rows = [scanner.state.rows EXCEPT ![t] = row]
         /\ next.state.manual = scanner.state.manual
<1>1. [scanner.state.rows EXCEPT ![t] = row] \in [Target -> Row \cup {NoRow}]
  BY DEF Scanner, State
<1> QED BY <1>1 DEF WithRow, Scanner, State

LEMMA ScanRowOutcome ==
  ASSUME HostedTypeOK, NEW t \in Target, ScanRow(t), t \in Present(scanner.state.rows)
  PROVE  /\ \E row \in Row :
              \/ ScannedRow(t, row, "rows", scanner.at) /\ RowWatched(t, row)
              \/ ScannedRow(t, row, "rows", scanner.at) /\ RowReused(t, row)
              \/ ScannedRow(t, row, "dispatch", t) /\ RowAsked(t, row)
         /\ scanner' \in Scanner
         /\ UNCHANGED <<head, tooling, runs, manifest, assets, publisher, changes, faults>>
<1> DEFINE old == scanner.state.rows[t]
           keyed == Keyed(old, scanner.tooling)
           row == Cleared(keyed)
           lost == IF Lost(keyed) THEN scanner.lost \cup {keyed.request} ELSE scanner.lost
           intent == [row EXCEPT !.request = asked + 1, !.status = "dispatching",
                                 !.tooling = scanner.tooling, !.refresh = FALSE]
<1>1. /\ old \in Row /\ scanner.tooling \in Nat /\ scanner \in Scanner
      /\ scanner.state.rows \in [Target -> Row \cup {NoRow}]
  BY DEF HostedTypeOK, Scanner, State, Present
<1>2. /\ row \in Row /\ row.head = old.head /\ row.key = scanner.tooling
      /\ row.request # 0 => row = old /\ ~LostOf(old)
      /\ row.request = 0 => NothingAsked(t)
  BY <1>1, RowStartsOver DEF NothingAsked
<1>3. lost \in SUBSET Request
  BY <1>1 DEF Lost, Ended, Exists, Scanner
<1>4. scanner.stage = "rows" /\ t \in scanner.todo
  BY DEF ScanRow, First, Asked
<1>5. UNCHANGED <<head, tooling, runs, manifest, assets, publisher, changes, faults>>
  BY DEF ScanRow, sourceVars, pubVars
<1>6. \/ /\ Waiting(row) /\ scanner' = WithRow(t, Watched(row), lost)
         /\ UNCHANGED <<asked, saved>>
      \/ /\ ~Waiting(row)
         /\ \E u \in Reusable(t, row, lost) :
              LET other == scanner.state.rows[u] IN
              scanner' = WithRow(t, [row EXCEPT !.run = other.run, !.tooling = other.tooling,
                                                !.status = "collected"], lost)
         /\ UNCHANGED <<asked, saved>>
      \/ /\ ~Waiting(row) /\ asked < MaxRequests
         /\ scanner' = [WithRow(t, intent, lost) EXCEPT !.stage = "dispatch", !.at = t]
         /\ asked' = asked + 1 /\ saved' = scanner'.state
  BY DEF ScanRow
<1> HIDE DEF row, keyed, lost
<1>7. CASE Waiting(row) /\ scanner' = WithRow(t, Watched(row), lost) /\ UNCHANGED <<asked, saved>>
  <2>1. row = old /\ ~LostOf(old) /\ old.request # 0
    BY <1>2, <1>7 DEF Waiting
  <2>2. /\ Watched(old) \in Row /\ Watched(old).head = old.head /\ Watched(old).key = old.key
        /\ Watched(old).request = old.request /\ Watched(old).tooling = old.tooling
        /\ \/ Watched(old) = old
           \/ /\ Watched(old).run = old.request
              /\ Watched(old).status = "collected" => Ended(Watched(old).run)
    BY <1>1 DEF Watched, Row
  <2>3. scanner' \in Scanner /\ ScannedRow(t, Watched(old), "rows", scanner.at)
    BY <1>1, <1>2, <1>3, <1>4, <1>7, <2>1, <2>2, WithRowFacts DEF ScannedRow
  <2>4. RowWatched(t, Watched(old))
    BY <1>2, <1>7, <2>1, <2>2 DEF RowWatched
  <2> QED BY <1>5, <2>2, <2>3, <2>4
<1>8. ASSUME ~Waiting(row), NEW u \in Reusable(t, row, lost),
             scanner' = WithRow(t, [row EXCEPT !.run = scanner.state.rows[u].run,
                                               !.tooling = scanner.state.rows[u].tooling,
                                               !.status = "collected"], lost),
             UNCHANGED <<asked, saved>>
      PROVE  /\ scanner' \in Scanner
             /\ \E next \in Row : ScannedRow(t, next, "rows", scanner.at) /\ RowReused(t, next)
  <2> DEFINE other == scanner.state.rows[u]
  <2>1. PICK next : next = [row EXCEPT !.run = other.run, !.tooling = other.tooling,
                                       !.status = "collected"]
    OBVIOUS
  <2>2. /\ u \in Present(scanner.state.rows) /\ other \in Row
        /\ other.status = "collected" /\ other.head = row.head
    BY <1>1, <1>8 DEF Reusable, Present
  <2>3. /\ next \in Row /\ next.head = row.head /\ next.key = row.key
        /\ next.request = row.request /\ next.run = other.run /\ next.tooling = other.tooling
    BY <1>2, <2>1, <2>2 DEF Row
  <2>4. scanner' = WithRow(t, next, lost)
    BY <1>8, <2>1
  <2>5. scanner' \in Scanner /\ ScannedRow(t, next, "rows", scanner.at)
    BY <1>1, <1>2, <1>3, <1>4, <2>3, <2>4, WithRowFacts DEF ScannedRow
  <2>6. RowReused(t, next)
    BY <1>2, <1>8, <2>2, <2>3 DEF RowReused, Waiting
  <2> QED BY <2>3, <2>5, <2>6
<1>9. CASE /\ ~Waiting(row) /\ asked < MaxRequests
           /\ scanner' = [WithRow(t, intent, lost) EXCEPT !.stage = "dispatch", !.at = t]
           /\ asked' = asked + 1 /\ saved' = scanner'.state
  <2>1. asked + 1 \in RequestOrNone
    BY <1>9, Bounds DEF HostedTypeOK, RequestOrNone
  <2>2. /\ intent \in Row /\ intent.head = row.head /\ intent.key = row.key
        /\ intent.request = asked + 1 /\ intent.tooling = scanner.tooling
        /\ intent.status = "dispatching"
    BY <1>1, <1>2, <2>1 DEF Row
  <2> HIDE DEF intent
  <2>3. PICK next : next = WithRow(t, intent, lost)
    OBVIOUS
  <2>4. /\ next \in Scanner /\ next.stage = "rows"
        /\ next.tooling = scanner.tooling /\ next.todo = scanner.todo \ {t}
        /\ next.state.rows = [scanner.state.rows EXCEPT ![t] = intent]
        /\ next.state.manual = scanner.state.manual
    BY <1>1, <1>3, <1>4, <2>2, <2>3, WithRowFacts
  <2>5. scanner' = [next EXCEPT !.stage = "dispatch", !.at = t]
    BY <1>9, <2>3
  <2>6. scanner' \in Scanner /\ ScannedRow(t, intent, "dispatch", t)
    BY <1>2, <1>4, <2>2, <2>4, <2>5 DEF ScannedRow, Scanner
  <2>7. RowAsked(t, intent)
    BY <1>2, <1>9, <2>2 DEF RowAsked, Waiting
  <2> QED BY <1>5, <2>2, <2>6, <2>7
<1> QED BY <1>5, <1>6, <1>7, <1>8, <1>9
(* A run is created for the request of the row at hand.                     *)
RunCreated(t, row) ==
  LET r == row.request IN
  /\ runs' = [runs EXCEPT ![r] = runs'[r]]
  /\ runs'[r].target = t /\ runs'[r].head = row.head /\ runs'[r].tooling = row.tooling
  /\ runs'[r].at = changes /\ runs'[r].handoff = "none" /\ runs'[r].phase # "ended"

(* The row goes on as dispatched.                                           *)
RowSent(t, row, next) ==
  /\ next.head = row.head /\ next.key = row.key /\ next.request = row.request
  /\ next.tooling = row.tooling /\ next.status # "collected"
  /\ scanner'.state.rows = [scanner.state.rows EXCEPT ![t] = next]

LEMMA DispatchOutcome ==
  ASSUME HostedTypeOK, NEW t, t = scanner.at, t \in Present(scanner.state.rows),
         NEW row, row = scanner.state.rows[t], row.request \in Request, Dispatch
  PROVE  /\ RunCreated(t, row) /\ runs' \in [Request -> Run \cup {NoRun}] /\ scanner.stage = "dispatch"
         /\ \E next \in Row : RowSent(t, row, next)
         /\ scanner' \in Scanner /\ scanner'.stage = "rows" /\ scanner'.tooling = scanner.tooling
         /\ scanner'.todo = scanner.todo /\ scanner'.state.manual = scanner.state.manual
         /\ UNCHANGED <<head, tooling, asked, saved, manifest, assets, publisher, changes, faults>>
<1> DEFINE sent == [row EXCEPT !.status = "scanning", !.run = row.request]
           run == [target |-> t, head |-> row.head, tooling |-> row.tooling, execution |-> tooling,
                   at |-> changes, phase |-> "running", handoff |-> "none"]
<1>1. /\ row \in Row /\ t \in Target /\ scanner \in Scanner
      /\ scanner.state.rows \in [Target -> Row \cup {NoRow}]
  BY DEF HostedTypeOK, Scanner, State, Present
<1>2. /\ sent \in Row /\ sent.head = row.head /\ sent.key = row.key
      /\ sent.request = row.request /\ sent.tooling = row.tooling /\ sent.status # "collected"
  BY <1>1 DEF Row
<1>3. run \in Run
  BY <1>1 DEF Run, Row, HostedTypeOK
<1>4. /\ scanner.stage = "dispatch" /\ runs' = [runs EXCEPT ![row.request] = run]
      /\ scanner' = [scanner EXCEPT !.state.rows[t] = sent, !.stage = "rows", !.at = NoRow]
      /\ UNCHANGED <<head, tooling, asked, saved, manifest, assets, publisher, changes, faults>>
  BY DEF Dispatch, sourceVars, pubVars
<1> HIDE DEF sent
<1>5. runs' \in [Request -> Run \cup {NoRun}] /\ RunCreated(t, row)
  BY <1>3, <1>4 DEF HostedTypeOK, RunCreated
<1>6. [scanner.state.rows EXCEPT ![t] = sent] \in [Target -> Row \cup {NoRow}]
  BY <1>1, <1>2
<1>7. /\ scanner' \in Scanner /\ scanner'.stage = "rows" /\ scanner'.tooling = scanner.tooling
      /\ scanner'.todo = scanner.todo /\ scanner'.state.manual = scanner.state.manual
      /\ scanner'.state.rows = [scanner.state.rows EXCEPT ![t] = sent]
  BY <1>1, <1>4, <1>6 DEF Scanner, State
<1>8. RowSent(t, row, sent)
  BY <1>2, <1>7 DEF RowSent
<1> QED BY <1>2, <1>4, <1>5, <1>7, <1>8

LEMMA DispatchFailsOutcome ==
  ASSUME HostedTypeOK, NEW t, t = scanner.at, t \in Present(scanner.state.rows),
         NEW row, row = scanner.state.rows[t], row.request \in Request,
         NEW created \in BOOLEAN, DispatchFails(created)
  PROVE  /\ UNCHANGED runs \/ RunCreated(t, row)
         /\ runs' \in [Request -> Run \cup {NoRun}] /\ scanner.stage = "dispatch"
         /\ scanner' = IdleScanner
         /\ UNCHANGED <<head, tooling, asked, saved, manifest, assets, publisher, changes>>
<1> DEFINE run == [target |-> t, head |-> row.head, tooling |-> row.tooling, execution |-> tooling,
                   at |-> changes, phase |-> "new", handoff |-> "none"]
<1>1. row \in Row /\ t \in Target
  BY DEF HostedTypeOK, Scanner, State, Present
<1>2. run \in Run
  BY <1>1 DEF Run, Row, HostedTypeOK
<1>3. /\ scanner.stage = "dispatch" /\ scanner' = IdleScanner
      /\ runs' = IF ~created THEN runs ELSE [runs EXCEPT ![row.request] = run]
      /\ UNCHANGED <<head, tooling, asked, saved, manifest, assets, publisher, changes>>
  BY DEF DispatchFails, sourceVars, pubVars
<1>4. runs' \in [Request -> Run \cup {NoRun}] /\ (UNCHANGED runs \/ RunCreated(t, row))
  BY <1>2, <1>3 DEF HostedTypeOK, RunCreated
<1> QED BY <1>3, <1>4

(* The publisher shows a report it has just stored, or at most another      *)
(* label beside the one it has.                                             *)
LEMMA PublishRowOutcome ==
  ASSUME HostedTypeOK, NEW t \in Target, t \in Present(publisher.rows), PublishRow(t)
  PROVE  /\ publisher' \in Publisher
         /\ assets \subseteq assets' /\ assets' \subseteq Request
         /\ \E row \in Shown :
              /\ publisher'.rows = [publisher.rows EXCEPT ![t] = row]
              /\ \/ row = publisher.rows[t]
                 \/ /\ row.asset = publisher.rows[t].asset
                    /\ row.analyzed = publisher.rows[t].analyzed /\ row.status # "current"
                 \/ /\ row.asset \in assets' /\ Ended(row.asset)
                    /\ runs[row.asset].handoff = "stored" /\ SameEvidence(runs[row.asset].target, t)
                    /\ row.analyzed = runs[row.asset].head /\ row.head = row.analyzed
         /\ UNCHANGED <<head, tooling, runs, asked, saved, scanner, manifest, changes>>
<1> DEFINE row == publisher.rows[t]
           scanned == publisher.scan[t]
           same == scanned # NoRow /\ scanned.head = row.head
           collect == same /\ scanned.run # 0 /\ scanned.status = "collected"
           latest == IF t \in Inventory(publisher.manual) THEN head[t] ELSE Closed
           new == [row EXCEPT !.asset = scanned.run, !.analyzed = runs[scanned.run].head,
                              !.status = "current"]
           moved == [row EXCEPT !.head = IF latest = Closed THEN @ ELSE latest, !.status = "stale"]
           failed == [row EXCEPT !.status = "failed"]
           followed == [row EXCEPT !.status = Followed(scanned)]
<1>1. /\ row \in Shown /\ scanned \in Row \cup {NoRow}
      /\ publisher \in Publisher /\ publisher.rows \in [Target -> Shown \cup {NoRow}]
      /\ publisher.scan \in [Target -> Row \cup {NoRow}]
  BY DEF HostedTypeOK, Publisher, Present
<1>2. UNCHANGED <<head, tooling, runs, asked, saved, scanner, manifest, changes>>
  BY DEF PublishRow, sourceVars, scanVars
<1>3. ASSUME NEW next \in Shown, Shows(t, next)
      PROVE  publisher' \in Publisher /\ publisher'.rows = [publisher.rows EXCEPT ![t] = next]
  <2>1. /\ [publisher.rows EXCEPT ![t] = next] \in [Target -> Shown \cup {NoRow}]
        /\ [publisher.scan EXCEPT ![t] = NoRow] \in [Target -> Row \cup {NoRow}]
    BY <1>1
  <2> QED BY <1>1, <1>3, <2>1 DEF Shows, Publisher
<1>4. latest \in Revision \cup {Closed}
  BY DEF HostedTypeOK
<1>5. \/ /\ collect /\ Collectible(t, scanned) /\ assets' = assets \cup {scanned.run} /\ Shows(t, new)
      \/ Shows(t, moved) /\ UNCHANGED assets
      \/ Shows(t, failed) /\ UNCHANGED assets
      \/ Shows(t, IF ~same \/ collect THEN row ELSE followed) /\ UNCHANGED assets
  BY DEF PublishRow
<1>6. CASE /\ collect /\ Collectible(t, scanned) /\ assets' = assets \cup {scanned.run}
           /\ Shows(t, new)
  <2>1. /\ scanned \in Row /\ scanned.head = row.head
    BY <1>1, <1>6
  <2>2. /\ scanned.run \in Request /\ Ended(scanned.run) /\ runs[scanned.run] \in Run
        /\ runs[scanned.run].handoff = "stored" /\ runs[scanned.run].head = scanned.head
        /\ SameEvidence(runs[scanned.run].target, t)
    BY <1>6 DEF Collectible, Ended, Exists, HostedTypeOK, SameEvidence
  <2>3. /\ new \in Shown /\ new.asset = scanned.run /\ new.analyzed = runs[scanned.run].head
        /\ new.head = row.head
    BY <1>1, <2>1, <2>2 DEF Shown, Row, Run
  <2>4. PICK next : next = new
    OBVIOUS
  <2>5. next \in Shown /\ Shows(t, next)
    BY <1>6, <2>3, <2>4
  <2>6. publisher' \in Publisher /\ publisher'.rows = [publisher.rows EXCEPT ![t] = next]
    BY <1>3, <2>5
  <2>7. assets \subseteq assets' /\ assets' \subseteq Request /\ scanned.run \in assets'
    BY <1>6, <2>2 DEF HostedTypeOK
  <2>8. /\ next.asset = scanned.run /\ next.analyzed = runs[next.asset].head
        /\ next.head = next.analyzed
    BY <2>1, <2>2, <2>3, <2>4
  <2> HIDE DEF new, collect
  <2> QED BY <1>2, <2>2, <2>5, <2>6, <2>7, <2>8
<1>7. CASE Shows(t, moved) /\ UNCHANGED assets
  <2>1. moved \in Shown /\ moved.asset = row.asset /\ moved.analyzed = row.analyzed /\ moved.status # "current"
    BY <1>1, <1>4 DEF Shown
  <2> QED BY <1>2, <1>3, <1>7, <2>1 DEF HostedTypeOK
<1>8. CASE Shows(t, failed) /\ UNCHANGED assets
  <2>1. failed \in Shown /\ failed.asset = row.asset /\ failed.analyzed = row.analyzed /\ failed.status # "current"
    BY <1>1 DEF Shown
  <2> QED BY <1>2, <1>3, <1>8, <2>1 DEF HostedTypeOK
<1>9. CASE Shows(t, IF ~same \/ collect THEN row ELSE followed) /\ UNCHANGED assets
  <2>1. CASE ~same \/ collect
    BY <1>1, <1>2, <1>3, <1>9, <2>1 DEF HostedTypeOK
  <2>2. CASE ~(~same \/ collect)
    <3>1. scanned \in Row
      BY <1>1, <2>2
    <3>2. /\ followed \in Shown /\ followed.asset = row.asset
          /\ followed.analyzed = row.analyzed /\ followed.status # "current"
      BY <1>1, <3>1 DEF Shown, Followed, Row
    <3> QED BY <1>2, <1>3, <1>9, <2>2, <3>2 DEF HostedTypeOK
  <2> QED BY <2>1, <2>2
<1> QED BY <1>5, <1>6, <1>7, <1>8, <1>9
(* A scan begins with the rows of what is there: as they were, or waiting   *)
(* for a key, or without a request.                                         *)
LEMMA ScanBeginOutcome ==
  ASSUME HostedTypeOK, NEW refresh \in Target \cup {NoRow}, ScanBegin(refresh)
  PROVE  LET rows == scanner'.state.rows
             manual == scanner'.state.manual IN
         /\ scanner.stage = "idle"
         /\ scanner' \in Scanner /\ scanner'.stage = "rows"
         /\ scanner'.tooling = tooling /\ scanner'.todo = Present(rows)
         /\ \A t \in Present(rows) :
              /\ t \in Inventory(manual) /\ rows[t].head = head[t]
              /\ \/ t \in Present(saved.rows) /\ rows[t] = saved.rows[t]
                 \/ rows[t].status = "queued" /\ rows[t].request = 0
                 \/ /\ t \in Present(saved.rows) /\ rows[t].request = saved.rows[t].request
                    /\ rows[t].key = 0 /\ rows[t].status = "queued"
         /\ \/ /\ changes' = changes /\ manual = saved.manual
               /\ \A t \in Present(saved.rows) :
                    t \in Inventory(manual) /\ saved.rows[t].head = head[t] => rows[t] = saved.rows[t]
            \/ changes' = changes + 1
         /\ UNCHANGED <<head, tooling, runs, asked, saved, manifest, assets, publisher>>
<1> DEFINE manual == IF refresh # NoRow /\ Kind[refresh] = "commit" THEN refresh ELSE saved.manual
           rows == IF refresh = NoRow THEN Reconciled(saved.rows, manual, NewRow, Kept)
                   ELSE Refreshed(Reconciled(saved.rows, manual, NewRow, Kept), refresh)
<1>1. /\ scanner.stage = "idle"
      /\ refresh # NoRow => refresh \in Inventory(manual)
      /\ scanner' = [stage |-> "rows", state |-> [rows |-> rows, manual |-> manual],
                     todo |-> Present(rows), tooling |-> tooling, lost |-> {}, at |-> NoRow]
      /\ changes' = IF refresh = NoRow THEN changes ELSE changes + 1
      /\ UNCHANGED <<head, tooling, runs, asked, saved, manifest, assets, publisher>>
  BY DEF ScanBegin, sourceVars, pubVars
<1>2. /\ saved.rows \in [Target -> Row \cup {NoRow}] /\ saved.manual \in Target \cup {NoRow}
      /\ head \in [Target -> Revision \cup {Closed}] /\ tooling \in Nat
  BY DEF HostedTypeOK, State
<1>3. PICK found : found = Reconciled(saved.rows, manual, NewRow, Kept)
  OBVIOUS
<1>4. /\ found \in [Target -> Row \cup {NoRow}]
      /\ \A t \in Present(found) :
           /\ t \in Inventory(manual) /\ found[t].head = head[t]
           /\ \/ t \in Present(saved.rows) /\ found[t] = saved.rows[t]
              \/ found[t].key = 0 /\ found[t].status = "queued" /\ found[t].request = 0
              \/ /\ t \in Present(saved.rows) /\ found[t].request = saved.rows[t].request
                 /\ found[t].key = 0 /\ found[t].status = "queued"
      /\ \A t \in Present(saved.rows) :
           t \in Inventory(manual) /\ saved.rows[t].head = head[t] => found[t] = saved.rows[t]
      /\ Inventory(manual) \subseteq Present(found)
  BY <1>2, <1>3, RowsReconciled
<1>5. rows = IF refresh = NoRow THEN found ELSE Refreshed(found, refresh)
  BY <1>3
<1> HIDE DEF rows, manual
<1>6. /\ rows \in [Target -> Row \cup {NoRow}]
      /\ \A t \in Present(rows) :
           /\ t \in Present(found) /\ rows[t].head = found[t].head
           /\ rows[t] = found[t] \/ (rows[t].status = "queued" /\ rows[t].request = 0)
  <2>1. CASE refresh = NoRow
    BY <1>4, <1>5, <2>1
  <2>2. CASE refresh # NoRow
    <3>1. refresh \in Target /\ found[refresh] \in Row /\ refresh \in Present(found)
      BY <1>1, <1>4, <2>2 DEF Present
    <3>2. PICK row : row = [found[refresh] EXCEPT !.status = "queued", !.refresh = TRUE,
                                                  !.request = 0, !.run = 0]
      OBVIOUS
    <3>3. row \in Row /\ row.head = found[refresh].head /\ row.status = "queued" /\ row.request = 0
      BY <3>1, <3>2, Bounds DEF Row
    <3>4. rows = [found EXCEPT ![refresh] = row]
      BY <1>5, <2>2, <3>2 DEF Refreshed
    <3> QED BY <1>4, <3>1, <3>3, <3>4 DEF Present
  <2> QED BY <2>1, <2>2
<1>7. manual \in Target \cup {NoRow} /\ (refresh = NoRow => manual = saved.manual)
  BY <1>2 DEF manual
<1>8. /\ scanner' \in Scanner /\ scanner'.stage = "rows" /\ scanner'.tooling = tooling
      /\ scanner'.state.rows = rows /\ scanner'.state.manual = manual
      /\ scanner'.todo = Present(rows)
  BY <1>1, <1>2, <1>6, <1>7 DEF Scanner, State, Present
<1>9. \A t \in Present(rows) :
        /\ t \in Inventory(manual) /\ rows[t].head = head[t]
        /\ \/ t \in Present(saved.rows) /\ rows[t] = saved.rows[t]
           \/ rows[t].status = "queued" /\ rows[t].request = 0
           \/ /\ t \in Present(saved.rows) /\ rows[t].request = saved.rows[t].request
              /\ rows[t].key = 0 /\ rows[t].status = "queued"
  BY <1>4, <1>6
<1>10. \/ /\ changes' = changes /\ manual = saved.manual
          /\ \A t \in Present(saved.rows) :
               t \in Inventory(manual) /\ saved.rows[t].head = head[t] => rows[t] = saved.rows[t]
       \/ changes' = changes + 1
  BY <1>1, <1>4, <1>5, <1>7
<1> QED BY <1>1, <1>8, <1>9, <1>10

-----------------------------------------------------------------------------
(* What is at work is in order.                                             *)

(* A run is one the scan asked for, was dispatched by now, and hands off    *)
(* its report in ending.                                                    *)
RunsAreAsked ==
  \A r \in Request : Exists(r) =>
    /\ r <= asked /\ runs[r].at <= changes
    /\ runs[r].handoff # "none" => runs[r].phase = "ended"

(* A scan rests on the tooling it read, and dispatches the newest request,  *)
(* which only the row it is at names, in storage and in memory.             *)
ScanInOrder ==
  /\ scanner.stage # "idle" => scanner.tooling # 0
  /\ scanner.todo \subseteq Present(scanner.state.rows)
  /\ \A t \in Present(saved.rows) : saved.rows[t].request <= asked
  /\ \A t \in Present(scanner.state.rows) : scanner.state.rows[t].request <= asked
  /\ scanner.stage = "dispatch" =>
       LET t == scanner.at
           row == scanner.state.rows[t] IN
       /\ saved = scanner.state
       /\ t \in Present(scanner.state.rows) \ scanner.todo
       /\ asked \in Request /\ row.request = asked /\ ~Exists(asked)
       /\ row.key = scanner.tooling /\ row.tooling = scanner.tooling
       /\ \A u \in Present(scanner.state.rows) \ {t} : scanner.state.rows[u].request # asked
PublishInOrder == publisher.todo \subseteq Present(publisher.rows)

InOrder == HostedTypeOK /\ RunsAreAsked /\ ScanInOrder /\ PublishInOrder
(* A run stays what it was dispatched as, and its end is an end.            *)
RunKept(r) ==
  /\ runs'[r] # NoRun
  /\ runs'[r].target = runs[r].target /\ runs'[r].head = runs[r].head
  /\ runs'[r].tooling = runs[r].tooling /\ runs'[r].at = runs[r].at
  /\ runs[r].phase = "ended" => runs'[r].phase = "ended"
  /\ runs[r].handoff # "none" => runs'[r].handoff # "none"
  /\ runs[r].phase = "ended" /\ runs[r].handoff # "stored" => runs'[r].handoff # "stored"
RunsKept == \A r \in Request : Exists(r) => RunKept(r)
NoNewRun == \A r \in Request : runs'[r] # NoRun => Exists(r)

RunGoesOn(r, run) ==
  /\ runs' = [runs EXCEPT ![r] = run]
  /\ run.target = runs[r].target /\ run.head = runs[r].head
  /\ run.tooling = runs[r].tooling /\ run.at = runs[r].at
  /\ runs[r].phase = "ended" => run.phase = "ended"
  /\ runs[r].handoff # "none" => run.handoff # "none"
  /\ runs[r].phase = "ended" /\ runs[r].handoff # "stored" => run.handoff # "stored"
  /\ run.handoff # "none" => run.phase = "ended"

LEMMA RunProgress ==
  ASSUME HostedTypeOK, RunsAreAsked, NEW r \in Request,
         \/ \E handoff \in {"stored", "none"} : RunEnds(r, handoff)
         \/ Lists(r) \/ HandoffExpires(r)
  PROVE  /\ runs' \in [Request -> Run \cup {NoRun}] /\ RunsKept /\ NoNewRun
         /\ \A s \in Request : runs'[s] # NoRun =>
              (runs'[s].handoff # "none" => runs'[s].phase = "ended")
         /\ UNCHANGED <<head, tooling, asked, saved, scanner, manifest, assets, publisher, changes>>
<1>1. /\ UNCHANGED <<head, tooling, asked, saved, scanner, manifest, assets, publisher, changes>>
      /\ Exists(r)
  BY DEF RunEnds, Lists, HandoffExpires, sourceVars, scanVars, pubVars
<1>2. runs[r] \in Run /\ (runs[r].handoff # "none" => runs[r].phase = "ended")
  BY <1>1 DEF Exists, HostedTypeOK, RunsAreAsked
<1>3. \E run \in Run : RunGoesOn(r, run)
  <2>1. ASSUME NEW handoff \in {"stored", "none"}, RunEnds(r, handoff) PROVE \E run \in Run : RunGoesOn(r, run)
    <3>1. PICK run : run = [runs[r] EXCEPT !.phase = "ended", !.handoff = handoff]
      OBVIOUS
    <3>2. runs' = [runs EXCEPT ![r] = run]
      BY <2>1, <3>1 DEF RunEnds, HostedTypeOK
    <3>3. runs[r].phase = "running"
      BY <2>1 DEF RunEnds
    <3>4. /\ run \in Run /\ run.target = runs[r].target /\ run.head = runs[r].head
          /\ run.tooling = runs[r].tooling /\ run.at = runs[r].at
          /\ run.phase = "ended" /\ run.handoff = handoff
      BY <1>2, <3>1 DEF Run
    <3> QED BY <1>2, <3>2, <3>3, <3>4 DEF RunGoesOn
  <2>2. CASE Lists(r)
    <3>1. PICK run : run = [runs[r] EXCEPT !.phase = "running"]
      OBVIOUS
    <3>2. runs' = [runs EXCEPT ![r] = run] /\ runs[r].phase = "new"
      BY <2>2, <3>1 DEF Lists, HostedTypeOK
    <3>3. /\ run \in Run /\ run.target = runs[r].target /\ run.head = runs[r].head
          /\ run.tooling = runs[r].tooling /\ run.at = runs[r].at
          /\ run.phase = "running" /\ run.handoff = runs[r].handoff
      BY <1>2, <3>1 DEF Run
    <3> QED BY <1>2, <3>2, <3>3 DEF RunGoesOn
  <2>3. CASE HandoffExpires(r)
    <3>1. PICK run : run = [runs[r] EXCEPT !.handoff = "expired"]
      OBVIOUS
    <3>2. runs' = [runs EXCEPT ![r] = run] /\ runs[r].handoff = "stored"
      BY <2>3, <3>1 DEF HandoffExpires, HostedTypeOK
    <3>3. /\ run \in Run /\ run.target = runs[r].target /\ run.head = runs[r].head
          /\ run.tooling = runs[r].tooling /\ run.at = runs[r].at
          /\ run.phase = runs[r].phase /\ run.handoff = "expired"
      BY <1>2, <3>1 DEF Run
    <3> QED BY <1>2, <3>2, <3>3 DEF RunGoesOn
  <2> QED BY <2>1, <2>2, <2>3
<1>4. runs' \in [Request -> Run \cup {NoRun}] /\ RunsKept /\ NoNewRun
  BY <1>1, <1>2, <1>3, NoneAssumption DEF RunGoesOn, HostedTypeOK, RunsKept, RunKept, NoNewRun, Exists
<1>5. \A s \in Request : runs'[s] # NoRun =>
        (runs'[s].handoff # "none" => runs'[s].phase = "ended")
  BY <1>3 DEF RunGoesOn, HostedTypeOK, RunsAreAsked, Exists
<1> QED BY <1>1, <1>4, <1>5

(* What changes outside the pipeline.                                       *)
LEMMA SourceOutcome ==
  ASSUME HostedTypeOK,
         \/ \E t \in Target : \E rev \in Heads[t] \cup {Closed} : Move(t, rev)
         \/ NewTooling
  PROVE  /\ changes' = changes + 1
         /\ head' \in [Target -> Revision \cup {Closed}] /\ tooling' \in Nat \ {0}
         /\ UNCHANGED <<runs, asked, saved, scanner, manifest, assets, publisher>>
<1>1. ASSUME NEW t \in Target, NEW rev \in Heads[t] \cup {Closed}, Move(t, rev)
      PROVE  head' \in [Target -> Revision \cup {Closed}] /\ UNCHANGED tooling
  <2>1. rev \in Revision \cup {Closed}
    BY HostedAssumption
  <2> QED BY <1>1, <2>1 DEF Move, HostedTypeOK
<1>2. changes' = changes + 1 /\ UNCHANGED <<runs, asked, saved, scanner, manifest, assets, publisher>>
  BY DEF Move, NewTooling, scanVars, pubVars
<1> QED BY <1>1, <1>2 DEF NewTooling, HostedTypeOK

LEMMA PublishBeginOutcome ==
  ASSUME HostedTypeOK, PublishBegin
  PROVE  /\ publisher' \in Publisher /\ publisher'.todo = Present(publisher'.rows)
         /\ \A t \in Present(publisher'.rows) :
              LET row == publisher'.rows[t] IN
              \/ t \in Present(manifest) /\ row = manifest[t]
              \/ row.asset = 0 /\ row.status = "queued"
              \/ /\ t \in Present(manifest) /\ row.asset = manifest[t].asset
                 /\ row.analyzed = manifest[t].analyzed /\ row.status # "current"
         /\ UNCHANGED <<head, tooling, runs, asked, saved, scanner, manifest, assets, changes>>
<1> DEFINE scan == [t \in Target |-> IF saved.rows[t] = NoRow THEN NoRow
                                     ELSE Resolved(saved.rows[t])]
<1>1. PICK rows : rows = Reconciled(manifest, saved.manual, NewShown, Restale)
  OBVIOUS
<1>2. /\ rows \in [Target -> Shown \cup {NoRow}]
      /\ \A t \in Present(rows) :
           \/ t \in Present(manifest) /\ rows[t] = manifest[t]
           \/ rows[t].asset = 0 /\ rows[t].status = "queued"
           \/ /\ t \in Present(manifest) /\ rows[t].asset = manifest[t].asset
              /\ rows[t].analyzed = manifest[t].analyzed /\ rows[t].status # "current"
  BY <1>1, ShownReconciled DEF HostedTypeOK
<1>3. scan \in [Target -> Row \cup {NoRow}]
  <2>1. ASSUME NEW row \in Row PROVE Resolved(row) \in Row
    <3>1. \A r : Listed(r) => r \in RequestOrNone
      BY Bounds DEF Listed, Exists, Request, RequestOrNone
    <3> QED BY <3>1 DEF Resolved, Row
  <2>2. saved.rows \in [Target -> Row \cup {NoRow}]
    BY DEF HostedTypeOK, State
  <2> QED BY <2>1, <2>2
<1>4. /\ publisher' = [busy |-> TRUE, rows |-> rows, manual |-> saved.manual,
                       todo |-> Present(rows), scan |-> scan]
      /\ UNCHANGED <<head, tooling, runs, asked, saved, scanner, manifest, assets, changes>>
  BY <1>1 DEF PublishBegin, sourceVars, scanVars
<1> HIDE DEF scan
<1>5. publisher' \in Publisher /\ publisher'.rows = rows /\ publisher'.todo = Present(rows)
  BY <1>2, <1>3, <1>4 DEF Publisher, HostedTypeOK, State, Present
<1> QED BY <1>2, <1>4, <1>5
LEMMA InOrderStep == InOrder /\ [HostedNext]_hostedVars => InOrder'
<1> SUFFICES ASSUME InOrder, [HostedNext]_hostedVars PROVE InOrder'
  OBVIOUS
<1>0. HostedTypeOK /\ RunsAreAsked /\ ScanInOrder /\ PublishInOrder
  BY DEF InOrder
<1>1. ASSUME NEW refresh \in Target \cup {NoRow}, ScanBegin(refresh) PROVE InOrder'
  <2>1. /\ scanner' \in Scanner /\ scanner'.stage = "rows" /\ scanner'.tooling = tooling
        /\ scanner'.todo = Present(scanner'.state.rows)
        /\ changes' \in {changes, changes + 1}
        /\ UNCHANGED <<head, tooling, runs, asked, saved, manifest, assets, publisher>>
    BY <1>0, <1>1, ScanBeginOutcome
  <2>2. \A t \in Present(scanner'.state.rows) :
          \/ t \in Present(saved.rows) /\ scanner'.state.rows[t] = saved.rows[t]
          \/ scanner'.state.rows[t].request = 0
          \/ t \in Present(saved.rows) /\ scanner'.state.rows[t].request = saved.rows[t].request
    BY <1>0, <1>1, ScanBeginOutcome
  <2>3. HostedTypeOK'
    BY <1>0, <2>1 DEF HostedTypeOK
  <2>4. RunsAreAsked'
    BY <1>0, <2>1 DEF RunsAreAsked, Exists, HostedTypeOK, Run
  <2>5. ScanInOrder' /\ PublishInOrder'
    BY <1>0, <2>1, <2>2 DEF ScanInOrder, PublishInOrder, HostedTypeOK, RequestOrNone, Present
  <2> QED BY <2>3, <2>4, <2>5 DEF InOrder
<1>2. ASSUME NEW t \in Target, ScanRow(t) PROVE InOrder'
  <2>1. t \in Present(scanner.state.rows)
    BY <1>0, <1>2 DEF ScanRow, First, Asked, ScanInOrder
  <2>2. PICK row \in Row :
          \/ ScannedRow(t, row, "rows", scanner.at) /\ RowWatched(t, row)
          \/ ScannedRow(t, row, "rows", scanner.at) /\ RowReused(t, row)
          \/ ScannedRow(t, row, "dispatch", t) /\ RowAsked(t, row)
    BY <1>0, <1>2, <2>1, ScanRowOutcome
  <2>3. /\ scanner' \in Scanner
        /\ UNCHANGED <<head, tooling, runs, manifest, assets, publisher, changes, faults>>
    BY <1>0, <1>2, <2>1, ScanRowOutcome
  <2>4. /\ Present(scanner'.state.rows) = Present(scanner.state.rows)
        /\ scanner'.state.rows[t] = row
        /\ \A u \in Target \ {t} : scanner'.state.rows[u] = scanner.state.rows[u]
    BY <1>0, <2>1, <2>2, NoneAssumption DEF ScannedRow, Present, HostedTypeOK, Scanner, State
  <2>5. CASE UNCHANGED <<asked, saved>>
    <3>1. ScannedRow(t, row, "rows", scanner.at) /\ (row.request = 0 \/ row.request = scanner.state.rows[t].request)
      BY <1>0, <2>2, <2>5 DEF RowWatched, RowReused, RowAsked, HostedTypeOK, RequestOrNone
    <3>2. HostedTypeOK' /\ RunsAreAsked' /\ PublishInOrder'
      BY <1>0, <2>3, <2>5 DEF HostedTypeOK, RunsAreAsked, Exists, PublishInOrder
    <3>3. scanner'.stage = "rows" /\ scanner.stage = "rows" /\ scanner'.todo \subseteq scanner.todo /\ scanner'.tooling = scanner.tooling
      BY <3>1 DEF ScannedRow
    <3>4. \A u \in Present(scanner'.state.rows) : scanner'.state.rows[u].request <= asked
      BY <1>0, <2>1, <2>4, <3>1 DEF ScanInOrder, HostedTypeOK, RequestOrNone, Present
    <3>5. ScanInOrder'
      BY <1>0, <2>4, <2>5, <3>3, <3>4 DEF ScanInOrder
    <3> QED BY <3>2, <3>5 DEF InOrder
  <2>6. CASE RowAsked(t, row) /\ ScannedRow(t, row, "dispatch", t)
    <3>1. /\ asked' = asked + 1 /\ asked' \in Request /\ saved' = scanner'.state
          /\ asked' \in RequestOrNone /\ asked \in Nat
      BY <1>0, <2>6, Bounds DEF RowAsked, HostedTypeOK, RequestOrNone, Request
    <3>2. HostedTypeOK' /\ PublishInOrder'
      BY <1>0, <2>3, <3>1 DEF HostedTypeOK, PublishInOrder, Scanner
    <3>3. RunsAreAsked'
      BY <1>0, <2>3, <3>1 DEF RunsAreAsked, Exists, Request
    <3>4. ~Exists(asked')
      BY <1>0, <3>1 DEF RunsAreAsked
    <3>5. \A u \in Present(scanner'.state.rows) \ {t} :
            scanner'.state.rows[u].request <= asked /\ scanner'.state.rows[u].request \in Nat
      BY <1>0, <2>4 DEF ScanInOrder, HostedTypeOK, RequestOrNone, Present, Scanner, State, Row
    <3>6. /\ scanner'.stage = "dispatch" /\ scanner'.at = t /\ scanner'.tooling = scanner.tooling
          /\ scanner'.todo = scanner.todo \ {t} /\ scanner.stage = "rows"
          /\ row.key = scanner.tooling /\ row.tooling = scanner.tooling /\ row.request = asked'
      BY <2>6 DEF ScannedRow, RowAsked
    <3>7. \A u \in Present(scanner'.state.rows) : scanner'.state.rows[u].request <= asked'
      BY <2>4, <3>1, <3>5, <3>6
    <3>8. \A u \in Present(scanner'.state.rows) \ {t} : scanner'.state.rows[u].request # asked'
      BY <3>1, <3>5
    <3>9. ~Exists(asked)'
      BY <2>3, <3>4 DEF Exists
    <3>10. ScanInOrder'
      BY <1>0, <2>1, <2>4, <3>1, <3>6, <3>7, <3>8, <3>9 DEF ScanInOrder
    <3> QED BY <3>2, <3>3, <3>10 DEF InOrder
  <2> QED BY <2>2, <2>5, <2>6 DEF RowWatched, RowReused
<1>3. ASSUME Dispatch \/ (\E created \in BOOLEAN : DispatchFails(created)) PROVE InOrder'
  <2> DEFINE t == scanner.at
             row == scanner.state.rows[t]
  <2>1. scanner.stage = "dispatch"
    BY <1>3 DEF Dispatch, DispatchFails
  <2>2. /\ t \in Present(scanner.state.rows) \ scanner.todo /\ row.request = asked
        /\ asked \in Request /\ row.request \in Request
    BY <1>0, <2>1 DEF ScanInOrder
  <2>3. /\ UNCHANGED runs \/ RunCreated(t, row)
        /\ runs' \in [Request -> Run \cup {NoRun}]
        /\ UNCHANGED <<head, tooling, asked, saved, manifest, assets, publisher, changes>>
    BY <1>0, <1>3, <2>2, DispatchOutcome, DispatchFailsOutcome
  <2>4. RunsAreAsked'
    BY <1>0, <2>2, <2>3 DEF RunsAreAsked, RunCreated, Exists, HostedTypeOK, Request
  <2>5. CASE Dispatch
    <3>1. PICK next \in Row : RowSent(t, row, next)
      BY <1>0, <2>2, <2>5, DispatchOutcome
    <3>2. /\ scanner' \in Scanner /\ scanner'.stage = "rows" /\ scanner'.tooling = scanner.tooling
          /\ scanner'.todo = scanner.todo
      BY <1>0, <2>2, <2>5, DispatchOutcome
    <3>3. HostedTypeOK' /\ PublishInOrder'
      BY <1>0, <2>3, <3>2 DEF HostedTypeOK, PublishInOrder
    <3>4. /\ Present(scanner'.state.rows) = Present(scanner.state.rows)
          /\ \A u \in Present(scanner.state.rows) :
               scanner'.state.rows[u].request = scanner.state.rows[u].request
      BY <1>0, <2>2, <3>1, NoneAssumption DEF RowSent, Present, HostedTypeOK, Scanner, State
    <3>5. ScanInOrder'
      BY <1>0, <2>1, <2>3, <3>2, <3>4 DEF ScanInOrder
    <3> QED BY <2>4, <3>3, <3>5 DEF InOrder
  <2>6. CASE \E created \in BOOLEAN : DispatchFails(created)
    <3>1. scanner' = IdleScanner
      BY <2>6 DEF DispatchFails
    <3>2. HostedTypeOK' /\ PublishInOrder'
      BY <1>0, <2>3, <3>1, Idle DEF HostedTypeOK, PublishInOrder
    <3>3. ScanInOrder'
      BY <1>0, <2>3, <3>1, Idle DEF ScanInOrder
    <3> QED BY <2>4, <3>2, <3>3 DEF InOrder
  <2> QED BY <1>3, <2>5, <2>6
<1>4. CASE ScanEnd \/ ScanCrash
  <2>1. /\ scanner' = IdleScanner /\ saved' \in {saved, scanner.state}
        /\ UNCHANGED <<head, tooling, runs, asked, manifest, assets, publisher, changes>>
    BY <1>4 DEF ScanEnd, ScanCrash, sourceVars, pubVars
  <2>2. HostedTypeOK' /\ RunsAreAsked' /\ PublishInOrder'
    BY <1>0, <2>1, Idle DEF HostedTypeOK, RunsAreAsked, Exists, PublishInOrder, Scanner
  <2>3. ScanInOrder'
    BY <1>0, <2>1, Idle DEF ScanInOrder
  <2> QED BY <2>2, <2>3 DEF InOrder
<1>5. CASE PublishBegin
  <2>1. /\ publisher' \in Publisher /\ publisher'.todo = Present(publisher'.rows)
        /\ UNCHANGED <<head, tooling, runs, asked, saved, scanner, manifest, assets, changes>>
    BY <1>0, <1>5, PublishBeginOutcome
  <2> QED BY <1>0, <2>1 DEF InOrder, HostedTypeOK, RunsAreAsked, Exists, ScanInOrder, PublishInOrder
<1>6. ASSUME NEW t \in Target, PublishRow(t) PROVE InOrder'
  <2>1. t \in Present(publisher.rows)
    BY <1>0, <1>6 DEF PublishRow, First, PublishInOrder
  <2>2. /\ publisher' \in Publisher /\ assets' \subseteq Request
        /\ UNCHANGED <<head, tooling, runs, asked, saved, scanner, manifest, changes>>
    BY <1>0, <1>6, <2>1, PublishRowOutcome
  <2>3. PICK row \in Shown : publisher'.rows = [publisher.rows EXCEPT ![t] = row]
    BY <1>0, <1>6, <2>1, PublishRowOutcome
  <2>4. publisher'.todo \subseteq publisher.todo
    <3>1. \E any : Shows(t, any)
      BY <1>6 DEF PublishRow
    <3> QED BY <1>0, <3>1 DEF Shows, HostedTypeOK, Publisher
  <2>5. PublishInOrder'
    BY <1>0, <2>3, <2>4, NoneAssumption DEF PublishInOrder, Present, HostedTypeOK, Publisher
  <2> QED BY <1>0, <2>2, <2>5 DEF InOrder, HostedTypeOK, RunsAreAsked, Exists, ScanInOrder
<1>7. CASE PublishEnd \/ PublishCrash
  <2>1. /\ publisher' = IdlePublisher /\ manifest' \in {manifest, publisher.rows}
        /\ UNCHANGED <<head, tooling, runs, asked, saved, scanner, assets, changes>>
    BY <1>7 DEF PublishEnd, PublishCrash, sourceVars, scanVars
  <2>2. IdlePublisher.todo = {}
    BY DEF IdlePublisher
  <2> QED BY <1>0, <2>1, <2>2, Idle
          DEF InOrder, HostedTypeOK, RunsAreAsked, Exists, ScanInOrder, PublishInOrder, Publisher
<1>8. CASE \/ \E t \in Target : \E rev \in Heads[t] \cup {Closed} : Move(t, rev)
           \/ NewTooling
  <2>1. /\ changes' = changes + 1
        /\ head' \in [Target -> Revision \cup {Closed}] /\ tooling' \in Nat \ {0}
        /\ UNCHANGED <<runs, asked, saved, scanner, manifest, assets, publisher>>
    BY <1>0, <1>8, SourceOutcome
  <2>2. RunsAreAsked'
    BY <1>0, <2>1 DEF RunsAreAsked, Exists, HostedTypeOK, Run
  <2> QED BY <1>0, <2>1, <2>2 DEF InOrder, HostedTypeOK, Exists, ScanInOrder, PublishInOrder
<1>9. ASSUME NEW r \in Request,
             \/ \E handoff \in {"stored", "none"} : RunEnds(r, handoff)
             \/ Lists(r) \/ HandoffExpires(r)
      PROVE InOrder'
  <2>1. /\ runs' \in [Request -> Run \cup {NoRun}] /\ RunsKept /\ NoNewRun
        /\ \A s \in Request : runs'[s] # NoRun =>
             (runs'[s].handoff # "none" => runs'[s].phase = "ended")
        /\ UNCHANGED <<head, tooling, asked, saved, scanner, manifest, assets, publisher, changes>>
    BY <1>0, <1>9, RunProgress
  <2>2. RunsAreAsked'
    BY <1>0, <2>1 DEF RunsAreAsked, RunsKept, RunKept, NoNewRun, Exists
  <2>3. \A s : ~Exists(s) => ~Exists(s)'
    BY <2>1 DEF NoNewRun, Exists
  <2>4. ScanInOrder'
    BY <1>0, <2>1, <2>3 DEF ScanInOrder
  <2> QED BY <1>0, <2>1, <2>2, <2>4 DEF InOrder, HostedTypeOK, PublishInOrder
<1>10. CASE UNCHANGED hostedVars
  BY <1>0, <1>10 DEF hostedVars, InOrder, HostedTypeOK, RunsAreAsked, Exists, ScanInOrder, PublishInOrder
<1> QED BY <1>1, <1>2, <1>3, <1>4, <1>5, <1>6, <1>7, <1>8, <1>9, <1>10
        DEF HostedNext, ScanStep, PublishStep
LEMMA OrderInit == HostedInit => InOrder
<1> SUFFICES ASSUME HostedInit PROVE InOrder
  OBVIOUS
<1>1. RunsAreAsked
  BY DEF HostedInit, RunsAreAsked, Exists
<1>2. ScanInOrder
  BY Idle DEF HostedInit, ScanInOrder
<1>3. PublishInOrder
  BY DEF HostedInit, PublishInOrder, IdlePublisher
<1> QED BY <1>1, <1>2, <1>3, TypeInit DEF InOrder

(* Whatever crashes, is lost or comes late, what is stored has its shape.    *)
THEOREM HostedTypes == HostedSpec => []HostedTypeOK
<1>1. InOrder => HostedTypeOK
  BY DEF InOrder
<1> QED BY <1>1, OrderInit, InOrderStep, PTL DEF HostedSpec

RunMade ==
  /\ scanner.stage = "dispatch"
  /\ RunCreated(scanner.at, scanner.state.rows[scanner.at])
  /\ UNCHANGED <<head, tooling, saved, changes>>
(* A step keeps the runs there are and creates at most the one at hand.     *)
LEMMA RunsGrow ==
  ASSUME InOrder, [HostedNext]_hostedVars
  PROVE  /\ RunsKept
         /\ NoNewRun \/ RunMade
<1>0. HostedTypeOK /\ RunsAreAsked /\ ScanInOrder
  BY DEF InOrder
<1>1. CASE UNCHANGED runs
  BY <1>1 DEF RunsKept, RunKept, NoNewRun, Exists
<1>2. ASSUME Dispatch \/ (\E created \in BOOLEAN : DispatchFails(created)) PROVE  RunsKept /\ (NoNewRun \/ RunMade)
  <2> DEFINE t == scanner.at
             row == scanner.state.rows[t]
  <2>1. scanner.stage = "dispatch"
    BY <1>2 DEF Dispatch, DispatchFails
  <2>2. /\ t \in Present(scanner.state.rows) /\ row.request = asked
        /\ row.request \in Request /\ ~Exists(asked)
    BY <1>0, <2>1 DEF ScanInOrder
  <2>3. (UNCHANGED runs \/ RunCreated(t, row)) /\ UNCHANGED <<head, tooling, saved, changes>>
    BY <1>0, <1>2, <2>2, DispatchOutcome, DispatchFailsOutcome
  <2>4. RunCreated(t, row) => RunsKept
    BY <1>0, <2>2 DEF RunCreated, RunsKept, RunKept, Exists, HostedTypeOK
  <2> QED BY <1>1, <2>1, <2>3, <2>4 DEF RunMade
<1>3. ASSUME NEW r \in Request,
             \/ \E handoff \in {"stored", "none"} : RunEnds(r, handoff)
             \/ Lists(r) \/ HandoffExpires(r)
      PROVE  RunsKept /\ NoNewRun
  BY <1>0, <1>3, RunProgress
<1> QED BY <1>1, <1>2, <1>3
        DEF HostedNext, ScanBegin, ScanStep, ScanRow, ScanEnd, ScanCrash, PublishBegin, PublishStep,
            PublishRow, PublishEnd, PublishCrash, Move, NewTooling, hostedVars, pubVars
-----------------------------------------------------------------------------
(* The rows of the scan.                                                    *)

(* What a row says of its request and of the run it collects.               *)
RowTrue(t, row) ==
  /\ Exists(row.request) /\ row.key # 0 =>
       /\ runs[row.request].target = t /\ runs[row.request].head = row.head
       /\ runs[row.request].tooling = row.tooling
  /\ row.status = "collected" =>
       /\ Ended(row.run) /\ runs[row.run].head = row.head
       /\ runs[row.run].tooling = row.tooling
RowsTrue(rows) == \A t \in Present(rows) : RowTrue(t, rows[t])

(* Revisions are among those their target may have.                         *)
HeadsKnown ==
  /\ \A t \in Target : head[t] \in Heads[t] \cup {Closed}
  /\ \A t \in Present(saved.rows) : saved.rows[t].head \in Heads[t]
  /\ \A t \in Present(scanner.state.rows) : scanner.state.rows[t].head \in Heads[t]
  /\ \A r \in Request : Exists(r) => runs[r].head \in Heads[runs[r].target]

RowsInv == RowsTrue(saved.rows) /\ RowsTrue(scanner.state.rows) /\ HeadsKnown

RowStillTrue(t, row) ==
  /\ row.request \in Request /\ runs'[row.request] # NoRun /\ row.key # 0 =>
       /\ runs'[row.request].target = t /\ runs'[row.request].head = row.head
       /\ runs'[row.request].tooling = row.tooling
  /\ row.status = "collected" =>
       /\ row.run \in Request /\ runs'[row.run] # NoRun /\ runs'[row.run].phase = "ended"
       /\ runs'[row.run].head = row.head /\ runs'[row.run].tooling = row.tooling

(* A true row stays true while runs go on, and the run that is created is   *)
(* the one its row asked for.                                               *)
LEMMA RowStaysTrue ==
  ASSUME InOrder, [HostedNext]_hostedVars, NEW t \in Target, NEW row \in Row, RowTrue(t, row),
         RunMade => row.request # asked \/ (t = scanner.at /\ row = scanner.state.rows[t])
  PROVE  RowStillTrue(t, row)
<1>0. HostedTypeOK /\ ScanInOrder
  BY DEF InOrder
<1>1. RunsKept /\ (NoNewRun \/ RunMade)
  BY RunsGrow
<1>2. row.status = "collected" =>
        /\ row.run \in Request /\ runs'[row.run] # NoRun /\ runs'[row.run].phase = "ended"
        /\ runs'[row.run].head = row.head /\ runs'[row.run].tooling = row.tooling
  BY <1>1 DEF RowTrue, RunsKept, RunKept, Ended, Exists
<1>3. ASSUME row.request \in Request, runs'[row.request] # NoRun, row.key # 0
      PROVE  /\ runs'[row.request].target = t /\ runs'[row.request].head = row.head
             /\ runs'[row.request].tooling = row.tooling
  <2>1. CASE Exists(row.request)
    BY <1>1, <1>3, <2>1 DEF RowTrue, RunsKept, RunKept
  <2>2. CASE ~Exists(row.request)
    <3>1. RunMade
      BY <1>1, <1>3, <2>2 DEF NoNewRun
    <3>2. scanner.state.rows[scanner.at].request = asked
      BY <1>0, <3>1 DEF RunMade, ScanInOrder
    <3>3. runs' = [runs EXCEPT ![asked] = runs'[asked]]
      BY <3>1, <3>2 DEF RunMade, RunCreated
    <3>4. row.request = asked
      BY <1>0, <1>3, <2>2, <3>3 DEF Exists, HostedTypeOK
    <3> QED BY <3>1, <3>2, <3>4 DEF RunMade, RunCreated
  <2> QED BY <2>1, <2>2
<1> QED BY <1>2, <1>3 DEF RowStillTrue

LEMMA RowsStayTrue ==
  ASSUME InOrder, [HostedNext]_hostedVars, RowsInv
  PROVE  /\ \A t \in Present(saved.rows) : RowStillTrue(t, saved.rows[t])
         /\ \A t \in Present(scanner.state.rows) : RowStillTrue(t, scanner.state.rows[t])
<1>0. HostedTypeOK /\ ScanInOrder
  BY DEF InOrder
<1>1. /\ \A t \in Present(saved.rows) : t \in Target /\ saved.rows[t] \in Row
      /\ \A t \in Present(scanner.state.rows) : t \in Target /\ scanner.state.rows[t] \in Row
  BY <1>0 DEF HostedTypeOK, State, Scanner, Present
<1>2. RunMade => /\ saved.rows = scanner.state.rows
                 /\ \A t \in Present(scanner.state.rows) :
                      t = scanner.at \/ scanner.state.rows[t].request # asked
  BY <1>0 DEF RunMade, ScanInOrder
<1> QED BY <1>1, <1>2, RowStaysTrue DEF RowsInv, RowsTrue

(* The scan's new rows are true: they are as they were, wait for a key, or  *)
(* take over what another row of the same revision has.                     *)
LEMMA ScanRowTrue ==
  ASSUME InOrder, RowsInv, NEW t \in Target, ScanRow(t), UNCHANGED runs,
         \A u \in Present(scanner.state.rows) : RowStillTrue(u, scanner.state.rows[u])
  PROVE  \A u \in Present(scanner'.state.rows) :
           /\ RowStillTrue(u, scanner'.state.rows[u])
           /\ scanner'.state.rows[u].head \in Heads[u]
<1>0. HostedTypeOK /\ ScanInOrder /\ RunsAreAsked
  BY DEF InOrder
<1>1. t \in Present(scanner.state.rows)
  BY <1>0 DEF ScanRow, First, Asked, ScanInOrder
<1>2. PICK row \in Row :
        \/ ScannedRow(t, row, "rows", scanner.at) /\ RowWatched(t, row)
        \/ ScannedRow(t, row, "rows", scanner.at) /\ RowReused(t, row)
        \/ ScannedRow(t, row, "dispatch", t) /\ RowAsked(t, row)
  BY <1>0, <1>1, ScanRowOutcome
<1>3. /\ scanner'.state.rows[t] = row /\ row.head = scanner.state.rows[t].head
      /\ Present(scanner'.state.rows) = Present(scanner.state.rows)
      /\ \A u \in Target \ {t} : scanner'.state.rows[u] = scanner.state.rows[u]
  BY <1>0, <1>1, <1>2, NoneAssumption DEF ScannedRow, Present, HostedTypeOK, Scanner, State
<1>4. row.head \in Heads[t]
  BY <1>1, <1>3 DEF RowsInv, HeadsKnown
<1>5. scanner.tooling # 0 /\ row.key = scanner.tooling
  BY <1>0, <1>2 DEF ScannedRow, ScanInOrder
<1>6. RowStillTrue(t, row)
  <2>1. CASE RowWatched(t, row)
    <3>1. RowStillTrue(t, scanner.state.rows[t])
      BY <1>1
    <3> QED BY <1>3, <1>5, <2>1, <3>1 DEF RowWatched, RowStillTrue, Ended, Exists
  <2>2. CASE RowReused(t, row)
    <3>1. PICK u \in Present(scanner.state.rows) :
            LET other == scanner.state.rows[u] IN
            /\ other.status = "collected" /\ other.head = row.head
            /\ row.run = other.run /\ row.tooling = other.tooling
      BY <2>2 DEF RowReused
    <3>2. RowStillTrue(u, scanner.state.rows[u])
      OBVIOUS
    <3>3. row.request \notin Request
      BY <2>2 DEF RowReused, Request
    <3> QED BY <3>1, <3>2, <3>3 DEF RowStillTrue
  <2>3. CASE RowAsked(t, row)
    <3>1. asked + 1 \in Request /\ asked \in Nat
      BY <1>0, <2>3, Bounds DEF RowAsked, HostedTypeOK, RequestOrNone, Request
    <3>2. ~Exists(asked + 1)
      BY <1>0, <3>1 DEF RunsAreAsked
    <3>3. row.request = asked + 1 /\ row.status # "collected"
      BY <2>3 DEF RowAsked
    <3> QED BY <3>2, <3>3 DEF RowStillTrue, Exists
  <2> QED BY <1>2, <2>1, <2>2, <2>3
<1> QED BY <1>0, <1>3, <1>4, <1>6 DEF RowsInv, HeadsKnown, Present

RowsKnown ==
  /\ \A t \in Present(saved'.rows) :
       RowStillTrue(t, saved'.rows[t]) /\ saved'.rows[t].head \in Heads[t]
  /\ \A t \in Present(scanner'.state.rows) :
       RowStillTrue(t, scanner'.state.rows[t]) /\ scanner'.state.rows[t].head \in Heads[t]
  /\ \A t \in Target : head'[t] \in Heads[t] \cup {Closed}

LEMMA RowsStep == InOrder /\ RowsInv /\ [HostedNext]_hostedVars => RowsInv'
<1> SUFFICES ASSUME InOrder, RowsInv, [HostedNext]_hostedVars PROVE RowsInv'
  OBVIOUS
<1>0. HostedTypeOK /\ ScanInOrder /\ RunsAreAsked
  BY DEF InOrder
<1>1. /\ \A t \in Present(saved.rows) :
            RowStillTrue(t, saved.rows[t]) /\ saved.rows[t].head \in Heads[t]
      /\ \A t \in Present(scanner.state.rows) :
            RowStillTrue(t, scanner.state.rows[t]) /\ scanner.state.rows[t].head \in Heads[t]
  BY RowsStayTrue DEF RowsInv, HeadsKnown
<1>2. SUFFICES RowsKnown
  <2>1. (\A r \in Request : Exists(r) => runs[r].head \in Heads[runs[r].target])'
    <3> SUFFICES ASSUME NEW r \in Request, runs'[r] # NoRun
                 PROVE  runs'[r].head \in Heads[runs'[r].target]
      BY DEF Exists
    <3>1. CASE Exists(r)
      BY <3>1, RunsGrow DEF RowsInv, HeadsKnown, RunsKept, RunKept
    <3>2. CASE ~Exists(r)
      <4>1. RunMade
        BY <3>2, RunsGrow DEF NoNewRun
      <4>2. /\ scanner.at \in Present(scanner.state.rows)
            /\ scanner.state.rows[scanner.at].request = asked
        BY <1>0, <4>1 DEF RunMade, ScanInOrder
      <4>3. r = asked
        BY <1>0, <3>2, <4>1, <4>2 DEF RunMade, RunCreated, Exists, HostedTypeOK
      <4> QED BY <1>1, <4>1, <4>2, <4>3 DEF RunMade, RunCreated
    <3> QED BY <3>1, <3>2
  <2> QED BY <2>1 DEF RowsKnown, RowsInv, RowsTrue, RowTrue, RowStillTrue, HeadsKnown, Present, Ended, Exists
<1>3. ASSUME NEW refresh \in Target \cup {NoRow}, ScanBegin(refresh) PROVE RowsKnown
  <2>1. UNCHANGED <<head, saved, runs>>
    BY <1>0, <1>3, ScanBeginOutcome
  <2>2. ASSUME NEW t \in Present(scanner'.state.rows)
        PROVE  /\ RowStillTrue(t, scanner'.state.rows[t])
               /\ scanner'.state.rows[t].head \in Heads[t]
    <3> DEFINE row == scanner'.state.rows[t]
    <3>1. /\ t \in Inventory(scanner'.state.manual) /\ row.head = head[t]
          /\ \/ t \in Present(saved.rows) /\ row = saved.rows[t]
             \/ row.status = "queued" /\ row.request = 0
             \/ /\ t \in Present(saved.rows) /\ row.request = saved.rows[t].request
                /\ row.key = 0 /\ row.status = "queued"
      BY <1>0, <1>3, ScanBeginOutcome
    <3>2. row.head \in Heads[t]
      BY <3>1 DEF Inventory, RowsInv, HeadsKnown
    <3> DEFINE old == saved.rows[t]
    <3>3. \/ t \in Present(saved.rows) /\ row = old
          \/ row.status = "queued" /\ row.request = 0
          \/ row.status = "queued" /\ row.key = 0
      BY <3>1
    <3>4. t \in Present(saved.rows) => RowStillTrue(t, old)
      BY <1>1
    <3> HIDE DEF row, old
    <3>5. RowStillTrue(t, row)
      BY <3>3, <3>4 DEF RowStillTrue, Request
    <3> QED BY <3>2, <3>5 DEF row
  <2> QED BY <1>1, <2>1, <2>2 DEF RowsKnown, RowsInv, HeadsKnown
<1>4. ASSUME NEW t \in Target, ScanRow(t) PROVE RowsKnown
  <2>1. t \in Present(scanner.state.rows)
    BY <1>0, <1>4 DEF ScanRow, First, Asked, ScanInOrder
  <2>2. UNCHANGED <<head, runs>> /\ (UNCHANGED saved \/ saved' = scanner'.state)
    BY <1>0, <1>4, <2>1, ScanRowOutcome DEF RowWatched, RowReused, RowAsked
  <2>3. \A u \in Present(scanner'.state.rows) :
           /\ RowStillTrue(u, scanner'.state.rows[u])
           /\ scanner'.state.rows[u].head \in Heads[u]
    BY <1>1, <1>4, <2>2, ScanRowTrue
  <2> QED BY <1>1, <2>2, <2>3 DEF RowsKnown, RowsInv, HeadsKnown
<1>5. CASE Dispatch
  <2> DEFINE t == scanner.at
             row == scanner.state.rows[t]
  <2>1. scanner.stage = "dispatch"
    BY <1>5 DEF Dispatch
  <2>2. t \in Present(scanner.state.rows) /\ row.request = asked /\ row.request \in Request
    BY <1>0, <2>1 DEF ScanInOrder
  <2>3. PICK next \in Row : RowSent(t, row, next)
    BY <1>0, <1>5, <2>2, DispatchOutcome
  <2>4. UNCHANGED <<head, saved>>
    BY <1>5 DEF Dispatch, sourceVars
  <2>5. RowStillTrue(t, next) /\ next.head \in Heads[t]
    <3>1. RowStillTrue(t, row) /\ row.head \in Heads[t]
      BY <1>1, <2>2
    <3> HIDE DEF row, t
    <3> QED BY <2>2, <2>3, <3>1 DEF RowSent, RowStillTrue
  <2>6. /\ Present(scanner'.state.rows) = Present(scanner.state.rows)
        /\ scanner'.state.rows[t] = next
        /\ \A u \in Target \ {t} : scanner'.state.rows[u] = scanner.state.rows[u]
    BY <1>0, <2>2, <2>3, NoneAssumption DEF RowSent, Present, HostedTypeOK, Scanner, State
  <2> QED BY <1>1, <2>4, <2>5, <2>6 DEF RowsKnown, RowsInv, HeadsKnown, Present
<1>6. CASE (\E created \in BOOLEAN : DispatchFails(created)) \/ ScanEnd \/ ScanCrash
  <2>1. /\ scanner' = IdleScanner /\ (UNCHANGED saved \/ saved' = scanner.state) /\ UNCHANGED head
    BY <1>6 DEF DispatchFails, ScanEnd, ScanCrash, sourceVars
  <2> QED BY <1>1, <2>1, Idle DEF RowsKnown, RowsInv, HeadsKnown
<1>7. ASSUME NEW t \in Target, NEW rev \in Heads[t] \cup {Closed}, Move(t, rev) PROVE RowsKnown
  <2>1. UNCHANGED <<saved, scanner>> /\ head' = [head EXCEPT ![t] = rev]
    BY <1>7 DEF Move, scanVars
  <2> QED BY <1>0, <1>1, <2>1 DEF RowsKnown, RowsInv, HeadsKnown, HostedTypeOK
<1>8. CASE UNCHANGED <<head, saved, scanner>>
  BY <1>1, <1>8 DEF RowsKnown, RowsInv, HeadsKnown
<1> QED BY <1>3, <1>4, <1>5, <1>6, <1>7, <1>8
        DEF HostedNext, ScanStep, PublishBegin, PublishStep, PublishRow, PublishEnd, PublishCrash,
            NewTooling, RunEnds, Lists, HandoffExpires, hostedVars, scanVars, sourceVars
LEMMA RowsHold == HostedSpec => [](InOrder /\ RowsInv)
<1>1. HostedInit => InOrder /\ RowsInv
  <2> SUFFICES ASSUME HostedInit PROVE InOrder /\ RowsInv
    OBVIOUS
  <2>1. InOrder
    BY OrderInit
  <2>2. saved.rows = NoRows /\ scanner.state.rows = NoRows
    BY Idle DEF HostedInit
  <2>3. RowsTrue(saved.rows) /\ RowsTrue(scanner.state.rows)
    BY <2>2, Idle DEF RowsTrue
  <2>4. HeadsKnown
    BY <2>2, Idle DEF HostedInit, HeadsKnown, Exists
  <2> QED BY <2>1, <2>3, <2>4 DEF RowsInv
<1> QED BY <1>1, InOrderStep, RowsStep, PTL DEF HostedSpec

(* Whatever the kinds of targets, what the scan calls collected is the      *)
(* row's own revision, analysed with the tooling the row names.             *)
THEOREM CollectedExactly == HostedSpec => []CollectedIsExact
<1>1. InOrder /\ RowsInv => CollectedIsExact
  BY DEF RowsInv, RowsTrue, RowTrue, CollectedIsExact
<1> QED BY <1>1, RowsHold, PTL

-----------------------------------------------------------------------------
(* What is shown.                                                           *)

(* What a row of the manifest, published or in the making, says.            *)
Genuine(t, row) ==
  /\ row.asset # 0 =>
       /\ row.asset \in assets
       /\ Exists(row.asset) /\ runs[row.asset].handoff # "none"
       /\ runs[row.asset].head = row.analyzed /\ SameEvidence(runs[row.asset].target, t)
  /\ row.status = "current" => row.asset # 0 /\ row.analyzed = row.head
AllGenuine(rows) == \A t \in Present(rows) : Genuine(t, rows[t])
ShownInv == AllGenuine(manifest) /\ AllGenuine(publisher.rows)

StillGenuine(t, row) ==
  /\ row.asset # 0 =>
       /\ row.asset \in assets' /\ row.asset \in Request
       /\ runs'[row.asset] # NoRun /\ runs'[row.asset].handoff # "none"
       /\ runs'[row.asset].head = row.analyzed /\ SameEvidence(runs'[row.asset].target, t)
  /\ row.status = "current" => row.asset # 0 /\ row.analyzed = row.head

LEMMA ShownStep == InOrder /\ ShownInv /\ [HostedNext]_hostedVars => ShownInv'
<1> SUFFICES ASSUME InOrder, ShownInv, [HostedNext]_hostedVars PROVE ShownInv'
  OBVIOUS
<1>0. HostedTypeOK /\ PublishInOrder
  BY DEF InOrder
<1>1. SUFFICES /\ \A t \in Present(manifest') : StillGenuine(t, manifest'[t])
               /\ \A t \in Present(publisher'.rows) : StillGenuine(t, publisher'.rows[t])
  BY DEF ShownInv, AllGenuine, Genuine, StillGenuine, Present, Exists, SameEvidence
<1>2. RunsKept
  BY RunsGrow
<1>3. assets \subseteq assets'
  <2>1. ASSUME NEW t \in Target, PublishRow(t) PROVE assets \subseteq assets'
    BY <2>1 DEF PublishRow
  <2> QED BY <2>1
          DEF HostedNext, ScanBegin, ScanStep, ScanRow, Dispatch, DispatchFails, ScanEnd, ScanCrash,
              PublishBegin, PublishStep, PublishEnd, PublishCrash, Move, NewTooling, RunEnds, Lists,
              HandoffExpires, hostedVars, pubVars
<1>4. ASSUME NEW t, NEW row, Genuine(t, row) PROVE StillGenuine(t, row)
  BY <1>2, <1>3, <1>4 DEF Genuine, StillGenuine, RunsKept, RunKept, Exists
<1>5. /\ \A t \in Present(manifest) : StillGenuine(t, manifest[t])
      /\ \A t \in Present(publisher.rows) : StillGenuine(t, publisher.rows[t])
  BY <1>4 DEF ShownInv, AllGenuine
<1>6. CASE PublishBegin
  <2>1. \A t \in Present(publisher'.rows) :
          LET row == publisher'.rows[t] IN
          \/ t \in Present(manifest) /\ row = manifest[t]
          \/ row.asset = 0 /\ row.status = "queued"
          \/ /\ t \in Present(manifest) /\ row.asset = manifest[t].asset
             /\ row.analyzed = manifest[t].analyzed /\ row.status # "current"
    BY <1>0, <1>6, PublishBeginOutcome
  <2>2. UNCHANGED manifest
    BY <1>6 DEF PublishBegin
  <2> QED BY <1>5, <2>1, <2>2 DEF StillGenuine
<1>7. ASSUME NEW t \in Target, PublishRow(t)
      PROVE  /\ UNCHANGED manifest
             /\ \A u \in Present(publisher'.rows) : StillGenuine(u, publisher'.rows[u])
  <2>1. t \in Present(publisher.rows)
    BY <1>0, <1>7 DEF PublishRow, First, PublishInOrder
  <2>2. PICK row \in Shown :
          /\ publisher'.rows = [publisher.rows EXCEPT ![t] = row]
          /\ \/ row = publisher.rows[t]
             \/ /\ row.asset = publisher.rows[t].asset
                /\ row.analyzed = publisher.rows[t].analyzed /\ row.status # "current"
             \/ /\ row.asset \in assets' /\ Ended(row.asset)
                /\ runs[row.asset].handoff = "stored" /\ SameEvidence(runs[row.asset].target, t)
                /\ row.analyzed = runs[row.asset].head /\ row.head = row.analyzed
    BY <1>0, <1>7, <2>1, PublishRowOutcome
  <2>3. UNCHANGED <<runs, manifest>>
    BY <1>7 DEF PublishRow
  <2>4. StillGenuine(t, row)
    BY <1>5, <2>1, <2>2, <2>3 DEF StillGenuine, Ended, Exists, Request
  <2> QED BY <1>0, <1>5, <2>2, <2>3, <2>4 DEF Present, HostedTypeOK, Publisher
<1>8. CASE PublishEnd \/ PublishCrash
  <2>1. publisher' = IdlePublisher /\ manifest' \in {manifest, publisher.rows}
    BY <1>8 DEF PublishEnd, PublishCrash
  <2> QED BY <1>5, <2>1, Idle
<1>9. CASE UNCHANGED <<manifest, publisher>>
  BY <1>5, <1>9
<1> QED BY <1>5, <1>6, <1>7, <1>8, <1>9
        DEF HostedNext, ScanBegin, ScanStep, ScanRow, Dispatch, DispatchFails, ScanEnd, ScanCrash,
            PublishStep, Move, NewTooling, RunEnds, Lists, HandoffExpires, hostedVars, pubVars

(* The manifest never lists a report that is not there, not finished, or of *)
(* another revision or target than it says.                                 *)
THEOREM GenuineReports == HostedSpec => []ShownIsGenuine
<1>1. HostedInit => InOrder /\ ShownInv
  <2> SUFFICES ASSUME HostedInit PROVE InOrder /\ ShownInv
    OBVIOUS
  <2>1. manifest = NoRows /\ publisher.rows = NoRows
    BY Idle DEF HostedInit
  <2> QED BY <2>1, OrderInit, Idle DEF ShownInv, AllGenuine
<1>2. ShownInv => ShownIsGenuine
  BY DEF ShownInv, AllGenuine, Genuine, ShownIsGenuine
<1> QED BY <1>1, <1>2, InOrderStep, ShownStep, PTL DEF HostedSpec
-----------------------------------------------------------------------------
(* What is dispatched.                                                      *)

(* The rows of a state are of targets it selects.                           *)
Selected(state) == \A t \in Present(state.rows) : Kind[t] = "commit" => t = state.manual
SelectedInv == Selected(saved) /\ Selected(scanner.state)

LEMMA SelectedStep == InOrder /\ SelectedInv /\ [HostedNext]_hostedVars => SelectedInv'
<1> SUFFICES ASSUME InOrder, SelectedInv, [HostedNext]_hostedVars PROVE SelectedInv'
  OBVIOUS
<1>0. HostedTypeOK /\ ScanInOrder
  BY DEF InOrder
<1>1. SUFFICES /\ \A t \in Present(saved'.rows) : Kind[t] = "commit" => t = saved'.manual
               /\ \A t \in Present(scanner'.state.rows) :
                    Kind[t] = "commit" => t = scanner'.state.manual
  BY DEF SelectedInv, Selected
<1>2. /\ \A t \in Present(saved.rows) : Kind[t] = "commit" => t = saved.manual
      /\ \A t \in Present(scanner.state.rows) : Kind[t] = "commit" => t = scanner.state.manual
  BY DEF SelectedInv, Selected
<1>3. ASSUME NEW refresh \in Target \cup {NoRow}, ScanBegin(refresh)
      PROVE  /\ UNCHANGED saved
             /\ \A t \in Present(scanner'.state.rows) :
                  Kind[t] = "commit" => t = scanner'.state.manual
  BY <1>0, <1>3, ScanBeginOutcome DEF Inventory
<1>4. ASSUME NEW t \in Target, ScanRow(t)
      PROVE  /\ UNCHANGED saved \/ saved' = scanner'.state
             /\ \A u \in Present(scanner'.state.rows) :
                  Kind[u] = "commit" => u = scanner'.state.manual
  <2>1. t \in Present(scanner.state.rows)
    BY <1>0, <1>4 DEF ScanRow, First, Asked, ScanInOrder
  <2>2. PICK row \in Row : \E stage, at :
          ScannedRow(t, row, stage, at) /\ (UNCHANGED saved \/ saved' = scanner'.state)
    BY <1>0, <1>4, <2>1, ScanRowOutcome DEF RowWatched, RowReused, RowAsked
  <2>3. /\ Present(scanner'.state.rows) = Present(scanner.state.rows)
        /\ scanner'.state.manual = scanner.state.manual
    BY <1>0, <2>1, <2>2, NoneAssumption DEF ScannedRow, Present, HostedTypeOK, Scanner, State
  <2> QED BY <1>2, <2>2, <2>3
<1>5. CASE Dispatch
  <2>1. scanner.stage = "dispatch"
    BY <1>5 DEF Dispatch
  <2>2. /\ scanner.at \in Present(scanner.state.rows)
        /\ scanner.state.rows[scanner.at].request \in Request
    BY <1>0, <2>1 DEF ScanInOrder
  <2>3. /\ UNCHANGED saved /\ scanner'.state.manual = scanner.state.manual
        /\ \E next \in Row : RowSent(scanner.at, scanner.state.rows[scanner.at], next)
    BY <1>0, <1>5, <2>2, DispatchOutcome
  <2>4. Present(scanner'.state.rows) = Present(scanner.state.rows)
    BY <1>0, <2>2, <2>3, NoneAssumption DEF RowSent, Present, HostedTypeOK, Scanner, State
  <2> QED BY <1>2, <2>3, <2>4
<1>6. CASE (\E created \in BOOLEAN : DispatchFails(created)) \/ ScanEnd \/ ScanCrash
  <2>1. scanner' = IdleScanner /\ (UNCHANGED saved \/ saved' = scanner.state)
    BY <1>6 DEF DispatchFails, ScanEnd, ScanCrash
  <2> QED BY <1>2, <2>1, Idle
<1>7. CASE UNCHANGED <<saved, scanner>>
  BY <1>2, <1>7
<1> QED BY <1>2, <1>3, <1>4, <1>5, <1>6, <1>7
        DEF HostedNext, ScanStep, PublishBegin, PublishStep, PublishRow, PublishEnd, PublishCrash,
            Move, NewTooling, RunEnds, Lists, HandoffExpires, hostedVars, scanVars

(* A run dispatched since the last change that has not lost its report.     *)
Standing(r) == Exists(r) /\ runs[r].at = changes /\ ~(Ended(r) /\ ~Usable(r))
OfNow(r) == runs[r].head = head[runs[r].target] /\ runs[r].tooling = tooling

(* It is the request of its target's row, unless the target or the tooling  *)
(* has moved on, so the next scan waits for it.                             *)
RememberedBy(r, rows) ==
  LET t == runs[r].target IN
  /\ t \in Present(rows) /\ rows[t].request = r
  /\ rows[t].key = tooling /\ rows[t].head = head[t]
Remembered(rows) == \A r \in Request : Standing(r) /\ OfNow(r) => RememberedBy(r, rows)

(* A row still to be scanned while its target has such a run was read after *)
(* the last change.                                                         *)
ReadSince ==
  \A r \in Request :
    scanner.stage # "idle" /\ Standing(r) /\ runs[r].target \in scanner.todo =>
      /\ scanner.tooling = tooling
      /\ scanner.state.rows[runs[r].target].head = head[runs[r].target]

(* One about to be dispatched has none.                                     *)
NotYetDispatched ==
  scanner.stage = "dispatch" =>
    LET row == scanner.state.rows[scanner.at] IN
    \A r \in Request : Standing(r) /\ runs[r].target = scanner.at =>
      ~(runs[r].head = row.head /\ runs[r].tooling = row.tooling)

OnceInv ==
  /\ Remembered(saved.rows) /\ (scanner.stage # "idle" => Remembered(scanner.state.rows))
  /\ ReadSince /\ NotYetDispatched /\ DispatchOnce

StillStanding(r) ==
  /\ runs'[r] # NoRun /\ runs'[r].at = changes'
  /\ ~(runs'[r].phase = "ended" /\ runs'[r].handoff # "stored")

(* A change leaves no run standing; without one, what stands was standing   *)
(* or has just been created.                                                *)
LEMMA StandingStep ==
  ASSUME InOrder, [HostedNext]_hostedVars, NEW r \in Request, StillStanding(r)
  PROVE  /\ UNCHANGED <<head, tooling, changes>>
         /\ \/ /\ Standing(r)
               /\ runs'[r].target = runs[r].target /\ runs'[r].head = runs[r].head
               /\ runs'[r].tooling = runs[r].tooling
            \/ RunMade /\ r = asked
<1>0. HostedTypeOK /\ RunsAreAsked /\ ScanInOrder
  BY DEF InOrder
<1>1. \/ UNCHANGED <<head, tooling, changes>>
      \/ UNCHANGED runs /\ changes' = changes + 1
  BY DEF HostedNext, ScanBegin, ScanStep, ScanRow, Dispatch, DispatchFails, ScanEnd, ScanCrash,
         PublishBegin, PublishStep, PublishRow, PublishEnd, PublishCrash, Move, NewTooling, RunEnds,
         Lists, HandoffExpires, hostedVars, sourceVars
<1>2. UNCHANGED <<head, tooling, changes>>
  BY <1>0, <1>1 DEF StillStanding, RunsAreAsked, Exists, HostedTypeOK, Run
<1>3. RunsKept /\ (NoNewRun \/ RunMade)
  BY RunsGrow
<1>4. CASE Exists(r)
  BY <1>2, <1>3, <1>4 DEF RunsKept, RunKept, StillStanding, Standing, Ended, Usable
<1>5. CASE ~Exists(r)
  <2>1. RunMade
    BY <1>3, <1>5 DEF NoNewRun, StillStanding
  <2>2. runs' = [runs EXCEPT ![asked] = runs'[asked]]
    BY <1>0, <2>1 DEF RunMade, RunCreated, ScanInOrder
  <2> QED BY <1>0, <1>2, <1>5, <2>1, <2>2 DEF Exists, HostedTypeOK, StillStanding
<1> QED BY <1>2, <1>4, <1>5
(* The scan asks for nothing at a row whose target has a run standing, of   *)
(* the row's revision and tooling or of what the source has now.            *)
LEMMA ScanWaits ==
  ASSUME OnceInv, NEW t \in scanner.todo, NEW r \in Request, scanner.stage = "rows",
         Standing(r), runs[r].target = t,
         \/ OfNow(r)
         \/ runs[r].head = scanner.state.rows[t].head /\ runs[r].tooling = scanner.tooling
  PROVE  ~NothingAsked(t)
<1>1. scanner.tooling = tooling /\ scanner.state.rows[t].head = head[t]
  BY DEF OnceInv, ReadSince
<1>2. OfNow(r)
  BY <1>1 DEF OfNow
<1>3. RememberedBy(r, scanner.state.rows)
  BY <1>2 DEF OnceInv, Remembered
<1> QED BY <1>1, <1>3 DEF RememberedBy, NothingAsked, LostOf, Standing, Request

(* The row of a run's target names it after a step as it did before.        *)
Recalled(r, rows) ==
  LET t == runs'[r].target IN
  /\ t \in Present(rows) /\ rows[t].request = r
  /\ rows[t].key = tooling /\ rows[t].head = head[t]

LEMMA RecallStep ==
  ASSUME InOrder, SelectedInv, OnceInv, [HostedNext]_hostedVars,
         NEW r \in Request, StillStanding(r),
         runs'[r].head = head[runs'[r].target], runs'[r].tooling = tooling
  PROVE  /\ Recalled(r, saved'.rows)
         /\ scanner'.stage # "idle" => Recalled(r, scanner'.state.rows)
<1>0. HostedTypeOK /\ ScanInOrder
  BY DEF InOrder
<1>1. /\ UNCHANGED <<head, tooling, changes>>
      /\ \/ /\ Standing(r)
            /\ runs'[r].target = runs[r].target /\ runs'[r].head = runs[r].head
            /\ runs'[r].tooling = runs[r].tooling
         \/ RunMade /\ r = asked
  BY StandingStep
<1>2. Recalled(r, saved.rows) /\ (scanner.stage # "idle" => Recalled(r, scanner.state.rows))
  <2>1. CASE /\ Standing(r)
             /\ runs'[r].target = runs[r].target /\ runs'[r].head = runs[r].head
             /\ runs'[r].tooling = runs[r].tooling
    <3>1. OfNow(r)
      BY <2>1 DEF OfNow
    <3> QED BY <2>1, <3>1 DEF OnceInv, Remembered, RememberedBy, Recalled
  <2>2. CASE RunMade /\ r = asked
    BY ZenonT(30), <1>0, <2>2 DEF RunMade, RunCreated, ScanInOrder, Recalled
  <2> QED BY <1>1, <2>1, <2>2
<1> DEFINE t == runs'[r].target
<1>3. ASSUME NEW refresh \in Target \cup {NoRow}, ScanBegin(refresh)
      PROVE  UNCHANGED saved /\ Recalled(r, scanner'.state.rows)
  <2>1. /\ scanner'.state.manual = saved.manual /\ UNCHANGED saved
        /\ \A u \in Present(saved.rows) :
             u \in Inventory(scanner'.state.manual) /\ saved.rows[u].head = head[u]
               => scanner'.state.rows[u] = saved.rows[u]
    BY <1>0, <1>1, <1>3, ScanBeginOutcome DEF HostedTypeOK
  <2>2. t \in Present(saved.rows) /\ saved.rows[t].head = head[t]
    BY <1>2 DEF Recalled
  <2>3. saved.rows[t] \in Row /\ t \in Target
    BY <1>0, <2>2 DEF HostedTypeOK, State, Present
  <2>4. t \in Inventory(scanner'.state.manual)
    BY <2>1, <2>2, <2>3, HostedAssumption DEF SelectedInv, Selected, Inventory, Row
  <2>5. scanner'.state.rows[t] = saved.rows[t]
    BY <2>1, <2>2, <2>4
  <2> QED BY <1>2, <2>1, <2>2, <2>5 DEF Recalled, Present
<1>4. ASSUME NEW u \in Target, ScanRow(u)
      PROVE  /\ UNCHANGED saved \/ saved' = scanner'.state
             /\ Recalled(r, scanner'.state.rows)
  <2>1. /\ u \in Present(scanner.state.rows) /\ UNCHANGED runs
        /\ u \in scanner.todo /\ scanner.stage = "rows"
    BY <1>0, <1>4 DEF ScanRow, First, Asked, ScanInOrder
  <2>2. PICK row \in Row :
          \/ ScannedRow(u, row, "rows", scanner.at) /\ RowWatched(u, row)
          \/ ScannedRow(u, row, "rows", scanner.at) /\ RowReused(u, row)
          \/ ScannedRow(u, row, "dispatch", u) /\ RowAsked(u, row)
    BY <1>0, <1>4, <2>1, ScanRowOutcome
  <2>3. /\ scanner'.state.rows[u] = row /\ row.head = scanner.state.rows[u].head
        /\ row.key = scanner.tooling
        /\ Present(scanner'.state.rows) = Present(scanner.state.rows)
        /\ \A v \in Target \ {u} : scanner'.state.rows[v] = scanner.state.rows[v]
    BY <1>0, <2>1, <2>2, NoneAssumption DEF ScannedRow, Present, HostedTypeOK, Scanner, State
  <2>4. UNCHANGED saved \/ saved' = scanner'.state
    BY <2>2 DEF RowWatched, RowReused, RowAsked
  <2>5. CASE t = u
    <3>1. Standing(r) /\ OfNow(r) /\ runs[r].target = u
      BY <1>1, <2>1, <2>5 DEF RunMade, OfNow
    <3>2. ~NothingAsked(u)
      BY <2>1, <3>1, ScanWaits
    <3>3. RowWatched(u, row)
      BY <2>2, <3>2 DEF RowReused, RowAsked
    <3> QED BY <1>2, <2>1, <2>3, <2>4, <2>5, <3>3 DEF Recalled, RowWatched
  <2>6. CASE t # u
    BY <1>2, <2>1, <2>3, <2>4, <2>6 DEF Recalled, Present
  <2> QED BY <2>5, <2>6
<1>5. CASE Dispatch
  <2>1. scanner.stage = "dispatch"
    BY <1>5 DEF Dispatch
  <2>2. /\ scanner.at \in Present(scanner.state.rows)
        /\ scanner.state.rows[scanner.at].request \in Request
    BY <1>0, <2>1 DEF ScanInOrder
  <2>3. UNCHANGED saved /\ \E next \in Row : RowSent(scanner.at, scanner.state.rows[scanner.at], next)
    BY <1>0, <1>5, <2>2, DispatchOutcome
  <2>4. /\ Present(scanner'.state.rows) = Present(scanner.state.rows)
        /\ \A u \in Present(scanner.state.rows) :
             /\ scanner'.state.rows[u].request = scanner.state.rows[u].request
             /\ scanner'.state.rows[u].key = scanner.state.rows[u].key
             /\ scanner'.state.rows[u].head = scanner.state.rows[u].head
    BY <1>0, <2>2, <2>3, NoneAssumption DEF RowSent, Present, HostedTypeOK, Scanner, State
  <2> QED BY <1>2, <2>1, <2>3, <2>4 DEF Recalled
<1>6. CASE (\E created \in BOOLEAN : DispatchFails(created)) \/ ScanEnd \/ ScanCrash
  <2>1. /\ scanner'.stage = "idle"
        /\ UNCHANGED saved \/ (saved' = scanner.state /\ scanner.stage # "idle")
    BY <1>6 DEF DispatchFails, ScanEnd, ScanCrash, IdleScanner
  <2> QED BY <1>2, <2>1
<1>7. CASE UNCHANGED <<saved, scanner>>
  BY <1>2, <1>7
<1> QED BY <1>2, <1>3, <1>4, <1>5, <1>6, <1>7
        DEF HostedNext, ScanStep, PublishBegin, PublishStep, PublishRow, PublishEnd, PublishCrash,
            Move, NewTooling, RunEnds, Lists, HandoffExpires, hostedVars, scanVars
(* What is still to be scanned was read since.                              *)
LEMMA ReadSinceStep ==
  ASSUME InOrder, OnceInv, [HostedNext]_hostedVars, NEW r \in Request, StillStanding(r),
         scanner'.stage # "idle", runs'[r].target \in scanner'.todo
  PROVE  /\ scanner'.tooling = tooling
         /\ scanner'.state.rows[runs'[r].target].head = head[runs'[r].target]
<1>0. HostedTypeOK /\ ScanInOrder
  BY DEF InOrder
<1>1. /\ UNCHANGED <<head, tooling, changes>>
      /\ \/ Standing(r) /\ runs'[r].target = runs[r].target
         \/ RunMade /\ r = asked
  BY StandingStep
<1> DEFINE t == runs'[r].target
<1>2. ASSUME scanner.stage # "idle", t \in scanner.todo
      PROVE  scanner.tooling = tooling /\ scanner.state.rows[t].head = head[t]
  <2>1. Standing(r) /\ t = runs[r].target
    BY <1>0, <1>1, <1>2 DEF RunMade, RunCreated, ScanInOrder
  <2> QED BY <1>1, <1>2, <2>1 DEF OnceInv, ReadSince
<1>3. ASSUME NEW refresh \in Target \cup {NoRow}, ScanBegin(refresh)
      PROVE  scanner'.tooling = tooling /\ scanner'.state.rows[t].head = head[t]
  BY <1>0, <1>3, ScanBeginOutcome
<1>4. ASSUME NEW u \in Target, ScanRow(u)
      PROVE  scanner'.tooling = tooling /\ scanner'.state.rows[t].head = head[t]
  <2>1. u \in Present(scanner.state.rows)
    BY <1>0, <1>4 DEF ScanRow, First, Asked, ScanInOrder
  <2>2. PICK row \in Row : \E stage, at : ScannedRow(u, row, stage, at)
    BY <1>0, <1>4, <2>1, ScanRowOutcome
  <2>3. /\ scanner.stage = "rows" /\ t \in scanner.todo /\ t # u
        /\ scanner'.tooling = scanner.tooling
        /\ scanner'.state.rows = [scanner.state.rows EXCEPT ![u] = row]
    BY <2>2 DEF ScannedRow
  <2>4. t \in Target /\ scanner'.state.rows[t] = scanner.state.rows[t]
    BY <1>0, <2>3 DEF ScanInOrder, Present, HostedTypeOK, Scanner, State
  <2> QED BY <1>2, <2>3, <2>4
<1>5. ASSUME Dispatch PROVE scanner'.tooling = tooling /\ scanner'.state.rows[t].head = head[t]
  <2>1. scanner.stage = "dispatch"
    BY <1>5 DEF Dispatch
  <2>2. /\ scanner.at \in Present(scanner.state.rows)
        /\ scanner.state.rows[scanner.at].request \in Request
    BY <1>0, <2>1 DEF ScanInOrder
  <2>3. /\ scanner'.todo = scanner.todo /\ scanner'.tooling = scanner.tooling
        /\ \E next \in Row : RowSent(scanner.at, scanner.state.rows[scanner.at], next)
    BY <1>0, <1>5, <2>2, DispatchOutcome
  <2>4. t \in Target /\ scanner'.state.rows[t].head = scanner.state.rows[t].head
    BY <1>0, <2>2, <2>3 DEF RowSent, ScanInOrder, Present, HostedTypeOK, Scanner, State
  <2> QED BY <1>2, <2>1, <2>3, <2>4
<1>6. ~((\E created \in BOOLEAN : DispatchFails(created)) \/ ScanEnd \/ ScanCrash)
  BY DEF DispatchFails, ScanEnd, ScanCrash, IdleScanner
<1>7. CASE UNCHANGED scanner
  BY <1>2, <1>7
<1> QED BY <1>3, <1>4, <1>5, <1>6, <1>7
        DEF HostedNext, ScanStep, PublishBegin, PublishStep, PublishRow, PublishEnd, PublishCrash,
            Move, NewTooling, RunEnds, Lists, HandoffExpires, hostedVars, scanVars

(* What is about to be dispatched is not standing.                          *)
LEMMA NotYetStep ==
  ASSUME InOrder, OnceInv, [HostedNext]_hostedVars, NEW r \in Request, StillStanding(r),
         scanner'.stage = "dispatch", runs'[r].target = scanner'.at
  PROVE  LET row == scanner'.state.rows[scanner'.at] IN
         ~(runs'[r].head = row.head /\ runs'[r].tooling = row.tooling)
<1>0. HostedTypeOK /\ ScanInOrder
  BY DEF InOrder
<1>1. /\ UNCHANGED <<head, tooling, changes>>
      /\ \/ /\ Standing(r)
            /\ runs'[r].target = runs[r].target /\ runs'[r].head = runs[r].head
            /\ runs'[r].tooling = runs[r].tooling
         \/ RunMade /\ r = asked
  BY StandingStep
<1>2. ASSUME NEW t \in Target, ScanRow(t)
      PROVE  LET row == scanner'.state.rows[scanner'.at] IN
             ~(runs'[r].head = row.head /\ runs'[r].tooling = row.tooling)
  <2>1. /\ t \in Present(scanner.state.rows) /\ UNCHANGED runs
        /\ t \in scanner.todo /\ scanner.stage = "rows"
    BY <1>0, <1>2 DEF ScanRow, First, Asked, ScanInOrder
  <2>2. PICK row \in Row :
          \/ ScannedRow(t, row, "rows", scanner.at) /\ RowWatched(t, row)
          \/ ScannedRow(t, row, "rows", scanner.at) /\ RowReused(t, row)
          \/ ScannedRow(t, row, "dispatch", t) /\ RowAsked(t, row)
    BY <1>0, <1>2, <2>1, ScanRowOutcome
  <2>3. ScannedRow(t, row, "dispatch", t) /\ RowAsked(t, row)
    BY <2>2 DEF ScannedRow
  <2>4. /\ scanner'.at = t /\ scanner'.state.rows[t] = row
        /\ row.head = scanner.state.rows[t].head /\ row.tooling = scanner.tooling
    BY <1>0, <2>1, <2>3 DEF ScannedRow, RowAsked, Present, HostedTypeOK, Scanner, State
  <2>5. SUFFICES ASSUME runs'[r].head = row.head, runs'[r].tooling = row.tooling
                 PROVE  FALSE
    BY <2>4
  <2>6. /\ Standing(r) /\ runs[r].target = t
        /\ runs[r].head = scanner.state.rows[t].head /\ runs[r].tooling = scanner.tooling
    BY <1>1, <2>1, <2>4, <2>5 DEF RunMade
  <2>7. ~NothingAsked(t)
    BY <2>1, <2>6, ScanWaits
  <2> QED BY <2>3, <2>7 DEF RowAsked
<1>3. CASE UNCHANGED scanner
  <2>1. NoNewRun
    <3>1. ASSUME NEW s \in Request,
                 \/ \E handoff \in {"stored", "none"} : RunEnds(s, handoff)
                 \/ Lists(s) \/ HandoffExpires(s)
          PROVE  NoNewRun
      BY <1>0, <3>1, RunProgress DEF InOrder
    <3>2. CASE UNCHANGED runs
      BY <3>2 DEF NoNewRun, Exists
    <3>3. ~(Dispatch \/ \E created \in BOOLEAN : DispatchFails(created))
      <4>1. SUFFICES ASSUME Dispatch \/ \E created \in BOOLEAN : DispatchFails(created)
                     PROVE  FALSE
        OBVIOUS
      <4>2. scanner.stage = "dispatch"
        BY <4>1 DEF Dispatch, DispatchFails
      <4>3. /\ scanner.at \in Present(scanner.state.rows)
            /\ scanner.state.rows[scanner.at].request \in Request
        BY <1>0, <4>2 DEF ScanInOrder
      <4>4. scanner'.stage # "dispatch"
        BY <1>0, <4>1, <4>3, Idle, DispatchOutcome, DispatchFailsOutcome
      <4> QED BY <1>3, <4>2, <4>4
    <3> QED BY <3>1, <3>2, <3>3
            DEF HostedNext, ScanBegin, ScanStep, ScanRow, ScanEnd, ScanCrash, PublishBegin,
                PublishStep, PublishRow, PublishEnd, PublishCrash, Move, NewTooling, hostedVars
  <2>2. Exists(r) /\ ~Exists(asked)
    BY <1>0, <1>3, <2>1 DEF NoNewRun, StillStanding, ScanInOrder
  <2>3. /\ Standing(r)
        /\ runs'[r].target = runs[r].target /\ runs'[r].head = runs[r].head
        /\ runs'[r].tooling = runs[r].tooling
    BY <1>1, <2>2
  <2> QED BY <1>3, <2>3 DEF OnceInv, NotYetDispatched
<1>4. ASSUME \/ \E refresh \in Target \cup {NoRow} : ScanBegin(refresh)
             \/ Dispatch \/ (\E created \in BOOLEAN : DispatchFails(created))
             \/ ScanEnd \/ ScanCrash
      PROVE  FALSE
  <2>1. (\E refresh \in Target \cup {NoRow} : ScanBegin(refresh)) => scanner'.stage # "dispatch"
    BY DEF ScanBegin
  <2>2. CASE Dispatch
    <3>1. scanner.stage = "dispatch"
      BY <2>2 DEF Dispatch
    <3>2. /\ scanner.at \in Present(scanner.state.rows)
          /\ scanner.state.rows[scanner.at].request \in Request
      BY <1>0, <3>1 DEF ScanInOrder
    <3> QED BY <1>0, <2>2, <3>2, DispatchOutcome
  <2> QED BY <1>4, <2>1, <2>2 DEF DispatchFails, ScanEnd, ScanCrash, IdleScanner
<1> QED BY <1>2, <1>3, <1>4
        DEF HostedNext, ScanStep, PublishBegin, PublishStep, PublishRow, PublishEnd, PublishCrash,
            Move, NewTooling, RunEnds, Lists, HandoffExpires, hostedVars, scanVars

(* Two runs of one revision: neither is new, or the new one found the other *)
(* without its report.                                                      *)
SameDispatch(r, s) ==
  /\ runs'[r] # NoRun /\ runs'[s] # NoRun /\ r # s
  /\ runs'[r].target = runs'[s].target /\ runs'[r].head = runs'[s].head
  /\ runs'[r].tooling = runs'[s].tooling /\ runs'[r].at = runs'[s].at
LostItsReport(q) == runs'[q].phase = "ended" /\ runs'[q].handoff # "stored"

LEMMA NewDispatch ==
  ASSUME InOrder, OnceInv, RunsKept, RunMade,
         NEW s \in Request, Exists(s), SameDispatch(asked, s)
  PROVE  LostItsReport(s)
<1>1. /\ runs'[asked].target = scanner.at /\ runs'[asked].at = changes
      /\ runs'[asked].head = scanner.state.rows[scanner.at].head
      /\ runs'[asked].tooling = scanner.state.rows[scanner.at].tooling
  BY DEF InOrder, ScanInOrder, RunMade, RunCreated
<1>2. /\ runs[s].target = scanner.at /\ runs[s].at = changes
      /\ runs[s].head = scanner.state.rows[scanner.at].head
      /\ runs[s].tooling = scanner.state.rows[scanner.at].tooling
  BY <1>1 DEF SameDispatch, RunsKept, RunKept
<1>3. ~Standing(s)
  BY <1>2 DEF OnceInv, NotYetDispatched, RunMade
<1> QED BY <1>2, <1>3 DEF Standing, Ended, Usable, Exists, LostItsReport, RunsKept, RunKept

LEMMA DispatchOnceStep ==
  ASSUME InOrder, OnceInv, [HostedNext]_hostedVars
  PROVE  DispatchOnce'
<1>1. SUFFICES ASSUME NEW r \in Request, NEW s \in Request, SameDispatch(r, s)
               PROVE  LostItsReport(r) \/ LostItsReport(s)
  BY DEF DispatchOnce, Exists, Ended, SameDispatch, LostItsReport
<1>2. RunsKept /\ (NoNewRun \/ RunMade)
  BY RunsGrow
<1>3. CASE Exists(r) /\ Exists(s)
  <2>1. /\ runs[r].target = runs[s].target /\ runs[r].head = runs[s].head
        /\ runs[r].tooling = runs[s].tooling /\ runs[r].at = runs[s].at
    BY <1>1, <1>2, <1>3 DEF SameDispatch, RunsKept, RunKept
  <2>2. \E q \in {r, s} : Ended(q) /\ runs[q].handoff # "stored"
    BY <1>1, <1>3, <2>1 DEF OnceInv, DispatchOnce, SameDispatch
  <2> QED BY <1>2, <1>3, <2>2 DEF Ended, Exists, RunsKept, RunKept, LostItsReport
<1>4. \A q \in Request : runs'[q] # NoRun => Exists(q) \/ (RunMade /\ q = asked)
  <2>1. RunMade => runs' = [runs EXCEPT ![asked] = runs'[asked]]
    BY DEF RunMade, RunCreated, InOrder, ScanInOrder
  <2> QED BY <1>2, <2>1 DEF NoNewRun, Exists, InOrder, HostedTypeOK
<1>5. SameDispatch(s, r)
  BY <1>1 DEF SameDispatch
<1>6. CASE ~Exists(r)
  BY <1>1, <1>2, <1>4, <1>6, NewDispatch DEF SameDispatch
<1>7. CASE ~Exists(s)
  BY <1>1, <1>2, <1>4, <1>5, <1>7, NewDispatch DEF SameDispatch
<1> QED BY <1>3, <1>6, <1>7

LEMMA OnceStep == InOrder /\ SelectedInv /\ OnceInv /\ [HostedNext]_hostedVars => OnceInv'
<1> SUFFICES ASSUME InOrder, SelectedInv, OnceInv, [HostedNext]_hostedVars PROVE OnceInv'
  OBVIOUS
<1>1. \A r \in Request : Standing(r)' => StillStanding(r) /\ UNCHANGED <<head, tooling>>
  BY StandingStep DEF Standing, Exists, Ended, Usable, StillStanding
<1>2. Remembered(saved.rows)' /\ (scanner.stage # "idle" => Remembered(scanner.state.rows))'
  <2>1. \A r \in Request :
          Recalled(r, saved'.rows) /\ UNCHANGED <<head, tooling>> => RememberedBy(r, saved.rows)'
    BY DEF Recalled, RememberedBy, Present
  <2>2. \A r \in Request :
          Recalled(r, scanner'.state.rows) /\ UNCHANGED <<head, tooling>>
            => RememberedBy(r, scanner.state.rows)'
    BY DEF Recalled, RememberedBy, Present
  <2>3. \A r \in Request : Standing(r)' /\ OfNow(r)' =>
          /\ Recalled(r, saved'.rows) /\ UNCHANGED <<head, tooling>>
          /\ scanner'.stage # "idle" => Recalled(r, scanner'.state.rows)
    BY <1>1, RecallStep DEF OfNow
  <2> QED BY <2>1, <2>2, <2>3 DEF Remembered
<1>3. ReadSince'
  BY <1>1, ReadSinceStep DEF ReadSince
<1>4. NotYetDispatched'
  BY <1>1, NotYetStep DEF NotYetDispatched
<1> QED BY <1>2, <1>3, <1>4, DispatchOnceStep DEF OnceInv

(* Crashes, lost answers, lists that lag and reports that are lost never    *)
(* make the scan pay twice for the same analysis.                           *)
THEOREM DispatchedOnce == HostedSpec => []DispatchOnce
<1>1. HostedInit => InOrder /\ SelectedInv /\ OnceInv
  <2> SUFFICES ASSUME HostedInit PROVE InOrder /\ SelectedInv /\ OnceInv
    OBVIOUS
  <2>1. saved.rows = NoRows /\ scanner.state.rows = NoRows /\ scanner.stage = "idle"
    BY Idle DEF HostedInit
  <2>2. SelectedInv
    BY <2>1, Idle DEF SelectedInv, Selected
  <2>3. \A r : ~Exists(r)
    BY DEF HostedInit, Exists
  <2>4. OnceInv
    BY <2>1, <2>3 DEF OnceInv, Remembered, ReadSince, NotYetDispatched, DispatchOnce, Standing
  <2> QED BY <2>2, <2>4, OrderInit
<1>2. OnceInv => DispatchOnce
  BY DEF OnceInv
<1> QED BY <1>1, <1>2, InOrderStep, SelectedStep, OnceStep, PTL DEF HostedSpec
===============================================================================
