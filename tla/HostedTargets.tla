---------------------------- MODULE HostedTargets ----------------------------
(***************************************************************************)
(* The hosted pipeline (scripts/code_analysis/github_service.py, hosted.py) *)
(* keeps every branch, open pull request and one selected commit of a       *)
(* source repository analysed.  A scan discovers them, keeps one row each   *)
(* and dispatches a workflow run for every revision that needs one; a       *)
(* publisher collects the reports the runs hand off and lists them in the   *)
(* dashboard's manifest.  One scan and one publisher are at work at a time. *)
(*                                                                         *)
(* A run is its request id, 0 is none.  A report is the run it is from, and *)
(* the id names its stored asset; aliases of a revision share it.  Runs are *)
(* not attempted twice.  What scan takes for the reports already published  *)
(* is the body of a GitHub release nothing writes any more: the empty set.  *)
(*                                                                         *)
(* A definition named ...Fault is a plausible slip in the definition that  *)
(* follows it; no specification uses it.                                   *)
(***************************************************************************)
EXTENDS Naturals, FiniteSets

CONSTANTS Target,
          Kind,         \* target -> "branch", "pr" or "commit"
          Revision,
          Heads,        \* target -> revisions it may have
          Rank,         \* target -> its place in the inventory
          Closed,       \* the revision of a target that is not there
          NoRow, NoRun,
          MaxTooling,   \* bound: commits of the tooling
          MaxRequests,  \* bound: dispatches
          MaxChanges,   \* bound: pushes, closings, new tooling, refreshes
          MaxFaults     \* bound: crashes, refused calls, lost handoffs

ASSUME HostedAssumption ==
  /\ Kind \in [Target -> {"branch", "pr", "commit"}]
  /\ Heads \in [Target -> SUBSET Revision] /\ Rank \in [Target -> Nat]
  /\ Closed \notin Revision /\ NoRow \notin Target
  /\ {MaxTooling, MaxRequests, MaxChanges, MaxFaults} \subseteq Nat

VARIABLES head,       \* target -> its revision at the source
          tooling,    \* commit of the tooling's default branch
          runs,       \* request -> the run it was dispatched as
          asked,      \* requests made
          saved,      \* the scan state in storage: rows and the selected commit
          manifest,   \* the manifest the dashboard reads
          assets,     \* reports stored
          scanner,    \* the scan at work
          publisher,  \* the publisher at work
          changes, faults

hostedVars == <<head, tooling, runs, asked, saved, manifest, assets, scanner, publisher, changes, faults>>
sourceVars == <<head, tooling>>
scanVars == <<saved, scanner, asked>>
pubVars == <<manifest, assets, publisher>>

-----------------------------------------------------------------------------
Request == 1..MaxRequests
RequestOrNone == 0..MaxRequests
Run == [target : Target, head : Revision, tooling : Nat, execution : Nat, at : Nat,
        phase : {"new", "running", "ended"}, handoff : {"none", "stored", "expired"}]
\* A new run is not in GitHub's list of runs yet.
Exists(r) == r \in Request /\ runs[r] # NoRun
Listed(r) == Exists(r) /\ runs[r].phase # "new"
Ended(r) == Exists(r) /\ runs[r].phase = "ended"

\* key is the tooling the row's analysis_key was computed with, 0 for none; a row
\* loses it with its revision.
Row == [head : Revision, key : Nat, status : {"queued", "dispatching", "scanning", "collected"},
        request : RequestOrNone, run : RequestOrNone, tooling : Nat, refresh : BOOLEAN]
Shown == [head : Revision, status : {"queued", "scanning", "stale", "failed", "current", "collected"},
          asset : RequestOrNone, analyzed : Revision \cup {Closed}]
NewRow(rev) == [head |-> rev, key |-> 0, status |-> "queued", request |-> 0, run |-> 0,
                tooling |-> 0, refresh |-> FALSE]
NewShown(rev) == [head |-> rev, status |-> "queued", asset |-> 0, analyzed |-> Closed]

State == [rows : [Target -> Row \cup {NoRow}], manual : Target \cup {NoRow}]
Scanner == [stage : {"idle", "rows", "dispatch"}, state : State, todo : SUBSET Target,
            tooling : Nat, lost : SUBSET Request, at : Target \cup {NoRow}]
Publisher == [busy : BOOLEAN, rows : [Target -> Shown \cup {NoRow}],
              scan : [Target -> Row \cup {NoRow}], manual : Target \cup {NoRow}, todo : SUBSET Target]
NoRows == [t \in Target |-> NoRow]
IdleScanner == [stage |-> "idle", state |-> [rows |-> NoRows, manual |-> NoRow], todo |-> {},
                tooling |-> 0, lost |-> {}, at |-> NoRow]
IdlePublisher == [busy |-> FALSE, rows |-> NoRows, scan |-> NoRows, manual |-> NoRow, todo |-> {}]
Present(rows) == {t \in Target : rows[t] # NoRow}
ASSUME NoneAssumption ==
  /\ NoRun \notin Run
  /\ NoRow \notin Row /\ NoRow \notin Shown

\* Branches, open pull requests and the selected commit.
Inventory(manual) == {t \in Target : head[t] # Closed /\ (Kind[t] = "commit" => t = manual)}

\* The preferred branch, the pull requests and the other branches by name, the commit; a
\* scan goes to the rows an operator asked for before.
First(t, todo) == t \in todo /\ \A u \in todo : Rank[t] <= Rank[u]

Kept(row) == [row EXCEPT !.key = 0, !.status = "queued", !.run = 0]
RestaleFault(row) == row
Restale(row) == [row EXCEPT !.status = IF row.asset = 0 THEN "queued" ELSE "stale"]

\* Rows of targets that are gone are dropped; a row whose revision moved keeps the
\* request and the report of the old one.
Reconciled(rows, manual, New(_), Moved(_)) ==
  [t \in Target |->
     IF t \notin Inventory(manual) THEN NoRow
     ELSE IF rows[t] = NoRow THEN New(head[t])
     ELSE IF rows[t].head = head[t] THEN rows[t]
     ELSE [Moved(rows[t]) EXCEPT !.head = head[t]]]

Usable(r) == runs[r].handoff = "stored"
SameEvidence(t, u) == t = u \/ {Kind[t], Kind[u]} \subseteq {"branch", "commit"}

-----------------------------------------------------------------------------
(* A scan, which an operator may ask to analyse one target again: reads the *)
(* state, discovers, reads the tooling's head and lists the runs, to which  *)
(* nobody adds before it ends; it sees of a run what it is at its row.      *)
Refreshed(rows, t) ==
  [rows EXCEPT ![t] = [@ EXCEPT !.status = "queued", !.refresh = TRUE, !.request = 0, !.run = 0]]

ScanBegin(refresh) ==
  LET manual == IF refresh # NoRow /\ Kind[refresh] = "commit" THEN refresh ELSE saved.manual
      found == Reconciled(saved.rows, manual, NewRow, Kept)
      rows == IF refresh = NoRow THEN found ELSE Refreshed(found, refresh)
  IN
  /\ scanner.stage = "idle"
  /\ refresh # NoRow => refresh \in Inventory(manual) /\ changes < MaxChanges
  /\ scanner' = [stage |-> "rows", state |-> [rows |-> rows, manual |-> manual], todo |-> Present(rows),
                 tooling |-> tooling, lost |-> {}, at |-> NoRow]
  /\ changes' = IF refresh = NoRow THEN changes ELSE changes + 1
  /\ UNCHANGED <<sourceVars, runs, asked, saved, pubVars, faults>>

\* A row whose key is not of this revision and tooling starts over.
Keyed(row, key) ==
  IF row.key = key THEN row
  ELSE [row EXCEPT !.key = key, !.status = "queued", !.request = 0, !.run = 0]

\* The run of a row's request ended without the report it had to hand off.
Lost(row) == Ended(row.request) /\ ~Usable(row.request)
Cleared(row) == IF Lost(row) THEN [row EXCEPT !.status = "queued", !.request = 0, !.run = 0] ELSE row

\* A request is left to its run; one whose run is not there was perhaps never
\* dispatched, and is not repeated.
WaitingFault(row) == Listed(row.request)
Waiting(row) == row.request # 0
Watched(row) ==
  IF ~Listed(row.request) THEN row
  ELSE [row EXCEPT !.run = row.request,
                   !.status = IF Ended(row.request) THEN "collected" ELSE "scanning"]

\* Other rows with the same source evidence, already collected.
ReusableFault(t, row, lost) ==
  {u \in Present(scanner.state.rows) \ {t} :
     LET other == scanner.state.rows[u] IN
       /\ other.head = row.head /\ other.key = row.key /\ other.status # "queued"
       /\ other.run \notin lost}
Reusable(t, row, lost) ==
  {u \in Present(scanner.state.rows) \ {t} :
     LET other == scanner.state.rows[u] IN
       /\ other.head = row.head /\ other.key = row.key /\ other.status = "collected"
       /\ other.run \notin lost}

WithRow(t, row, lost) == [scanner EXCEPT !.state.rows[t] = row, !.todo = @ \ {t}, !.lost = lost]

Asked == {u \in scanner.todo : scanner.state.rows[u].refresh}
ScanRow(t) ==
  LET keyed == Keyed(scanner.state.rows[t], scanner.tooling)
      row == Cleared(keyed)
      lost == IF Lost(keyed) THEN scanner.lost \cup {keyed.request} ELSE scanner.lost
      reusable == IF row.refresh THEN {} ELSE Reusable(t, row, lost)
      Request0 == asked + 1
      intent == [row EXCEPT !.request = Request0, !.status = "dispatching",
                            !.tooling = scanner.tooling, !.refresh = FALSE]
  IN
  /\ scanner.stage = "rows" /\ First(t, IF Asked = {} THEN scanner.todo ELSE Asked)
  /\ \/ /\ Waiting(row)
        /\ scanner' = WithRow(t, Watched(row), lost)
        /\ UNCHANGED <<asked, saved>>
     \/ /\ ~Waiting(row)
        /\ \E u \in reusable :
             LET other == scanner.state.rows[u] IN
             scanner' = WithRow(t, [row EXCEPT !.run = other.run, !.tooling = other.tooling,
                                               !.status = "collected"], lost)
        /\ UNCHANGED <<asked, saved>>
     \/ \* Intent persists before side effects.
        /\ ~Waiting(row) /\ reusable = {} /\ asked < MaxRequests
        /\ scanner' = [WithRow(t, intent, lost) EXCEPT !.stage = "dispatch", !.at = t]
        /\ asked' = Request0
        /\ saved' = scanner'.state
  /\ UNCHANGED <<sourceVars, runs, pubVars, changes, faults>>

\* The run is created at the head the tooling has by now.  A response that does not
\* name it, or a list that lags behind, changes nothing: the row waits for its request.
Dispatch ==
  LET t == scanner.at
      row == scanner.state.rows[t]
      sent == [row EXCEPT !.status = "scanning", !.run = row.request]
  IN
  /\ scanner.stage = "dispatch"
  /\ runs' = [runs EXCEPT ![row.request] =
                [target |-> t, head |-> row.head, tooling |-> row.tooling, execution |-> tooling,
                 at |-> changes, phase |-> "running", handoff |-> "none"]]
  /\ scanner' = [scanner EXCEPT !.state.rows[t] = sent, !.stage = "rows", !.at = NoRow]
  /\ UNCHANGED <<sourceVars, asked, saved, pubVars, changes, faults>>

\* The call is refused or its answer lost, with or without a run; the scan aborts.
DispatchFails(created) ==
  LET t == scanner.at
      row == scanner.state.rows[t]
  IN
  /\ scanner.stage = "dispatch" /\ faults < MaxFaults
  /\ runs' = IF ~created THEN runs
             ELSE [runs EXCEPT ![row.request] =
                     [target |-> t, head |-> row.head, tooling |-> row.tooling, execution |-> tooling,
                      at |-> changes, phase |-> "new", handoff |-> "none"]]
  /\ scanner' = IdleScanner /\ faults' = faults + 1
  /\ UNCHANGED <<sourceVars, asked, saved, pubVars, changes>>

ScanEnd ==
  /\ scanner.stage = "rows" /\ scanner.todo = {}
  /\ saved' = scanner.state /\ scanner' = IdleScanner
  /\ UNCHANGED <<sourceVars, runs, asked, pubVars, changes, faults>>

ScanCrash ==
  /\ scanner.stage # "idle" /\ faults < MaxFaults
  /\ scanner' = IdleScanner /\ faults' = faults + 1
  /\ UNCHANGED <<sourceVars, runs, asked, saved, pubVars, changes>>

-----------------------------------------------------------------------------
(* The publisher reads the scan state, the manifest and the runs, and finds *)
(* the run of each row, if it executed the tooling the row was keyed with.  *)
Resolved(row) ==
  LET r == IF Listed(row.run) THEN row.run ELSE row.request IN
  IF Listed(r) /\ runs[r].execution = row.tooling
  THEN [row EXCEPT !.run = r, !.status = IF Ended(r) THEN "collected" ELSE "scanning"]
  ELSE row

PublishBegin ==
  /\ ~publisher.busy
  /\ Present(saved.rows) # {}
  /\ LET rows == Reconciled(manifest, saved.manual, NewShown, Restale) IN
     publisher' = [busy |-> TRUE, rows |-> rows, manual |-> saved.manual, todo |-> Present(rows),
                   scan |-> [t \in Target |-> IF saved.rows[t] = NoRow THEN NoRow ELSE Resolved(saved.rows[t])]]
  /\ UNCHANGED <<sourceVars, runs, scanVars, manifest, assets, changes, faults>>

\* What collect() requires of the run a row names: its identity, its one handoff, and
\* a report of this revision, of this target or of an alias with the row's key.
Collectible(t, row) ==
  LET run == runs[row.run] IN
  /\ Ended(row.run)
  /\ run.execution = row.tooling /\ run.handoff = "stored"
  /\ run.head = row.head /\ run.tooling = row.tooling
  /\ run.target = t \/ (SameEvidence(run.target, t) /\ row.key = row.tooling)

Followed(scanned) == IF scanned.status = "dispatching" THEN "queued" ELSE scanned.status

Shows(t, row) == publisher' = [publisher EXCEPT !.rows[t] = row, !.scan[t] = NoRow, !.todo = @ \ {t}]

PublishRow(t) ==
  LET row == publisher.rows[t]
      scanned == publisher.scan[t]
      same == scanned # NoRow /\ scanned.head = row.head
      collect == same /\ scanned.run # 0 /\ scanned.status = "collected"
      latest == IF t \in Inventory(publisher.manual) THEN head[t] ELSE Closed
  IN
  /\ publisher.busy /\ First(t, publisher.todo)
  /\ \/ /\ collect /\ row.asset # scanned.run /\ Collectible(t, scanned)
        /\ latest = scanned.head
        /\ assets' = assets \cup {scanned.run}
        /\ Shows(t, [row EXCEPT !.asset = scanned.run, !.analyzed = runs[scanned.run].head,
                                !.status = "current"])
        /\ UNCHANGED faults
     \/ \* The target moved during collection; the previous report is retained.
        /\ collect /\ row.asset # scanned.run /\ Collectible(t, scanned)
        /\ latest # scanned.head
        /\ Shows(t, [row EXCEPT !.head = IF latest = Closed THEN @ ELSE latest, !.status = "stale"])
        /\ UNCHANGED <<assets, faults>>
     \/ /\ collect /\ row.asset # scanned.run /\ ~Collectible(t, scanned)
        /\ Shows(t, [row EXCEPT !.status = "failed"])
        /\ UNCHANGED <<assets, faults>>
     \/ \* A download, the annotations or the upload fail this time.
        /\ collect /\ row.asset # scanned.run /\ Collectible(t, scanned) /\ faults < MaxFaults
        /\ Shows(t, [row EXCEPT !.status = "failed"])
        /\ faults' = faults + 1
        /\ UNCHANGED assets
     \/ /\ collect => row.asset = scanned.run
        /\ Shows(t, IF ~same \/ collect THEN row
                    ELSE [row EXCEPT !.status = Followed(scanned)])
        /\ UNCHANGED <<assets, faults>>
  /\ UNCHANGED <<sourceVars, runs, scanVars, manifest, changes>>

\* The manifest is written when every asset it names has been read.
PublishEnd ==
  /\ publisher.busy /\ publisher.todo = {}
  /\ \A t \in Present(publisher.rows) : publisher.rows[t].asset \in assets \cup {0}
  /\ manifest' = publisher.rows /\ publisher' = IdlePublisher
  /\ UNCHANGED <<sourceVars, runs, scanVars, assets, changes, faults>>

PublishCrash ==
  /\ publisher.busy /\ faults < MaxFaults
  /\ publisher' = IdlePublisher /\ faults' = faults + 1
  /\ UNCHANGED <<sourceVars, runs, scanVars, manifest, assets, changes>>

-----------------------------------------------------------------------------
Move(t, revision) ==
  /\ changes < MaxChanges /\ Kind[t] # "commit" /\ head[t] # revision
  /\ head' = [head EXCEPT ![t] = revision] /\ changes' = changes + 1
  /\ UNCHANGED <<tooling, runs, scanVars, pubVars, faults>>

NewTooling ==
  /\ changes < MaxChanges /\ tooling < MaxTooling
  /\ tooling' = tooling + 1 /\ changes' = changes + 1
  /\ UNCHANGED <<head, runs, scanVars, pubVars, faults>>

Lists(r) ==
  /\ Exists(r) /\ runs[r].phase = "new"
  /\ runs' = [runs EXCEPT ![r].phase = "running"]
  /\ UNCHANGED <<sourceVars, scanVars, pubVars, changes, faults>>

\* A run hands its report off, or ends without one.
RunEnds(r, handoff) ==
  /\ Exists(r) /\ runs[r].phase = "running"
  /\ handoff = "none" => faults < MaxFaults
  /\ runs' = [runs EXCEPT ![r].phase = "ended", ![r].handoff = handoff]
  /\ faults' = IF handoff = "none" THEN faults + 1 ELSE faults
  /\ UNCHANGED <<sourceVars, scanVars, pubVars, changes>>

HandoffExpires(r) ==
  /\ Exists(r) /\ runs[r].handoff = "stored" /\ faults < MaxFaults
  /\ runs' = [runs EXCEPT ![r].handoff = "expired"] /\ faults' = faults + 1
  /\ UNCHANGED <<sourceVars, scanVars, pubVars, changes>>

HostedInit ==
  /\ head \in [Target -> Revision \cup {Closed}] /\ (\A t \in Target : head[t] \in Heads[t] \cup {Closed})
  /\ tooling = 1
  /\ runs = [r \in Request |-> NoRun] /\ asked = 0
  /\ saved = [rows |-> NoRows, manual |-> NoRow]
  /\ manifest = NoRows /\ assets = {}
  /\ scanner = IdleScanner /\ publisher = IdlePublisher
  /\ changes \in 0..MaxChanges /\ faults \in 0..MaxFaults

ScanStep == (\E t \in Target : ScanRow(t)) \/ Dispatch \/ ScanEnd
PublishStep == (\E t \in Target : PublishRow(t)) \/ PublishEnd

HostedNext ==
  \/ ScanBegin(NoRow) \/ (\E t \in Target : ScanBegin(t))
  \/ ScanStep \/ (\E created \in BOOLEAN : DispatchFails(created)) \/ ScanCrash
  \/ PublishBegin \/ PublishStep \/ PublishCrash
  \/ \E t \in Target : \E rev \in Heads[t] \cup {Closed} : Move(t, rev)
  \/ NewTooling
  \/ \E r \in Request : (\E handoff \in {"stored", "none"} : RunEnds(r, handoff))
                         \/ Lists(r) \/ HandoffExpires(r)

HostedSpec == HostedInit /\ [][HostedNext]_hostedVars

-----------------------------------------------------------------------------
\* A report the manifest lists is stored, is what a run of this target, or of an alias
\* of it, handed off for the revision it is labelled with, and is called current only
\* beside that revision: the checks collect() makes and the recheck before it shows.
ShownIsGenuine ==
  \A t \in Present(manifest) :
    LET row == manifest[t] IN
    /\ row.asset # 0 =>
         /\ row.asset \in assets
         /\ Exists(row.asset) /\ runs[row.asset].handoff # "none"
         /\ runs[row.asset].head = row.analyzed /\ SameEvidence(runs[row.asset].target, t)
    /\ row.status = "current" => row.asset # 0 /\ row.analyzed = row.head

\* A revision is not dispatched again for the same target while nothing changed and the
\* first run did not lose its report: the intent is stored before the call, and a
\* call whose outcome is unknown is not repeated.
DispatchOnce ==
  \A r, s \in Request :
    Exists(r) /\ Exists(s) /\ r # s
      /\ runs[r].target = runs[s].target /\ runs[r].head = runs[s].head
      /\ runs[r].tooling = runs[s].tooling /\ runs[r].at = runs[s].at
    => \E q \in {r, s} : Ended(q) /\ runs[q].handoff # "stored"

\* A row the scan calls collected, by its own run or by the run of another row it reuses,
\* names a run that ended, of this row's revision and tooling, through moved heads, new
\* tooling and scans that died.  It says nothing of the kind of target: analysis_key has
\* none, and collect() gives a pull request no report of another target.
CollectedIsExact ==
  \A t \in Present(saved.rows) :
    LET row == saved.rows[t] IN
    row.status = "collected" =>
      Ended(row.run) /\ runs[row.run].head = row.head /\ runs[row.run].tooling = row.tooling
===============================================================================
