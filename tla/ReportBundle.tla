----------------------------- MODULE ReportBundle -----------------------------
(***************************************************************************)
(* From the findings of one analysis to the bundle that is published:      *)
(* canonical findings and their observations (monitoring.py), the hosted   *)
(* report (hosted.py build), its validation by the publisher               *)
(* (github_service.py collect), and the annotations of the producing run,  *)
(* read page by page from GitHub and merged (workflow_annotations.py).     *)
(*                                                                         *)
(* A spot is what a finding's fingerprint tells apart: file, line, concept *)
(* and anchor.  Texts, severities, sources and the documents derived from  *)
(* the report are left out; a snapshot in the bundle gets the same rows as *)
(* the index.                                                              *)
(* Families are those the catalog knows, and spots lie outside             *)
(* .analysis-tooling: a snapshot with a result of another scanner, and a   *)
(* report with a finding in there, are refused.  What else collect() asks  *)
(* of the run, the revision and the boundary of a report is in             *)
(* HostedTargets or left out: one source reaches this bundle.              *)
(*                                                                         *)
(* A definition named ...Fault is a plausible slip in the definition that  *)
(* follows it; no specification uses it.                                   *)
(***************************************************************************)
EXTENDS Naturals, Sequences, FiniteSets, Functions

CONSTANTS Spot, Family, Channel,
          ChannelOf,   \* the catalog: the channel of a scanner family
          Repeats,     \* how often a scanner repeats a result
          Raw,         \* what the scanners may have reported
          Worlds,      \* what the producing run left: its jobs in order, each with its check
                       \* run, the annotations of that check and whether it has a summary
          PageSize, MaxPages, MaxJobs, MaxNotes,
          Annotations, \* the channel of the annotations
          None

\* A result of a scanner, or of a reviewing model (ai).
Result == [ai : BOOLEAN, spot : Spot, family : Family]

ASSUME BundleAssumption ==
  /\ {PageSize, MaxPages, MaxJobs, MaxNotes} \subseteq Nat \ {0} /\ Repeats \in Nat
  /\ Raw \subseteq [Result -> 0..Repeats] /\ ChannelOf \in [Family -> Channel] /\ Annotations \notin Channel
  /\ \A reported \in Raw : IsFiniteSet({r \in Result : reported[r] > 0})
  /\ \A w \in Worlds :
       /\ w \in Seq(Range(w))
       /\ \A job \in Range(w) : job.notes \in Seq(Range(job.notes)) /\ job.check \notin BOOLEAN \cup Result
  /\ None \notin {"complete", "measured_zero"}

VARIABLES stage,
          raw,      \* how often each result was reported
          world, ended,  \* ended: the channels that completed
          report,
          todo,     \* the jobs whose check is not read yet
          page, rows,    \* the list being read: the next page, what was kept of it
          faults,   \* codes of the diagnostics
          cut,      \* the collection is truncated
          notes,    \* the annotations collected
          evidence  \* the state of the collection, once it ended

bundleVars == <<stage, raw, world, ended, report, todo, page, rows, faults, cut, notes, evidence>>

-----------------------------------------------------------------------------
(* Canonical findings: one for a spot in each lane, with an observation for *)
(* every time a scanner reported it.                                        *)
GroupOf(result) == <<result.ai, result.spot>>
Groups == {GroupOf(r) : r \in {s \in Result : raw[s] > 0}}

\* Native ids repeat: each occurrence gets an identity of its own.  A list is a function
\* from what its entries stand for to their identities.
ObservationIdFault(occurrence) == <<occurrence[1], 1>>
ObservationId(occurrence) == occurrence
Occurrences == {o \in Result \X (1..Repeats) : o[2] <= raw[o[1]]}
Identified(S) == [o \in S |-> ObservationId(o)]

Canonical == [g \in Groups |-> Identified({o \in Occurrences : GroupOf(o[1]) = g})]
Channels == [c \in Channel |-> Identified({o \in Occurrences : ChannelOf[o[1].family] = c})]

Entries(channels) == UNION {{c} \X DOMAIN channels[c] : c \in DOMAIN channels}
Cited(channels) == {channels[e[1]][e[2]] : e \in Entries(channels)}

\* The snapshot is refused when its channels and observations do not reconcile.
SnapshotValid ==
  LET all == Identified(Occurrences) IN
  IsInjective(all) /\ Cited(Channels) = Range(all) /\ Cardinality(Entries(Channels)) = Cardinality(Range(all))

-----------------------------------------------------------------------------
(* The hosted report: an index row and a detail for every finding.          *)
Built ==
  [index |-> [g \in Groups |-> g],
   details |-> [g \in Groups |-> [id |-> g, families |-> {o[1].family : o \in DOMAIN Canonical[g]},
                                  origins |-> Canonical[g]]],
   channels |-> Channels,
   observations |-> Cardinality(Occurrences),
   incomplete |-> Channel \ ended]

\* What the publisher accepts.
Valid(r) ==
  /\ IsInjective(r.index) /\ DOMAIN r.details = DOMAIN r.index
  /\ {r.details[e].id : e \in DOMAIN r.details} = Range(r.index)
  /\ Cardinality(Entries(r.channels)) = r.observations /\ Cardinality(Cited(r.channels)) = r.observations
  /\ Cited(r.channels) = UNION {Range(r.details[e].origins) : e \in DOMAIN r.details}

Build ==
  /\ stage = "analysed"
  /\ IF SnapshotValid THEN stage' = "built" /\ report' = Built ELSE stage' = "refused" /\ UNCHANGED report
  /\ UNCHANGED <<raw, world, ended, todo, page, rows, faults, cut, notes, evidence>>

Accept ==
  /\ stage = "built" /\ stage' = IF Valid(report) THEN "jobs" ELSE "refused"
  /\ UNCHANGED <<raw, world, ended, report, todo, page, rows, faults, cut, notes, evidence>>

-----------------------------------------------------------------------------
(* Collection: the jobs of the attempt, then for each its check run and the *)
(* annotations of that, a page at a time.                                   *)
Failure == {"rate_limited", "permission_denied", "unavailable", "operational_failure", "invalid"}
Ending(codes, truncated, collected) ==
  IF "partial_read" \in codes THEN "partial" ELSE IF truncated THEN "truncated" ELSE IF codes # {} THEN "partial"
  ELSE IF collected # <<>> THEN "complete" ELSE "measured_zero"

\* A call fails: what was collected stays, and decides between partial and the failure.
Fails(kind) ==
  /\ evidence' = (IF notes = <<>> THEN kind ELSE "partial") /\ stage' = "collected"
  /\ UNCHANGED <<todo, page, rows, faults, cut, notes>>

Listed == IF stage = "jobs" THEN world ELSE Head(todo).notes
Most == IF stage = "jobs" THEN MaxJobs ELSE MaxNotes - Len(notes)
Prefix(s, n) == SubSeq(s, 1, IF n < Len(s) THEN n ELSE Len(s))
Current == SubSeq(Listed, (page - 1) * PageSize + 1, IF page * PageSize < Len(Listed) THEN page * PageSize ELSE Len(Listed))

\* The next job's check, or the end of the collection.
Continue(rest, codes, truncated, collected) ==
  /\ todo' = rest /\ page' = 1 /\ rows' = <<>> /\ faults' = codes /\ cut' = truncated /\ notes' = collected
  /\ IF rest = <<>> THEN stage' = "collected" /\ evidence' = Ending(codes, truncated, collected)
     ELSE stage' = "check" /\ UNCHANGED evidence

\* An annotation of a level the collector does not know is left out, without a diagnostic.
Recorded(kept) ==
  LET upto[n \in 0..Len(kept)] ==
        IF n = 0 THEN <<>> ELSE IF kept[n].known THEN Append(upto[n - 1], kept[n]) ELSE upto[n - 1]
  IN upto[Len(kept)]

\* The list ended with kept rows: the jobs to go through, or the annotations of a check,
\* to which its summary is added while there is room.
Ends(kept, codes, truncated) ==
  IF stage = "jobs" THEN Continue(kept, codes, truncated, notes)
  ELSE LET job == Head(todo)
           list == Recorded(kept)
           read == notes \o [i \in DOMAIN list |-> [id |-> <<job.check, list[i].text>>, spot |-> list[i].spot,
                                                    family |-> list[i].family]]
           all == IF job.summary /\ Len(read) < MaxNotes
                  THEN Append(read, [id |-> <<job.check, "summary">>, spot |-> None, family |-> None]) ELSE read
       IN IF Len(all) >= MaxNotes THEN Continue(<<>>, codes \cup {"result_limit"}, TRUE, all)
          ELSE Continue(Tail(todo), codes, truncated, all)

PageReadFault(spent) ==
  LET kept == rows \o Prefix(Current, Most - Len(rows)) IN
  IF spent THEN Ends(kept, faults, cut)
  ELSE IF Len(kept) >= Most THEN Ends(kept, faults \cup {"result_limit"}, TRUE)
  ELSE IF Len(Current) < PageSize THEN Ends(kept, faults, cut)
  ELSE IF page = MaxPages THEN Ends(kept, faults \cup {"page_limit"}, TRUE)
  ELSE page' = page + 1 /\ rows' = kept /\ UNCHANGED <<stage, todo, faults, cut, notes, evidence>>
PageRead(spent) ==
  LET kept == rows \o Prefix(Current, Most - Len(rows)) IN
  IF spent THEN Ends(kept, faults \cup {"rate_limit_exhausted"}, TRUE)
  ELSE IF Len(kept) >= Most THEN Ends(kept, faults \cup {"result_limit"}, TRUE)
  ELSE IF Len(Current) < PageSize THEN Ends(kept, faults, cut)
  ELSE IF page = MaxPages THEN Ends(kept, faults \cup {"page_limit"}, TRUE)
  ELSE page' = page + 1 /\ rows' = kept /\ UNCHANGED <<stage, todo, faults, cut, notes, evidence>>

\* A failure after the first page keeps the rows read, unless the answer is malformed.
PageFails(kind) ==
  IF rows = <<>> \/ kind = "invalid" THEN Fails(kind) ELSE Ends(rows, faults \cup {"partial_read"}, TRUE)

ReadPage ==
  /\ stage \in {"jobs", "notes"}
  /\ (\E spent \in BOOLEAN : PageRead(spent)) \/ (\E kind \in Failure : PageFails(kind))
  /\ UNCHANGED <<raw, world, ended, report>>

\* A job that does not name its check is passed over.
ReadCheck ==
  /\ stage = "check"
  /\ IF Head(todo).check = None THEN Continue(Tail(todo), faults \cup {"missing_check_identity"}, cut, notes)
     ELSE \/ stage' = "notes" /\ UNCHANGED <<todo, page, rows, faults, cut, notes, evidence>>
          \/ \E kind \in Failure : Fails(kind)
  /\ UNCHANGED <<raw, world, ended, report>>

-----------------------------------------------------------------------------
(* The merge: an annotation at the place of one finding, of a scanner that  *)
(* reported it, supports that finding; any other is a finding of its own.   *)
Matching(details, note) ==
  {e \in DOMAIN details : details[e].id[2] = note.spot /\ note.family \in details[e].families}
With(f, key, value) == [x \in DOMAIN f \cup {key} |-> IF x \in DOMAIN f THEN f[x] ELSE value]
Supporting(detail, n) == [detail EXCEPT !.origins = With(detail.origins, <<n>>, notes[n].id)]
Added(r, n) ==
  [r EXCEPT !.index = With(r.index, <<n>>, notes[n].id),
            !.details = With(r.details, <<n>>, [id |-> notes[n].id, families |-> {Annotations}, origins |-> With(<<>>, <<n>>, notes[n].id)])]
MergeFault(r, n) == IF Cardinality(Matching(r.details, notes[n])) = 1 THEN r ELSE Added(r, n)
Merge(r, n) ==
  LET at == Matching(r.details, notes[n])  e == CHOOSE d \in at : TRUE IN
  IF Cardinality(at) # 1 THEN Added(r, n)
  ELSE IF notes[n].id \in Range(r.details[e].origins) THEN r
  ELSE [r EXCEPT !.details = [r.details EXCEPT ![e] = Supporting(r.details[e], n)]]

Whole == {"complete", "measured_zero"}
Collected == [n \in {<<i>> : i \in DOMAIN notes} |-> notes[n[1]].id]
Merging[n \in 0..Len(notes)] == IF n = 0 THEN report ELSE Merge(Merging[n - 1], n)
Merged == Merging[Len(notes)]
AppliedFault ==
  [Merged EXCEPT !.details = [e \in DOMAIN Merged.details \ DOMAIN report.details |-> Merged.details[e]],
                 !.channels = With(report.channels, Annotations, Collected),
                 !.observations = report.observations + Len(notes),
                 !.incomplete = IF evidence \in Whole THEN report.incomplete ELSE report.incomplete \cup {Annotations}]
Applied ==
  [Merged EXCEPT !.channels = With(report.channels, Annotations, Collected),
                 !.observations = report.observations + Len(notes),
                 !.incomplete = IF evidence \in Whole THEN report.incomplete ELSE report.incomplete \cup {Annotations}]

Apply ==
  /\ stage = "collected" /\ stage' = "published" /\ report' = Applied
  /\ UNCHANGED <<raw, world, ended, todo, page, rows, faults, cut, notes, evidence>>

-----------------------------------------------------------------------------
BundleInit ==
  /\ raw \in Raw /\ world \in Worlds /\ ended \in SUBSET Channel
  /\ stage = "analysed" /\ report = None /\ todo = <<>> /\ page = 1 /\ rows = <<>>
  /\ faults = {} /\ cut = FALSE /\ notes = <<>> /\ evidence = None

BundleNext == Build \/ Accept \/ ReadPage \/ ReadCheck \/ Apply

BundleSpec == BundleInit /\ [][BundleNext]_bundleVars

-----------------------------------------------------------------------------
\* Whatever the scanners report, also the same result twice, the bundle built of it is
\* one the publisher accepts.
BuiltIsAccepted == stage # "refused"

\* The publisher checks the bundle before it merges the annotations and not after: the
\* bundle it publishes would still pass, unless two of the annotations agree in everything
\* that identifies them.
NotesDiffer == \A i, j \in DOMAIN notes : notes[i].id = notes[j].id => i = j
PublishedIsValid == stage = "published" /\ NotesDiffer => Valid(report)

\* A collection that calls itself complete has every annotation of a known level of every
\* job of the attempt, and one that measured zero had none of these to read, whatever page
\* fails and wherever a limit is met.  One of an unknown level is missing from both.
Everything ==
  UNION {{<<job.check, note.text>> : note \in {n \in Range(job.notes) : n.known}} : job \in Range(world)}
HonestEvidence ==
  evidence \in Whole =>
    /\ Everything \subseteq {notes[i].id : i \in DOMAIN notes}
    /\ evidence = "measured_zero" => Everything = {}

\* However the collection ends, no finding and no observation of a scanner is lost and
\* none is completed or made incomplete by it.
EvidenceKept ==
  stage = "published" =>
    /\ \A g \in Groups : \E i \in DOMAIN report.details :
         report.details[i].id = g /\ Range(Canonical[g]) \subseteq Range(report.details[i].origins)
    /\ report.incomplete \ {Annotations} = Channel \ ended
    /\ evidence \notin Whole => Annotations \in report.incomplete
===============================================================================
