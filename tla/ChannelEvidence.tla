--------------------------- MODULE ChannelEvidence ---------------------------
(***************************************************************************)
(* From scanner jobs to a report: what one producer run retains per        *)
(* scanner channel, and what the report job makes of it                    *)
(* (scripts/code_analysis/source_identity.py, hosted_pipeline.py and the   *)
(* modules they call).                                                     *)
(*                                                                         *)
(* The jobs of the selected channels run in parallel, fail, are killed or  *)
(* lose their upload.  The report job starts when they have all ended,     *)
(* whatever their outcome, and decides for each channel of the catalog a   *)
(* status and whether its finding count is known.  A run can be repeated,  *)
(* whole or in part, under the same run id.                                *)
(*                                                                         *)
(* A scanner retains at most one result file, which the normaliser cannot  *)
(* read ("bad"), reads without a finding ("clean") or with some ("found"), *)
(* and at most one status file.  All findings of a channel are one.        *)
(*                                                                         *)
(* A definition named ...Fault is a plausible slip in the definition that  *)
(* follows it; no specification uses it.                                   *)
(***************************************************************************)
EXTENDS Naturals, FiniteSets

CONSTANTS Channel,     \* the scanner catalog
          Gate,        \* channels of required-channels.json, and extensions
          Envelope,    \* extensions: one file holds both status and findings
          Reporting,   \* channels whose producer writes a status file
          ByExit,      \* those it calls completed on exit code 0 alone: fuzz harnesses
          Watched,     \* channels whose job's conclusion the report job looks up
          Producers,   \* the jobs, each the set of channels it serves
          Covers,      \* gate channel -> channels whose result files its patterns match
          Mentions,    \* channel -> channels whose result files are named after it
          MaxAttempts  \* bound: attempts of one producer run

ASSUME ChannelAssumption ==
  /\ Gate \subseteq Channel /\ Envelope \subseteq Gate
  /\ Reporting \subseteq Channel \ Envelope /\ ByExit \subseteq Reporting /\ Watched \subseteq Channel \ Envelope
  /\ Producers \subseteq SUBSET Channel
  /\ UNION Producers = Channel /\ {} \notin Producers
  /\ \A p, q \in Producers : p = q \/ p \cap q = {}
  /\ Covers \in [Gate -> SUBSET Channel] /\ Mentions \in [Channel -> SUBSET Channel]
  /\ MaxAttempts \in Nat \ {0}

VARIABLES requested,   \* the channels this run was dispatched for
          absent,      \* producers the revision has no input for
          attempt,     \* current attempt of the run
          conclusion,  \* producer -> how its job ended
          retained,    \* channel -> the evidence it last retained
          since,       \* channel -> the attempt that evidence is from, 0 for none
          report       \* the report of the current attempt

vars == <<requested, absent, attempt, conclusion, retained, since, report>>

-----------------------------------------------------------------------------
Data == {"none", "bad", "clean", "found"}
Native == {"none", "COMPLETED", "FAILED", "INVALID_EVIDENCE"}
Evidence == [data : Data, native : Native]
Nothing == [data |-> "none", native |-> "none"]

Status == {"COMPLETED", "COMPLETED_OPTIONAL", "FAILED", "INVALID_EVIDENCE", "NOT_AVAILABLE",
           "NOT_SELECTED", "NOT_APPLICABLE"}
Complete == {"COMPLETED", "COMPLETED_OPTIONAL"}
\* A status file with one of these overrides the gate.
Failing == {"FAILED", "INVALID_EVIDENCE"}
NotRun == {"NOT_SELECTED", "NOT_APPLICABLE"}
Line == [status : Status, findings : {"unknown", "zero", "some"}]
Report == [made : {"none", "rejected", "published"}, lines : [Channel -> Line],
           satisfied : BOOLEAN, current : BOOLEAN]
Without(made) == [made |-> made, satisfied |-> FALSE, current |-> FALSE,
                  lines |-> [c \in Channel |-> [status |-> "NOT_AVAILABLE", findings |-> "unknown"]]]
NoReport == Without("none")

\* What is sent to scan is whole producers (applicability.selection).
Selections == {UNION S : S \in (SUBSET Producers) \ {{}}}
Producer(c) == CHOOSE p \in Producers : c \in p
\* The jobs that depend on what the revision holds; extensions do not.
Detected == {p \in Producers : p \cap Envelope = {}}
Selected == {p \in Producers : p \subseteq requested}
Running == Selected \ absent
Ended == \A p \in Running : conclusion[p] \in {"success", "failure"}

-----------------------------------------------------------------------------
(* What a scanner can leave behind when its job ends, well or not.          *)

Results == Data \ {"none"}
EnvelopeLeft == {Nothing} \cup [data : {"bad", "clean", "found"}, native : {"COMPLETED"}]
                          \cup [data : {"clean", "found"}, native : {"FAILED"}]
\* portable_runner.execute: completed with a result file, a fuzz harness without one.
CompletedWith(c) == [data : IF c \in ByExit THEN Data ELSE Results, native : {"COMPLETED"}]
ReportingLeft(c, ok) ==
  IF ok THEN {Nothing} \cup CompletedWith(c) \cup [data : Results, native : {"INVALID_EVIDENCE"}]
                       \cup [data : Data, native : {"FAILED"}]
  ELSE [data : Data, native : {"none"}] \cup CompletedWith(c)
PlainLeft(ok) ==
  IF ok THEN {Nothing} \cup [data : Results, native : {"none"}]
  ELSE [data : Data, native : {"none"}]
Leaves(c, ok) ==
  IF c \in Envelope THEN EnvelopeLeft
  ELSE IF c \in Reporting THEN ReportingLeft(c, ok) ELSE PlainLeft(ok)

Conclude(p) ==
  /\ p \in Running /\ conclusion[p] = "running"
  /\ \E ok \in BOOLEAN, left \in [p -> Evidence] :
       /\ \A c \in p : left[c] \in Leaves(c, ok)
       /\ conclusion' = [conclusion EXCEPT ![p] = IF ok THEN "success" ELSE "failure"]
       /\ LET new == {c \in p : left[c] # Nothing}
          IN /\ retained' = [c \in Channel |-> IF c \in new THEN left[c] ELSE retained[c]]
             /\ since' = [c \in Channel |-> IF c \in new THEN attempt ELSE since[c]]
  /\ UNCHANGED <<requested, absent, attempt, report>>

-----------------------------------------------------------------------------
(* The report job.  late holds the producers whose conclusion the jobs API  *)
(* still does not show after the last retry.                                *)

\* Only artifacts created in this attempt are collected.
CollectedFault(c) == retained[c]   \* fault: artifacts of any attempt
Collected(c) == IF since[c] = attempt THEN retained[c] ELSE Nothing

\* A watched job did not succeed, or does not seem to have: it is marked FAILED.  A
\* job that has ended is listed by the API, with its conclusion or without.
\* Fault: a job without a conclusion is taken for one that succeeded.
UnsuccessfulFault(p, late) == p \in Running \ late /\ conclusion[p] = "failure"
Unsuccessful(p, late) == p \in Running /\ (p \in late \/ conclusion[p] # "success")
\* The status file read for c: the mark, if there is one, sorts last.
NativeStatus(c, late) ==
  IF c \in Envelope THEN "none"
  ELSE IF c \in Watched /\ Unsuccessful(Producer(c), late) THEN "FAILED"
  ELSE Collected(c).native

\* Result files the normaliser rejected; envelopes are not its business.
Malformed == {c \in Channel \ Envelope : Collected(c).data = "bad"}

\* extensions.ingest: what an envelope is worth.
Ingested(c) ==
  LET e == Collected(c)
  IN IF e.data \in {"none", "bad"} \/ (e.data = "found" /\ e.native # "COMPLETED")
     THEN "INVALID_EVIDENCE" ELSE e.native

\* The findings that reach the report as observations of c.
Observed(c) ==
  /\ Collected(c).data = "found"
  /\ c \in Envelope => Ingested(c) = "COMPLETED"

\* evidence_contract.build and channel_status.build over the same files, then
\* the malformed artifacts.
GateStatus(c) ==
  LET files == {d \in Covers[c] : Collected(d).data # "none"}
  IN IF c \in Envelope THEN Ingested(c)
     ELSE IF files = {} \/ files \cap Malformed # {} THEN "INVALID_EVIDENCE" ELSE "COMPLETED"

\* Fault: the count of a channel that is not complete is dropped.
KnownFault(c, status) ==
  IF status \notin Complete THEN "unknown" ELSE IF Observed(c) THEN "some" ELSE "zero"
Known(c, status) ==
  IF Observed(c) THEN "some" ELSE IF status \in Complete THEN "zero" ELSE "unknown"

\* snapshot.build_analysis_channels.
Status0(c, late) ==
  LET native == NativeStatus(c, late)
  IN IF native \in Failing THEN native
     ELSE IF c \in Gate THEN GateStatus(c)
     ELSE IF native # "none" THEN native
     ELSE IF Observed(c) THEN "COMPLETED_OPTIONAL" ELSE "NOT_AVAILABLE"
Row(c, late) == [status |-> Status0(c, late), findings |-> Known(c, Status0(c, late))]

\* hosted_pipeline.assemble: a malformed file counts against the channels its
\* name mentions.
Blamed(c) == Malformed \cap Mentions[c] # {}
Corrected(c, late) ==
  IF Blamed(c)
  THEN [status |-> "INVALID_EVIDENCE",
        findings |-> IF Observed(c) THEN "some" ELSE "unknown"]
  ELSE Row(c, late)

\* applicability.selection and apply.
Excluded == {c \in Channel : Producer(c) \notin Running}
Exclusion(c) == [status |-> IF c \in requested THEN "NOT_APPLICABLE" ELSE "NOT_SELECTED",
                 findings |-> "unknown"]
Lines(late) == [c \in Channel |-> IF c \in Excluded THEN Exclusion(c) ELSE Corrected(c, late)]

\* The gate of the channels asked for, from their final statuses.
GateIds == IF Gate \cap requested # {} THEN Gate \cap requested ELSE requested
Satisfied(late) == \A c \in GateIds : Lines(late)[c].status = "COMPLETED"

\* What makes the report job raise: evidence of an excluded channel (apply), a
\* gate called satisfied that is not (dashboard.validate_snapshot).
Raises(late) ==
  \/ \E c \in Excluded : Observed(c)
  \/ Satisfied(late) /\ \E c \in GateIds : Lines(late)[c].status # "COMPLETED"

\* hosted.build: a channel that should have run and did not complete makes the
\* report partial.
Current(late) == \A c \in Channel : Lines(late)[c].status \in Complete \cup NotRun

Built(late) ==
  IF Raises(late) THEN Without("rejected")
  ELSE [made |-> "published", lines |-> Lines(late),
        satisfied |-> Satisfied(late), current |-> Current(late)]

Assemble ==
  /\ Ended /\ report.made = "none"
  /\ \E late \in SUBSET Running : report' = Built(late)
  /\ UNCHANGED <<requested, absent, attempt, conclusion, retained, since>>

\* Any of the jobs run again under the same run id, and the report job after them.
Rerun(again) ==
  /\ Ended /\ attempt < MaxAttempts
  /\ again \subseteq Running
  /\ attempt' = attempt + 1
  /\ conclusion' = [p \in Producers |-> IF p \in again THEN "running" ELSE conclusion[p]]
  /\ report' = NoReport
  /\ UNCHANGED <<requested, absent, retained, since>>

-----------------------------------------------------------------------------
EvidenceInit ==
  /\ requested \in Selections /\ absent \in SUBSET Detected
  /\ attempt = 1
  /\ conclusion = [p \in Producers |-> IF p \in Running THEN "running" ELSE "idle"]
  /\ retained = [c \in Channel |-> Nothing]
  /\ since = [c \in Channel |-> 0]
  /\ report = NoReport

EvidenceNext ==
  \/ \E p \in Producers : Conclude(p)
  \/ Assemble
  \/ \E again \in SUBSET Producers : Rerun(again)

EvidenceSpec == EvidenceInit /\ [][EvidenceNext]_vars

-----------------------------------------------------------------------------
(* Properties.                                                              *)

\* Types: evidence is of the current attempt or of an earlier one, and there is a
\* report only when every job has ended (hosted_pipeline.assemble).
EvidenceTypeOK ==
  /\ requested \in Selections /\ absent \subseteq Producers
  /\ attempt \in 1..MaxAttempts
  /\ conclusion \in [Producers -> {"idle", "running", "success", "failure"}]
  /\ retained \in [Channel -> Evidence]
  /\ since \in [Channel -> 0..attempt]
  /\ report \in Report
  /\ report.made # "none" => Ended

Published == report.made = "published"

\* Channels whose result file the names tell apart: no other file matches the patterns
\* of a required one, and the file of any other carries its channel's name.
OwnEvidence == {c \in Channel : IF c \in Gate THEN Covers[c] = {c} ELSE c \in Mentions[c]}
\* Completed by its producer, without a result file.
ByItsExit(c) == c \in ByExit /\ retained[c] = [data |-> "none", native |-> "COMPLETED"]

\* A channel of OwnEvidence reported complete retained, in this attempt, a result file
\* of its own that could be read, or is a fuzz harness that exited with 0, and "zero
\* findings" is what that file or that exit says: absent, lost, malformed or borrowed
\* evidence is never a clean zero.
CountsAreMeasured ==
  Published => \A c \in OwnEvidence : report.lines[c].status \in Complete =>
    /\ since[c] = attempt
    /\ retained[c].data \in {"clean", "found"} \/ ByItsExit(c)
    /\ report.lines[c].findings = "zero" <=> retained[c].data # "found"

\* A required channel whose scanner retained nothing in this attempt is not reported
\* with zero findings (CHANNEL_STATUS_CONTRACT.md: a zero is a measured result).
MissingIsNotZero ==
  Published => \A c \in Gate : report.lines[c].findings = "zero" => since[c] = attempt

\* A job the report job watches and that did not succeed leaves none of its channels
\* complete, whatever it uploaded before it ended and whatever the jobs API shows.
FailuresStayVisible ==
  Published => \A c \in Watched :
    Producer(c) \in Running /\ conclusion[Producer(c)] # "success" =>
      report.lines[c].status \notin Complete

\* Sibling failures do no harm: there always is a report, and it shows the findings of
\* every channel that retained readable ones in this attempt, whatever its own status
\* and whatever became of the other channels.
SiblingsKept ==
  /\ report.made # "rejected"
  /\ Published => \A c \in Channel :
       /\ since[c] = attempt /\ retained[c].data = "found"
       /\ c \in Envelope => retained[c].native = "COMPLETED"
       => report.lines[c].findings = "some"
===============================================================================
