------------------------ MODULE ChannelEvidenceProofs ------------------------
(* Machine-checked proofs about ChannelEvidence, for every catalog of        *)
(* channels, every grouping of them into jobs, and any number of reruns.     *)
EXTENDS ChannelEvidence, TLAPS

-----------------------------------------------------------------------------
(* The jobs.                                                                 *)

(* Every channel has one producer.                                           *)
LEMMA ProducerIsUnique ==
  ASSUME NEW c \in Channel
  PROVE  /\ Producer(c) \in Producers /\ c \in Producer(c)
         /\ \A p \in Producers : c \in p => p = Producer(c)
<1>1. \E p \in Producers : c \in p
  BY ChannelAssumption
<1>2. Producer(c) \in Producers /\ c \in Producer(c)
  BY <1>1 DEF Producer
<1>3. ASSUME NEW p \in Producers, c \in p
      PROVE  p = Producer(c)
  BY <1>2, <1>3, ChannelAssumption
<1> QED BY <1>2, <1>3

(* A scanner leaves evidence, and an envelope that can be read has a status. *)
LEMMA LeavesEvidence ==
  ASSUME NEW c \in Channel, NEW ok \in BOOLEAN, NEW e \in Leaves(c, ok)
  PROVE  /\ e \in Evidence
         /\ c \in Envelope /\ e # Nothing => e.native # "none"
         /\ e.native = "COMPLETED" => e.data # "none" \/ c \in ByExit
<1>1. Nothing \in Evidence /\ Nothing.native = "none"
  BY DEF Nothing, Evidence, Data, Native
<1>2. CASE c \in Envelope
  BY <1>1, <1>2 DEF Leaves, EnvelopeLeft, Evidence, Data, Native
<1>3. CASE c \notin Envelope /\ c \in Reporting
  BY <1>1, <1>3 DEF Leaves, ReportingLeft, CompletedWith, Evidence, Data, Native, Results
<1>4. CASE c \notin Envelope /\ c \notin Reporting
  BY <1>1, <1>4 DEF Leaves, PlainLeft, Evidence, Data, Native, Results
<1> QED BY <1>2, <1>3, <1>4

-----------------------------------------------------------------------------
(* The invariant.  What is retained was left by a scanner of a job that runs;*)
(* a report is what the report job builds from it, whatever the jobs API     *)
(* showed.                                                                   *)
Left(c) == retained[c] = Nothing \/ \E ok \in BOOLEAN : retained[c] \in Leaves(c, ok)
Kept == \A c \in Channel : Left(c) /\ (retained[c] # Nothing => Producer(c) \in Running)
Genuine == report.made # "none" => \E late \in SUBSET Running : report = Built(late)
EvidenceInv == EvidenceTypeOK /\ Kept /\ Genuine

(* What the report job collects of a channel.                                *)
LEMMA CollectedShape ==
  ASSUME EvidenceTypeOK, Kept, NEW c \in Channel
  PROVE  /\ Collected(c) \in Evidence
         /\ c \in Envelope /\ Collected(c) # Nothing => Collected(c).native # "none"
         /\ Collected(c).native = "COMPLETED" => Collected(c).data # "none" \/ c \in ByExit
         /\ Collected(c) # Nothing => since[c] = attempt /\ Collected(c) = retained[c]
         /\ Collected(c).data # "none" => Producer(c) \in Running
<1>1. Nothing \in Evidence /\ Nothing.data = "none" /\ Nothing.native = "none"
  BY DEF Nothing, Evidence, Data, Native
<1>2. Collected(c) = Nothing \/ (Collected(c) = retained[c] /\ since[c] = attempt)
  BY DEF Collected
<1>3. CASE Collected(c) = Nothing
  BY <1>1, <1>3
<1>4. CASE Collected(c) = retained[c] /\ since[c] = attempt /\ retained[c] # Nothing
  <2>1. PICK ok \in BOOLEAN : retained[c] \in Leaves(c, ok)
    BY <1>4 DEF Kept, Left
  <2>2. Producer(c) \in Running
    BY <1>4 DEF Kept
  <2> QED BY <1>4, <2>1, <2>2, LeavesEvidence
<1> QED BY <1>2, <1>3, <1>4

-----------------------------------------------------------------------------
(* The report job.                                                           *)

LEMMA StatusType ==
  ASSUME EvidenceTypeOK, Kept, NEW late, NEW c \in Channel
  PROVE  Status0(c, late) \in Status
<1>1. NativeStatus(c, late) \in Native
  BY CollectedShape DEF NativeStatus, Native, Evidence
<1>2. ASSUME c \in Envelope
      PROVE  Ingested(c) \in {"COMPLETED", "FAILED", "INVALID_EVIDENCE"}
  <2>1. CASE Collected(c) = Nothing
    BY <2>1 DEF Ingested, Nothing
  <2>2. CASE Collected(c) # Nothing
    BY <1>2, <2>2, CollectedShape DEF Ingested, Evidence, Native
  <2> QED BY <2>1, <2>2
<1>3. GateStatus(c) \in {"COMPLETED", "FAILED", "INVALID_EVIDENCE"}
  BY <1>2 DEF GateStatus
<1> QED BY <1>1, <1>3 DEF Status0, Status, Native, Failing

LEMMA LineType ==
  ASSUME EvidenceTypeOK, Kept, NEW late, NEW c \in Channel
  PROVE  Lines(late)[c] \in Line
<1>1. Row(c, late) \in Line
  BY StatusType DEF Row, Line, Known
<1>2. Corrected(c, late) \in Line
  BY <1>1 DEF Corrected, Line, Status
<1>3. Exclusion(c) \in Line
  BY DEF Exclusion, Line, Status
<1> QED BY <1>2, <1>3 DEF Lines

LEMMA BuiltType ==
  ASSUME EvidenceTypeOK, Kept, NEW late
  PROVE  Built(late) \in Report
<1>1. Without("rejected") \in Report
  BY DEF Without, Report, Line, Status
<1>2. Lines(late) \in [Channel -> Line]
  <2>1. Lines(late) = [c \in Channel |-> Lines(late)[c]]
    BY DEF Lines
  <2> QED BY <2>1, LineType
<1>3. Satisfied(late) \in BOOLEAN /\ Current(late) \in BOOLEAN
  BY DEF Satisfied, Current
<1> QED BY <1>1, <1>2, <1>3 DEF Built, Report

(* Nothing makes the report job raise.                                       *)
LEMMA NeverRaises ==
  ASSUME EvidenceTypeOK, Kept, NEW late
  PROVE  ~Raises(late)
<1>1. ASSUME NEW c \in Excluded, Observed(c)
      PROVE  FALSE
  <2>1. c \in Channel /\ Producer(c) \notin Running
    BY DEF Excluded
  <2>2. Collected(c).data # "none"
    BY <1>1 DEF Observed
  <2> QED BY <2>1, <2>2, CollectedShape
<1>2. ~(Satisfied(late) /\ \E c \in GateIds : Lines(late)[c].status # "COMPLETED")
  BY DEF Satisfied
<1> QED BY <1>1, <1>2 DEF Raises

LEMMA BuiltIsPublished ==
  ASSUME EvidenceTypeOK, Kept, NEW late
  PROVE  Built(late).made = "published" /\ Built(late).lines = Lines(late)
BY NeverRaises DEF Built

(* The report is a function of what has ended and is retained.               *)
LEMMA BuiltUnchanged ==
  ASSUME UNCHANGED <<requested, absent, attempt, conclusion, retained, since>>,
         NEW CONSTANT late
  PROVE  Built(late)' = Built(late) /\ Running' = Running
<1>1. Running' = Running
  BY DEF Running, Selected
<1>2. ASSUME NEW CONSTANT c PROVE Collected(c)' = Collected(c)
  BY DEF Collected
<1>3. Malformed' = Malformed /\ Excluded' = Excluded /\ GateIds' = GateIds
  BY <1>1, <1>2 DEF Malformed, Excluded, GateIds
<1>4. ASSUME NEW CONSTANT c
      PROVE  Ingested(c)' = Ingested(c) /\ (Observed(c)' <=> Observed(c))
  BY <1>2 DEF Ingested, Observed
<1>5. ASSUME NEW CONSTANT c
      PROVE  NativeStatus(c, late)' = NativeStatus(c, late) /\ GateStatus(c)' = GateStatus(c)
  <2>1. NativeStatus(c, late)' = NativeStatus(c, late)
    BY <1>1, <1>2 DEF NativeStatus, Unsuccessful
  <2>2. {d \in Covers[c] : Collected(d).data # "none"}' = {d \in Covers[c] : Collected(d).data # "none"}
    BY <1>2
  <2>3. GateStatus(c)' = GateStatus(c)
    BY <1>3, <1>4, <2>2 DEF GateStatus
  <2> QED BY <2>1, <2>3
<1>6. ASSUME NEW CONSTANT c PROVE Corrected(c, late)' = Corrected(c, late)
  <2>1. Status0(c, late)' = Status0(c, late)
    BY <1>4, <1>5 DEF Status0
  <2>2. Row(c, late)' = Row(c, late)
    BY <1>4, <2>1 DEF Row, Known
  <2> QED BY <1>3, <1>4, <2>2 DEF Corrected, Blamed
<1>7. Lines(late)' = Lines(late)
  BY <1>3, <1>6 DEF Lines, Exclusion
<1>8. /\ Satisfied(late)' <=> Satisfied(late)
      /\ Current(late)' <=> Current(late)
      /\ Raises(late)' <=> Raises(late)
  BY <1>3, <1>4, <1>7 DEF Satisfied, Current, Raises
<1>9. Satisfied(late)' = Satisfied(late) /\ Current(late)' = Current(late)
  BY <1>8 DEF Satisfied, Current
<1> QED BY <1>1, <1>7, <1>8, <1>9 DEF Built

-----------------------------------------------------------------------------
(* The invariant is inductive.                                               *)

LEMMA EvidenceInitInv == EvidenceInit => EvidenceInv
<1> SUFFICES ASSUME EvidenceInit PROVE EvidenceInv
  OBVIOUS
<1>1. Nothing \in Evidence
  BY DEF Nothing, Evidence, Data, Native
<1>2. NoReport \in Report /\ NoReport.made = "none"
  BY DEF NoReport, Without, Report, Line, Status
<1>3. EvidenceTypeOK
  BY <1>1, <1>2, ChannelAssumption DEF EvidenceInit, EvidenceTypeOK, Detected
<1>4. Kept /\ Genuine
  BY <1>2 DEF EvidenceInit, Kept, Left, Genuine
<1> QED BY <1>3, <1>4 DEF EvidenceInv

LEMMA ConcludeInv ==
  ASSUME EvidenceInv, NEW p \in Producers, Conclude(p)
  PROVE  EvidenceInv'
<1> USE DEF EvidenceInv
<1>1. PICK ok \in BOOLEAN, left \in [p -> Evidence] :
        /\ \A c \in p : left[c] \in Leaves(c, ok)
        /\ conclusion' = [conclusion EXCEPT ![p] = IF ok THEN "success" ELSE "failure"]
        /\ LET new == {c \in p : left[c] # Nothing}
           IN /\ retained' = [c \in Channel |-> IF c \in new THEN left[c] ELSE retained[c]]
              /\ since' = [c \in Channel |-> IF c \in new THEN attempt ELSE since[c]]
  BY DEF Conclude
<1>2. p \in Running /\ conclusion[p] = "running" /\ report' = report
      /\ UNCHANGED <<requested, absent, attempt>>
  BY DEF Conclude
<1>3. report.made = "none"
  <2>1. ~Ended
    BY <1>2 DEF Ended
  <2> QED BY <2>1 DEF EvidenceTypeOK
<1>4. EvidenceTypeOK'
  <2>1. retained' \in [Channel -> Evidence]
    BY <1>1 DEF EvidenceTypeOK
  <2>2. since' \in [Channel -> 0..attempt]
    BY <1>1 DEF EvidenceTypeOK
  <2>3. conclusion' \in [Producers -> {"idle", "running", "success", "failure"}]
    BY <1>1 DEF EvidenceTypeOK
  <2> QED BY <1>2, <1>3, <2>1, <2>2, <2>3 DEF EvidenceTypeOK
<1>5. Kept'
  <2> SUFFICES ASSUME NEW c \in Channel
               PROVE  Left(c)' /\ (retained'[c] # Nothing => Producer(c) \in Running')
    BY DEF Kept
  <2>1. Running' = Running
    BY <1>2 DEF Running, Selected
  <2>2. CASE c \in p /\ left[c] # Nothing
    <3>1. retained'[c] = left[c] /\ left[c] \in Leaves(c, ok)
      BY <1>1, <2>2
    <3>2. Producer(c) = p
      BY <2>2, ProducerIsUnique
    <3> QED BY <1>2, <2>1, <3>1, <3>2 DEF Left
  <2>3. CASE ~(c \in p /\ left[c] # Nothing)
    <3>1. retained'[c] = retained[c]
      BY <1>1, <2>3
    <3> QED BY <2>1, <3>1 DEF Kept, Left
  <2> QED BY <2>2, <2>3
<1>6. Genuine'
  BY <1>2, <1>3 DEF Genuine
<1> QED BY <1>4, <1>5, <1>6

LEMMA AssembleInv ==
  ASSUME EvidenceInv, Assemble
  PROVE  EvidenceInv'
<1> USE DEF EvidenceInv
<1>1. PICK late \in SUBSET Running : report' = Built(late)
  BY DEF Assemble
<1>2. Ended /\ UNCHANGED <<requested, absent, attempt, conclusion, retained, since>>
  BY DEF Assemble
<1>3. Built(late) \in Report
  BY BuiltType
<1>4. Running' = Running
  BY <1>2 DEF Running, Selected
<1>5. EvidenceTypeOK'
  BY <1>1, <1>2, <1>3, <1>4 DEF EvidenceTypeOK, Ended
<1>6. Kept'
  BY <1>2, <1>4 DEF Kept, Left
<1>7. Genuine'
  <2>1. Built(late)' = Built(late)
    BY <1>2, BuiltUnchanged
  <2> QED BY <1>1, <1>4, <2>1 DEF Genuine
<1> QED BY <1>5, <1>6, <1>7

LEMMA RerunInv ==
  ASSUME EvidenceInv, NEW again \in SUBSET Producers, Rerun(again)
  PROVE  EvidenceInv'
<1> USE DEF EvidenceInv
<1>1. /\ attempt < MaxAttempts /\ attempt' = attempt + 1
      /\ conclusion' = [p \in Producers |-> IF p \in again THEN "running" ELSE conclusion[p]]
      /\ report' = NoReport /\ UNCHANGED <<requested, absent, retained, since>>
  BY DEF Rerun
<1>2. NoReport \in Report /\ NoReport.made = "none"
  BY DEF NoReport, Without, Report, Line, Status
<1>3. EvidenceTypeOK'
  <2>1. attempt' \in 1..MaxAttempts
    BY <1>1, ChannelAssumption DEF EvidenceTypeOK
  <2>2. since' \in [Channel -> 0..attempt']
    BY <1>1, ChannelAssumption DEF EvidenceTypeOK
  <2>3. conclusion' \in [Producers -> {"idle", "running", "success", "failure"}]
    BY <1>1 DEF EvidenceTypeOK
  <2> QED BY <1>1, <1>2, <2>1, <2>2, <2>3 DEF EvidenceTypeOK
<1>4. Kept'
  BY <1>1 DEF Kept, Left, Running, Selected
<1>5. Genuine'
  BY <1>1, <1>2 DEF Genuine
<1> QED BY <1>3, <1>4, <1>5

LEMMA EvidenceStepInv == EvidenceInv /\ [EvidenceNext]_vars => EvidenceInv'
<1>1. ASSUME EvidenceInv, UNCHANGED vars
      PROVE  EvidenceInv'
  <2>1. Running' = Running /\ \A late \in SUBSET Running : Built(late)' = Built(late)
    BY <1>1, BuiltUnchanged DEF vars
  <2>2. EvidenceTypeOK'
    BY <1>1, <2>1 DEF EvidenceInv, vars, EvidenceTypeOK, Ended
  <2>3. Kept'
    BY <1>1, <2>1 DEF EvidenceInv, vars, Kept, Left
  <2>4. Genuine'
    BY <1>1, <2>1 DEF EvidenceInv, vars, Genuine
  <2> QED BY <2>2, <2>3, <2>4 DEF EvidenceInv
<1>2. ASSUME EvidenceInv, EvidenceNext
      PROVE  EvidenceInv'
  BY <1>2, ConcludeInv, AssembleInv, RerunInv DEF EvidenceNext
<1> QED BY <1>1, <1>2

LEMMA AlwaysEvidenceInv == EvidenceSpec => []EvidenceInv
<1> QED BY EvidenceInitInv, EvidenceStepInv, PTL DEF EvidenceSpec

-----------------------------------------------------------------------------
(* What a published report says.                                             *)

LEMMA PublishedIsBuilt ==
  ASSUME EvidenceInv, Published
  PROVE  \E late \in SUBSET Running : report.lines = Lines(late)
<1>1. PICK late \in SUBSET Running : report = Built(late)
  BY DEF EvidenceInv, Genuine, Published
<1> QED BY <1>1, BuiltIsPublished DEF EvidenceInv

(* Evidence is of this run, and a report waits for every scanner job.        *)
THEOREM EvidenceTypes == EvidenceSpec => []EvidenceTypeOK
<1>1. EvidenceInv => EvidenceTypeOK
  BY DEF EvidenceInv
<1> QED BY <1>1, AlwaysEvidenceInv, PTL

(* A watched job that failed, was killed or only seems to have leaves none of *)
(* its channels complete, whatever it had uploaded by then.                  *)
THEOREM FailuresAreVisible == EvidenceSpec => []FailuresStayVisible
<1>1. ASSUME EvidenceInv, Published, NEW c \in Watched,
             Producer(c) \in Running, conclusion[Producer(c)] # "success"
      PROVE  report.lines[c].status \notin Complete
  <2>1. PICK late \in SUBSET Running : report.lines = Lines(late)
    BY <1>1, PublishedIsBuilt
  <2>2. c \in Channel /\ c \notin Envelope
    BY ChannelAssumption
  <2>3. NativeStatus(c, late) = "FAILED"
    BY <1>1, <2>2 DEF NativeStatus, Unsuccessful
  <2>4. Status0(c, late) = "FAILED"
    BY <2>3 DEF Status0, Failing
  <2>5. Lines(late)[c] = Corrected(c, late)
    BY <1>1, <2>2 DEF Lines, Excluded
  <2>6. Corrected(c, late).status \in {"FAILED", "INVALID_EVIDENCE"}
    BY <2>4 DEF Corrected, Row
  <2> QED BY <2>1, <2>5, <2>6 DEF Complete
<1>2. EvidenceInv => FailuresStayVisible
  BY <1>1 DEF FailuresStayVisible
<1> QED BY <1>2, AlwaysEvidenceInv, PTL

(* There always is a report once the jobs have ended, and what one channel   *)
(* found is in it whatever became of the others.                             *)
THEOREM SiblingsAreKept == EvidenceSpec => []SiblingsKept
<1>1. ASSUME EvidenceInv
      PROVE  report.made # "rejected"
  <2>1. CASE report.made = "none"
    BY <2>1
  <2>2. CASE report.made # "none"
    <3>1. PICK late \in SUBSET Running : report = Built(late)
      BY <1>1, <2>2 DEF EvidenceInv, Genuine
    <3> QED BY <1>1, <3>1, BuiltIsPublished DEF EvidenceInv
  <2> QED BY <2>1, <2>2
<1>2. ASSUME EvidenceInv, Published, NEW c \in Channel,
             since[c] = attempt, retained[c].data = "found",
             c \in Envelope => retained[c].native = "COMPLETED"
      PROVE  report.lines[c].findings = "some"
  <2>1. PICK late \in SUBSET Running : report.lines = Lines(late)
    BY <1>2, PublishedIsBuilt
  <2>2. Collected(c) = retained[c]
    BY <1>2 DEF Collected
  <2>3. Observed(c)
    BY <1>2, <2>2 DEF Observed, Ingested
  <2>4. Producer(c) \in Running
    BY <1>2, <2>2, CollectedShape DEF EvidenceInv
  <2>5. Lines(late)[c] = Corrected(c, late)
    BY <2>4 DEF Lines, Excluded
  <2>6. Corrected(c, late).findings = "some"
    BY <2>3 DEF Corrected, Row, Known
  <2> QED BY <2>1, <2>5, <2>6
<1>3. EvidenceInv => SiblingsKept
  BY <1>1, <1>2 DEF SiblingsKept
<1> QED BY <1>3, AlwaysEvidenceInv, PTL

(* A complete line comes from readable evidence of its own, or from an exit. *)
LEMMA CompleteIsReadable ==
  ASSUME EvidenceTypeOK, Kept, NEW late, NEW c \in OwnEvidence,
         Lines(late)[c].status \in Complete
  PROVE  /\ \/ Collected(c).data \in {"clean", "found"}
            \/ c \in ByExit /\ Collected(c) = [data |-> "none", native |-> "COMPLETED"]
         /\ Lines(late)[c].findings = Known(c, Status0(c, late))
         /\ Status0(c, late) \in Complete
         /\ Observed(c) <=> Collected(c).data = "found"
<1>0. c \in Channel /\ (IF c \in Gate THEN Covers[c] = {c} ELSE c \in Mentions[c])
  BY DEF OwnEvidence
<1>1. c \notin Excluded
  BY <1>0 DEF Lines, Exclusion, Complete
<1>2. Lines(late)[c] = Corrected(c, late)
  BY <1>0, <1>1 DEF Lines
<1>3. ~Blamed(c) /\ Lines(late)[c] = Row(c, late)
  BY <1>2 DEF Corrected, Complete
<1>4. Status0(c, late) \in Complete
  BY <1>3 DEF Row
<1>5. Collected(c) \in Evidence
  BY <1>0, CollectedShape
<1>6. CASE c \in Envelope
  <2>1. Status0(c, late) = Ingested(c)
    BY <1>6, ChannelAssumption DEF Status0, NativeStatus, GateStatus, Failing
  <2>2. Collected(c).data \in {"clean", "found"}
    BY <1>4, <1>5, <2>1 DEF Ingested, Complete, Evidence, Data
  <2>3. Ingested(c) = "COMPLETED"
    BY <1>4, <1>5, <2>1 DEF Complete, Ingested, Evidence, Native
  <2> QED BY <1>3, <1>4, <2>2, <2>3 DEF Observed, Row
<1>7. CASE c \notin Envelope
  <2> SUFFICES /\ Collected(c).data # "bad"
               /\ Collected(c).data # "none" \/ (c \in ByExit /\ Collected(c).native = "COMPLETED")
    BY <1>3, <1>4, <1>5, <1>7 DEF Observed, Row, Evidence, Data
  <2>1. CASE NativeStatus(c, late) \in Failing
    BY <1>4, <2>1 DEF Status0, Failing, Complete
  <2>2. CASE NativeStatus(c, late) \notin Failing /\ c \in Gate
    <3>1. Covers[c] = {c}
      BY <1>0, <2>2
    <3>2. GateStatus(c) \in Complete
      BY <1>4, <2>2 DEF Status0
    <3>3. LET files == {d \in Covers[c] : Collected(d).data # "none"}
          IN files # {} /\ files \cap Malformed = {}
      BY <1>7, <3>2 DEF GateStatus, Complete
    <3> QED BY <1>0, <1>7, <3>1, <3>3 DEF Malformed
  <2>3. CASE NativeStatus(c, late) \notin Failing /\ c \notin Gate
    <3>1. Collected(c).data # "bad"
      BY <1>0, <1>3, <1>7, <2>3 DEF Blamed, Malformed
    <3>2. CASE NativeStatus(c, late) # "none"
      <4>1. NativeStatus(c, late) = Collected(c).native
        BY <1>7, <2>3, <3>2 DEF NativeStatus, Failing
      <4>2. Collected(c).native = "COMPLETED"
        BY <1>5, <2>3, <3>2, <4>1 DEF Evidence, Native, Failing
      <4> QED BY <1>0, <3>1, <4>2, CollectedShape
    <3>3. CASE NativeStatus(c, late) = "none"
      BY <1>4, <2>3, <3>1, <3>3 DEF Status0, Observed, Complete
    <3> QED BY <3>2, <3>3
  <2> QED BY <2>1, <2>2, <2>3
<1> QED BY <1>6, <1>7

(* A channel whose files the names tell apart is never called complete, and  *)
(* never has zero findings, but by a result of its own from this attempt or  *)
(* by the exit of its fuzz harness (hosted_pipeline.py:51,                   *)
(* portable_runner.py:77).                                                   *)
THEOREM CompleteIsMeasured == EvidenceSpec => []CountsAreMeasured
<1>1. ASSUME EvidenceInv, Published, NEW c \in OwnEvidence, report.lines[c].status \in Complete
      PROVE  /\ since[c] = attempt
             /\ retained[c].data \in {"clean", "found"} \/ ByItsExit(c)
             /\ report.lines[c].findings = "zero" <=> retained[c].data # "found"
  <2>0. c \in Channel
    BY DEF OwnEvidence
  <2>1. PICK late \in SUBSET Running : report.lines = Lines(late)
    BY <1>1, PublishedIsBuilt
  <2>2. /\ \/ Collected(c).data \in {"clean", "found"}
           \/ c \in ByExit /\ Collected(c) = [data |-> "none", native |-> "COMPLETED"]
        /\ Lines(late)[c].findings = Known(c, Status0(c, late))
        /\ Status0(c, late) \in Complete
        /\ Observed(c) <=> Collected(c).data = "found"
    BY <1>1, <2>1, CompleteIsReadable DEF EvidenceInv
  <2>3. Collected(c) # Nothing
    BY <2>2 DEF Nothing
  <2>4. since[c] = attempt /\ Collected(c) = retained[c]
    BY <1>1, <2>0, <2>3, CollectedShape DEF EvidenceInv
  <2> QED BY <2>1, <2>2, <2>4 DEF Known, ByItsExit
<1>2. EvidenceInv => CountsAreMeasured
  BY <1>1 DEF CountsAreMeasured
<1> QED BY <1>2, AlwaysEvidenceInv, PTL
===============================================================================
