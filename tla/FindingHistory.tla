---------------------------- MODULE FindingHistory ----------------------------
(***************************************************************************)
(* What becomes of a finding across revisions: the evidence of a run is    *)
(* compared with an accepted baseline and with the run before              *)
(* (monitoring.py, baseline_builder.py), while the code is edited and      *)
(* scanners fail.  The triage shown beside a row is left out: it is looked *)
(* up by identity and changes no row.                                      *)
(*                                                                         *)
(* The file, the concept and the enclosing symbol of a problem are its     *)
(* site.  A finding is identified by its site, its line and its statement; *)
(* the hash over them is taken to be free of collisions.                   *)
(*                                                                         *)
(* A definition named ...Fault is a plausible slip in the definition that  *)
(* follows it; no specification uses it.                                   *)
(***************************************************************************)
EXTENDS Integers, FiniteSets

CONSTANTS Problem, Site, Text, Scanner,
          SiteOf, TextOf,   \* where a problem is and the statement it is in
          ScannersOf,       \* the scanner families that find it
          Accepted,         \* the families an accepted run may hold results of
          Likeness,         \* percent in which the anchors of two statements agree, on different lines
          Strong, Margin,   \* percent a drift match needs, and by which it must beat the next one
          Near,             \* lines a finding may drift
          MaxLine, MaxEdits,   \* bounds: lines, edits
          Gone, Unset

ASSUME HistoryAssumption ==
  /\ SiteOf \in [Problem -> Site] /\ TextOf \in [Problem -> Text] /\ ScannersOf \in [Problem -> (SUBSET Scanner) \ {{}}]
  /\ Accepted \subseteq SUBSET Scanner
  /\ Likeness \in [Text \X Text -> 0..100] /\ {Strong, Margin} \subseteq 0..100
  /\ {Near, MaxLine, MaxEdits} \subseteq Nat /\ Gone \notin Nat

VARIABLES code,       \* problem |-> its line, or Gone
          baseline,   \* the accepted findings, Unset before they are
          latest,     \* the findings of the last run, Unset without one
          comparison, \* its comparison with the baseline
          accepted, measured,   \* the code the baseline and the last run were made from
          edits

historyVars == <<code, baseline, latest, comparison, accepted, measured, edits>>

-----------------------------------------------------------------------------
(* Identity and evidence.                                                   *)
Identity == [site : Site, line : 1..MaxLine, text : Text]
ASSUME UnsetAssumption == Unset \notin Identity

IdOf(f) == [site |-> f.site, line |-> f.line, text |-> f.text]
Ids(F) == {IdOf(f) : f \in F}
Place(c, p) == [site |-> SiteOf[p], line |-> c[p], text |-> TextOf[p]]

\* Results of one identity are one finding, supported by all families that observed it.
Finders(c, i, observing) == {f \in observing : \E p \in Problem : c[p] # Gone /\ Place(c, p) = i /\ f \in ScannersOf[p]}
Evidence(c, observing) ==
  {[site |-> i.site, line |-> i.line, text |-> i.text, families |-> Finders(c, i, observing)] :
     i \in {Place(c, p) : p \in {q \in Problem : c[q] # Gone /\ ScannersOf[q] \cap observing # {}}}}

-----------------------------------------------------------------------------
(* Drift matching.                                                          *)
Distance(old, new) == IF old.line < new.line THEN new.line - old.line ELSE old.line - new.line
Score(old, new) == IF old.line = new.line /\ old.text = new.text THEN 100 ELSE Likeness[<<old.text, new.text>>]
CandidatesFault(Old, New) ==
  {m \in Old \X New : m[1].site = m[2].site /\ Score(m[1], m[2]) >= Strong /\ Distance(m[1], m[2]) < Near}
Candidates(Old, New) ==
  {m \in Old \X New : m[1].site = m[2].site /\ Score(m[1], m[2]) >= Strong /\ Distance(m[1], m[2]) <= Near}

\* The best pair of C scores highest, then drifts least; the rest is left to the hashes.
Before(m, n) == Score(m[1], m[2]) > Score(n[1], n[2])
                \/ (Score(m[1], m[2]) = Score(n[1], n[2]) /\ Distance(m[1], m[2]) <= Distance(n[1], n[2]))
Best(C) == CHOOSE m \in C : \A n \in C : Before(m, n)
OfOld(C, old) == {m \in C : m[1] = old}
OfNew(C, new) == {m \in C : m[2] = new}

\* A finding drifted where the best of its candidates is clearly best and has no better
\* origin itself.
StrongMatchesFault(Old, New) ==
  LET C == Candidates(Old, New) IN
  {m \in C : m = Best(OfOld(C, m[1]))
             /\ \A n \in OfOld(C, m[1]) \ {m} : Score(m[1], m[2]) - Score(n[1], n[2]) >= Margin}
StrongMatches(Old, New) ==
  LET C == Candidates(Old, New) IN
  {m \in C : m = Best(OfOld(C, m[1])) /\ m = Best(OfNew(C, m[2]))
             /\ \A n \in OfOld(C, m[1]) \ {m} : Score(m[1], m[2]) - Score(n[1], n[2]) >= Margin}

-----------------------------------------------------------------------------
(* Comparison.                                                              *)
\* The finding of F that another document F2 does not hold under the same identity.
Unmatched(F, F2) == {f \in F : IdOf(f) \notin Ids(F2)}

\* What the run before says of a finding of this one.
PreviousState(New, i) ==
  IF latest = Unset \/ i \notin Ids(New) THEN "UNAVAILABLE"
  ELSE IF i \in Ids(latest) THEN "EXISTING"
  ELSE IF i \in {IdOf(m[2]) : m \in StrongMatches(Unmatched(latest, New), Unmatched(New, latest))} THEN "MOVED"
  ELSE "NEW"

RowOf(New, f, lifecycle, from, failed) ==
  [finding |-> f, lifecycle |-> lifecycle, from |-> from, failed |-> failed, before |-> PreviousState(New, IdOf(f))]

\* The families of an unobserved finding that cannot vouch for its absence.
FailedFault(f, s) == {x \in f.families : x \in DOMAIN s /\ s[x] # "COMPLETED"}
Failed(f, s) == {x \in f.families : x \notin DOMAIN s \/ s[x] # "COMPLETED"}

Compare(Old, New, s) ==
  LET moved == StrongMatches(Unmatched(Old, New), Unmatched(New, Old))
      origins == {m[1] : m \in moved}
      targets == {m[2] : m \in moved} IN
  {RowOf(New, f, "EXISTING", IdOf(f), {}) : f \in New \ Unmatched(New, Old)}
  \cup {RowOf(New, m[2], "MOVED", IdOf(m[1]), {}) : m \in moved}
  \cup {RowOf(New, f, IF Failed(f, s) = {} THEN "NOT_OBSERVED" ELSE "INDETERMINATE", IdOf(f), Failed(f, s)) :
          f \in Unmatched(Old, New) \ origins}
  \cup {RowOf(New, f, "NEW", Unset, {}) : f \in Unmatched(New, Old) \ targets}

-----------------------------------------------------------------------------
(* The code is edited: a problem is fixed or comes, or lines are put in or  *)
(* taken out above it.                                                      *)
Edit ==
  /\ edits < MaxEdits /\ edits' = edits + 1
  /\ \/ \E p \in Problem, l \in 1..MaxLine : code[p] = Gone /\ code' = [code EXCEPT ![p] = l]
     \/ \E p \in Problem : code[p] # Gone /\ code' = [code EXCEPT ![p] = Gone]
     \/ \E s \in Site, l \in 1..MaxLine, by \in -Near..(Near + 1) :
          LET Below == {p \in Problem : SiteOf[p] = s /\ code[p] # Gone /\ code[p] >= l} IN
          /\ Below # {} /\ by # 0 /\ \A p \in Below : code[p] + by \in l..MaxLine
          /\ code' = [p \in Problem |-> IF p \in Below THEN code[p] + by ELSE code[p]]
  /\ UNCHANGED <<baseline, latest, comparison, accepted, measured>>

\* A run is accepted as the baseline, once.
AcceptBaseline ==
  /\ baseline = Unset
  /\ \E observing \in Accepted : baseline' = Evidence(code, observing)
  /\ accepted' = code
  /\ UNCHANGED <<code, latest, comparison, measured, edits>>

\* A run of the scanners and its comparison.  A scanner that fails may leave its results
\* or none; one without a row left none.  Without a baseline nothing is compared.
Analyse ==
  /\ baseline # Unset
  /\ \E listed \in SUBSET Scanner : \E s \in [listed -> {"COMPLETED", "FAILED"}] :
       \E observing \in SUBSET listed :
         /\ \A f \in listed : s[f] = "COMPLETED" => f \in observing
         /\ latest' = Evidence(code, observing)
         /\ comparison' = Compare(baseline, Evidence(code, observing), s)
  /\ measured' = code
  /\ UNCHANGED <<code, baseline, accepted, edits>>

HistoryInit ==
  /\ code \in [Problem -> 1..MaxLine \cup {Gone}]
  /\ baseline = Unset /\ accepted = code /\ latest = Unset /\ comparison = Unset /\ measured = code
  /\ edits = 0
HistoryNext == Edit \/ AcceptBaseline \/ Analyse
HistorySpec == HistoryInit /\ [][HistoryNext]_historyVars

-----------------------------------------------------------------------------
(* Properties.                                                              *)
\* Every finding of the baseline and every finding of the run is accounted for in exactly
\* one row, also where like statements compete for each other (monitoring.py:355-372, 422).
EachOnce ==
  comparison # Unset =>
    /\ \A f \in baseline : Cardinality({r \in comparison : r.from = IdOf(f)}) = 1
    /\ \A f \in latest :
         Cardinality({r \in comparison : r.lifecycle \in {"EXISTING", "MOVED", "NEW"} /\ IdOf(r.finding) = IdOf(f)}) = 1

\* A finding is not called unobserved while a scanner that supported it would still find it
\* where it was: a failed or missing scanner makes it indeterminate (monitoring.py:395-402).
AbsenceIsMeasured ==
  comparison # Unset =>
    \A r \in comparison : r.lifecycle = "NOT_OBSERVED" => Finders(measured, r.from, r.finding.families) = {}

\* A problem without a like one at its site that only changed lines, by no more than the
\* matching allows and with its scanners complete, is the same finding, neither new nor gone
\* (monitoring.py:49, 343-372).
Alone(p) ==
  \A q \in Problem \ {p} :
    SiteOf[q] = SiteOf[p] /\ (accepted[q] # Gone \/ measured[q] # Gone) =>
      /\ TextOf[p] # TextOf[q]
      /\ Likeness[<<TextOf[p], TextOf[q]>>] < Strong /\ Likeness[<<TextOf[q], TextOf[p]>>] < Strong
ShiftIsFollowed ==
  comparison # Unset =>
    \A p \in Problem :
      LET was == Place(accepted, p)  is == Place(measured, p) IN
      /\ accepted[p] # Gone /\ measured[p] # Gone /\ Alone(p) /\ Likeness[<<TextOf[p], TextOf[p]>>] >= Strong
      /\ Distance(was, is) <= Near /\ was \in Ids(baseline) /\ is \in Ids(latest)
      => \E r \in comparison : r.from = was /\ IdOf(r.finding) = is
                         /\ r.lifecycle = IF was = is THEN "EXISTING" ELSE "MOVED"
===============================================================================
