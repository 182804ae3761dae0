-------------------------- MODULE ReportContentsProofs --------------------------
(***************************************************************************)
(* Theorems of FindingHistory, for any problems, sites, statements,        *)
(* scanners, likeness and thresholds, and of ReportBundle, for whatever    *)
(* the scanners reported and the producing run left.                       *)
(***************************************************************************)
EXTENDS ReportContents, FiniteSetTheorems, FunctionTheorems, WellFoundedInduction, TLAPS

-----------------------------------------------------------------------------
(* The history of a finding.                                                *)
Codes == [Problem -> 1..MaxLine \cup {Gone}]

\* A document holds a finding once for each identity.
Distinct(F) ==
  /\ \A f \in F : IdOf(f) \in Identity
  /\ \A f, g \in F : IdOf(f) = IdOf(g) => f = g

LEMMA EvidenceHolds ==
  ASSUME NEW c, NEW observing, NEW p \in Problem, c[p] # Gone, ScannersOf[p] \cap observing # {}
  PROVE  Place(c, p) \in Ids(Evidence(c, observing))
<1> DEFINE i == Place(c, p)
           f == [site |-> i.site, line |-> i.line, text |-> i.text, families |-> Finders(c, i, observing)]
<1>1. f \in Evidence(c, observing)
  BY DEF Evidence
<1>2. IdOf(f) = i
  BY DEF IdOf, Place
<1> QED
  BY <1>1, <1>2 DEF Ids

LEMMA EvidenceDistinct == ASSUME NEW c \in Codes, NEW observing PROVE Distinct(Evidence(c, observing))
<1>1. ASSUME NEW f \in Evidence(c, observing)
      PROVE  /\ IdOf(f) \in Identity
             /\ f = [site |-> IdOf(f).site, line |-> IdOf(f).line, text |-> IdOf(f).text,
                     families |-> Finders(c, IdOf(f), observing)]
  <2>1. PICK p \in Problem :
          /\ c[p] # Gone
          /\ f = [site |-> Place(c, p).site, line |-> Place(c, p).line, text |-> Place(c, p).text,
                  families |-> Finders(c, Place(c, p), observing)]
    BY DEF Evidence
  <2>2. IdOf(f) = Place(c, p)
    BY <2>1 DEF IdOf, Place
  <2>3. Place(c, p) \in Identity
    BY <2>1, HistoryAssumption DEF Codes, Place, Identity
  <2> QED
    BY <2>1, <2>2, <2>3
<1> QED
  BY <1>1 DEF Distinct

-----------------------------------------------------------------------------
LEMMA CodeTyped == HistorySpec => [](code \in Codes /\ measured \in Codes)
<1>1. HistoryInit => code \in Codes /\ measured \in Codes
  BY DEF HistoryInit, Codes
<1>2. code \in Codes /\ measured \in Codes /\ [HistoryNext]_historyVars => (code \in Codes /\ measured \in Codes)'
  <2> SUFFICES ASSUME code \in Codes, measured \in Codes, [HistoryNext]_historyVars
               PROVE  (code \in Codes /\ measured \in Codes)'
    OBVIOUS
  <2>1. CASE Edit
    BY <2>1 DEF Edit, Codes
  <2>2. CASE AcceptBaseline \/ Analyse \/ UNCHANGED historyVars
    BY <2>2 DEF AcceptBaseline, Analyse, historyVars
  <2> QED
    BY <2>1, <2>2 DEF HistoryNext
<1> QED
  BY <1>1, <1>2, PTL DEF HistorySpec

\* A row of a comparison is of one of four kinds.
LEMMA RowKinds ==
  ASSUME NEW Old, NEW New, NEW s, NEW r \in Compare(Old, New, s)
  PROVE  LET moved == StrongMatches(Unmatched(Old, New), Unmatched(New, Old)) IN
         \/ /\ r.lifecycle = "EXISTING"
            /\ \E f \in New \ Unmatched(New, Old) : r = RowOf(New, f, "EXISTING", IdOf(f), {})
         \/ r.lifecycle = "MOVED" /\ \E m \in moved : r = RowOf(New, m[2], "MOVED", IdOf(m[1]), {})
         \/ /\ r.lifecycle \in {"NOT_OBSERVED", "INDETERMINATE"}
            /\ \E f \in Unmatched(Old, New) \ {m[1] : m \in moved} :
                 /\ r.finding = f /\ r.from = IdOf(f)
                 /\ r.lifecycle = "NOT_OBSERVED" => Failed(f, s) = {}
                 /\ r = RowOf(New, f, IF Failed(f, s) = {} THEN "NOT_OBSERVED" ELSE "INDETERMINATE",
                              IdOf(f), Failed(f, s))
         \/ /\ r.lifecycle = "NEW"
            /\ \E f \in Unmatched(New, Old) \ {m[2] : m \in moved} : r = RowOf(New, f, "NEW", Unset, {})
  BY DEF Compare, RowOf

\* A finding is called unobserved only where none of its scanners would still find it: they
\* all completed, and found nothing there (monitoring.py:395-402).
THEOREM AbsenceMeasured == HistorySpec => []AbsenceIsMeasured
<1>1. HistoryInit => AbsenceIsMeasured
  BY DEF HistoryInit, AbsenceIsMeasured
<1>2. ASSUME Analyse PROVE AbsenceIsMeasured'
  <2>1. PICK listed \in SUBSET Scanner : \E s \in [listed -> {"COMPLETED", "FAILED"}] :
          \E observing \in SUBSET listed :
            /\ \A f \in listed : s[f] = "COMPLETED" => f \in observing
            /\ comparison' = Compare(baseline, Evidence(code, observing), s)
    BY <1>2 DEF Analyse
  <2>2. PICK s \in [listed -> {"COMPLETED", "FAILED"}], observing \in SUBSET listed :
          /\ \A f \in listed : s[f] = "COMPLETED" => f \in observing
          /\ comparison' = Compare(baseline, Evidence(code, observing), s)
    BY <2>1
  <2> SUFFICES ASSUME NEW r \in Compare(baseline, Evidence(code, observing), s), r.lifecycle = "NOT_OBSERVED",
                      NEW x \in Finders(code, r.from, r.finding.families)
               PROVE  FALSE
    BY <1>2, <2>2 DEF Analyse, AbsenceIsMeasured
  <2>3. PICK f : f \in Unmatched(baseline, Evidence(code, observing)) /\ r.finding = f /\ r.from = IdOf(f) /\ Failed(f, s) = {}
    BY RowKinds
  <2>4. x \in observing
    BY <2>2, <2>3 DEF Finders, Failed
  <2>5. PICK p \in Problem : code[p] # Gone /\ Place(code, p) = IdOf(f) /\ x \in ScannersOf[p]
    BY <2>3 DEF Finders
  <2>6. IdOf(f) \in Ids(Evidence(code, observing))
    BY <2>4, <2>5, EvidenceHolds
  <2> QED
    BY <2>3, <2>6 DEF Unmatched
<1>3. AbsenceIsMeasured /\ [HistoryNext]_historyVars => AbsenceIsMeasured'
  BY <1>2 DEF HistoryNext, Edit, AcceptBaseline, historyVars, AbsenceIsMeasured
<1> QED
  BY <1>1, <1>3, PTL DEF HistorySpec

-----------------------------------------------------------------------------
(* Every finding has one row.                                               *)
\* A finding has at most one match, as an origin and as a target.
LEMMA MatchedOnce ==
  ASSUME NEW Old, NEW New, NEW m \in StrongMatches(Old, New), NEW n \in StrongMatches(Old, New),
         m[1] = n[1] \/ m[2] = n[2]
  PROVE  m = n
  BY DEF StrongMatches

LEMMA MatchesAre ==
  ASSUME NEW Old, NEW New, NEW m \in StrongMatches(Old, New) PROVE m[1] \in Old /\ m[2] \in New
  BY DEF StrongMatches, Candidates

\* The rows of a finding of the baseline, and of one of the run.
OfOrigin(R, f) == {x \in R : x.from = IdOf(f)}
OfTarget(R, f) == {x \in R : x.lifecycle \in {"EXISTING", "MOVED", "NEW"} /\ IdOf(x.finding) = IdOf(f)}

LEMMA OriginOnce ==
  ASSUME NEW Old, NEW New, NEW s, Distinct(Old), Distinct(New), NEW f \in Old
  PROVE  Cardinality(OfOrigin(Compare(Old, New, s), f)) = 1
<1> DEFINE moved == StrongMatches(Unmatched(Old, New), Unmatched(New, Old))
           Gone3 == Unmatched(Old, New) \ {m[1] : m \in moved}
           Late(g) == RowOf(New, g, IF Failed(g, s) = {} THEN "NOT_OBSERVED" ELSE "INDETERMINATE", IdOf(g), Failed(g, s))
           R == Compare(Old, New, s)
<1>1. \A g \in New \ Unmatched(New, Old) : RowOf(New, g, "EXISTING", IdOf(g), {}) \in R
  BY DEF Compare
<1>2. \A m \in moved : RowOf(New, m[2], "MOVED", IdOf(m[1]), {}) \in R
  BY DEF Compare
<1>3. \A g \in Gone3 : Late(g) \in R
  BY DEF Compare
<1>4. \A r \in R :
        \/ \E g \in New \ Unmatched(New, Old) : r = RowOf(New, g, "EXISTING", IdOf(g), {}) /\ r.from = IdOf(g)
        \/ \E m \in moved : r = RowOf(New, m[2], "MOVED", IdOf(m[1]), {}) /\ r.from = IdOf(m[1])
        \/ \E g \in Gone3 : r = Late(g) /\ r.from = IdOf(g)
        \/ r.from = Unset
  BY DEF Compare, RowOf
<1>5. IdOf(f) # Unset /\ \A g \in Old : IdOf(g) = IdOf(f) => g = f
  BY UnsetAssumption DEF Distinct
<1>6. \A m \in moved : m[1] \in Unmatched(Old, New)
  BY MatchesAre
<1>7. CASE IdOf(f) \in Ids(New)
  <2>1. PICK g \in New : IdOf(g) = IdOf(f)
    BY <1>7 DEF Ids
  <2>2. g \in New \ Unmatched(New, Old)
    BY <2>1 DEF Unmatched, Ids
  <2>3. \A h \in New : IdOf(h) = IdOf(f) => h = g
    BY <2>1 DEF Distinct
  <2>4. \A h \in Unmatched(Old, New) : IdOf(h) # IdOf(f)
    BY <1>7 DEF Unmatched
  <2>5. RowOf(New, g, "EXISTING", IdOf(g), {}).from = IdOf(f)
    BY <2>1 DEF RowOf
  <2>6. OfOrigin(R, f) = {RowOf(New, g, "EXISTING", IdOf(g), {})}
    BY <1>1, <1>4, <1>5, <1>6, <2>2, <2>3, <2>4, <2>5 DEF OfOrigin
  <2> QED
    BY <2>6, FS_Singleton
<1>8. CASE IdOf(f) \notin Ids(New) /\ \E m \in moved : m[1] = f
  <2>1. PICK m \in moved : m[1] = f
    BY <1>8
  <2>2. \A n \in moved : IdOf(n[1]) = IdOf(f) => n = m
    BY <1>5, <1>6, <2>1, MatchedOnce DEF Unmatched
  <2>3. \A g \in New : IdOf(g) # IdOf(f)
    BY <1>8 DEF Ids
  <2>4. \A g \in Gone3 : IdOf(g) # IdOf(f)
    BY <1>5, <2>1 DEF Unmatched
  <2>5. RowOf(New, m[2], "MOVED", IdOf(m[1]), {}).from = IdOf(f)
    BY <2>1 DEF RowOf
  <2>6. OfOrigin(R, f) = {RowOf(New, m[2], "MOVED", IdOf(m[1]), {})}
    BY <1>2, <1>4, <1>5, <2>1, <2>2, <2>3, <2>4, <2>5 DEF OfOrigin
  <2> QED
    BY <2>6, FS_Singleton
<1>9. CASE IdOf(f) \notin Ids(New) /\ ~\E m \in moved : m[1] = f
  <2>1. f \in Gone3
    BY <1>9 DEF Unmatched
  <2>2. \A g \in New : IdOf(g) # IdOf(f)
    BY <1>9 DEF Ids
  <2>3. \A m \in moved : IdOf(m[1]) # IdOf(f)
    BY <1>5, <1>6, <1>9 DEF Unmatched
  <2>4. \A g \in Gone3 : IdOf(g) = IdOf(f) => g = f
    BY <1>5 DEF Unmatched
  <2>5. Late(f).from = IdOf(f)
    BY DEF RowOf
  <2>6. OfOrigin(R, f) = {Late(f)}
    BY <1>3, <1>4, <1>5, <2>1, <2>2, <2>3, <2>4, <2>5 DEF OfOrigin
  <2> QED
    BY <2>6, FS_Singleton
<1> QED
  BY <1>7, <1>8, <1>9

LEMMA TargetOnce ==
  ASSUME NEW Old, NEW New, NEW s, Distinct(Old), Distinct(New), NEW f \in New
  PROVE  Cardinality(OfTarget(Compare(Old, New, s), f)) = 1
<1> DEFINE moved == StrongMatches(Unmatched(Old, New), Unmatched(New, Old))
           New3 == Unmatched(New, Old) \ {m[2] : m \in moved}
           R == Compare(Old, New, s)
<1>1. /\ \A g \in New \ Unmatched(New, Old) : RowOf(New, g, "EXISTING", IdOf(g), {}) \in R
      /\ \A m \in moved : RowOf(New, m[2], "MOVED", IdOf(m[1]), {}) \in R
      /\ \A g \in New3 : RowOf(New, g, "NEW", Unset, {}) \in R
  BY DEF Compare
<1>2. \A r \in R :
        \/ \E g \in New \ Unmatched(New, Old) : r = RowOf(New, g, "EXISTING", IdOf(g), {}) /\ r.finding = g
        \/ \E m \in moved : r = RowOf(New, m[2], "MOVED", IdOf(m[1]), {}) /\ r.finding = m[2]
        \/ r.lifecycle \in {"NOT_OBSERVED", "INDETERMINATE"}
        \/ \E g \in New3 : r = RowOf(New, g, "NEW", Unset, {}) /\ r.finding = g
  BY DEF Compare, RowOf
<1>3. \A g \in New : IdOf(g) = IdOf(f) => g = f
  BY DEF Distinct
<1>4. \A m \in moved : m[2] \in Unmatched(New, Old)
  BY MatchesAre
<1>5. Unmatched(New, Old) \subseteq New
  BY DEF Unmatched
<1>6. \A life, from : LET r == RowOf(New, f, life, from, {}) IN r.lifecycle = life /\ r.finding = f
  BY DEF RowOf
<1>7. CASE f \notin Unmatched(New, Old)
  <2>1. OfTarget(R, f) = {RowOf(New, f, "EXISTING", IdOf(f), {})}
    BY <1>1, <1>2, <1>3, <1>4, <1>5, <1>6, <1>7 DEF OfTarget
  <2> QED
    BY <2>1, FS_Singleton
<1>8. CASE f \in Unmatched(New, Old) /\ \E m \in moved : m[2] = f
  <2>1. PICK m \in moved : m[2] = f
    BY <1>8
  <2>2. \A n \in moved : IdOf(n[2]) = IdOf(f) => n = m
    BY <1>3, <1>4, <1>5, <2>1, MatchedOnce
  <2>3. \A g \in New3 \cup (New \ Unmatched(New, Old)) : IdOf(g) # IdOf(f)
    BY <1>3, <1>5, <1>8, <2>1
  <2>4. OfTarget(R, f) = {RowOf(New, m[2], "MOVED", IdOf(m[1]), {})}
    BY <1>1, <1>2, <1>6, <2>1, <2>2, <2>3 DEF OfTarget
  <2> QED
    BY <2>4, FS_Singleton
<1>9. CASE f \in Unmatched(New, Old) /\ ~\E m \in moved : m[2] = f
  <2>1. \A m \in moved : IdOf(m[2]) # IdOf(f)
    BY <1>3, <1>4, <1>5, <1>9
  <2>2. \A g \in New : IdOf(g) = IdOf(f) => g = f
    BY <1>3
  <2>3. OfTarget(R, f) = {RowOf(New, f, "NEW", Unset, {})}
    BY <1>1, <1>2, <1>5, <1>6, <1>9, <2>1, <2>2 DEF OfTarget
  <2> QED
    BY <2>3, FS_Singleton
<1> QED
  BY <1>7, <1>8, <1>9

DocumentsDistinct ==
  /\ baseline # Unset => Distinct(baseline)
  /\ comparison # Unset => baseline # Unset

\* Every finding of the baseline and of the run has exactly one row, whatever matches
\* compete (monitoring.py:355-372, 422).
THEOREM FindingsOnce == HistorySpec => []EachOnce
<1>1. HistoryInit => EachOnce /\ DocumentsDistinct
  BY DEF HistoryInit, EachOnce, DocumentsDistinct
<1>2. ASSUME EachOnce, DocumentsDistinct, code \in Codes, Analyse PROVE EachOnce' /\ DocumentsDistinct'
  <2>1. PICK s, observing :
          /\ latest' = Evidence(code, observing)
          /\ comparison' = Compare(baseline, Evidence(code, observing), s)
    BY <1>2 DEF Analyse
  <2>2. baseline # Unset /\ baseline' = baseline /\ Distinct(baseline) /\ Distinct(Evidence(code, observing))
    BY <1>2, EvidenceDistinct DEF Analyse, DocumentsDistinct
  <2>3. /\ \A f \in baseline : Cardinality(OfOrigin(comparison', f)) = 1
        /\ \A f \in latest' : Cardinality(OfTarget(comparison', f)) = 1
    BY <2>1, <2>2, OriginOnce, TargetOnce
  <2> QED
    BY <2>2, <2>3 DEF EachOnce, DocumentsDistinct, OfOrigin, OfTarget
<1>3. ASSUME EachOnce, DocumentsDistinct, code \in Codes, AcceptBaseline PROVE EachOnce' /\ DocumentsDistinct'
  BY <1>3, EvidenceDistinct DEF AcceptBaseline, EachOnce, DocumentsDistinct
<1>4. EachOnce /\ DocumentsDistinct /\ (code \in Codes /\ measured \in Codes) /\ [HistoryNext]_historyVars
      => (EachOnce /\ DocumentsDistinct)'
  <2>1. Edit \/ UNCHANGED historyVars => UNCHANGED <<comparison, baseline, latest>>
    BY DEF Edit, historyVars
  <2> QED
    BY <1>2, <1>3, <2>1 DEF HistoryNext, EachOnce, DocumentsDistinct
<1> QED
  BY <1>1, <1>4, CodeTyped, PTL DEF HistorySpec

-----------------------------------------------------------------------------
(* A finding that moves is followed.                                        *)

\* What a document holds it holds of a problem.
LEMMA EvidenceOf ==
  ASSUME NEW c \in Codes, NEW observing, NEW f \in Evidence(c, observing)
  PROVE  \E q \in Problem : c[q] # Gone /\ IdOf(f) = Place(c, q) /\ f.site = SiteOf[q] /\ f.line = c[q] /\ f.text = TextOf[q]
<1>1. PICK q \in Problem :
        /\ c[q] # Gone
        /\ f = [site |-> Place(c, q).site, line |-> Place(c, q).line, text |-> Place(c, q).text,
                families |-> Finders(c, Place(c, q), observing)]
  BY DEF Evidence
<1> QED
  BY <1>1 DEF IdOf, Place

LEMMA ShiftFound ==
  ASSUME NEW c0 \in Codes, NEW c1 \in Codes, NEW o0, NEW o1, NEW s, NEW p \in Problem,
         c0[p] # Gone, c1[p] # Gone, Likeness[<<TextOf[p], TextOf[p]>>] >= Strong,
         \A q \in Problem \ {p} :
           SiteOf[q] = SiteOf[p] /\ (c0[q] # Gone \/ c1[q] # Gone) =>
             /\ TextOf[p] # TextOf[q]
             /\ Likeness[<<TextOf[p], TextOf[q]>>] < Strong /\ Likeness[<<TextOf[q], TextOf[p]>>] < Strong,
         Distance(Place(c0, p), Place(c1, p)) <= Near,
         Place(c0, p) \in Ids(Evidence(c0, o0)), Place(c1, p) \in Ids(Evidence(c1, o1))
  PROVE  \E r \in Compare(Evidence(c0, o0), Evidence(c1, o1), s) :
           /\ r.from = Place(c0, p) /\ IdOf(r.finding) = Place(c1, p)
           /\ r.lifecycle = IF Place(c0, p) = Place(c1, p) THEN "EXISTING" ELSE "MOVED"
<1> DEFINE was == Place(c0, p)
           is == Place(c1, p)
<1>1. PICK Old : Old = Evidence(c0, o0)
  OBVIOUS
<1>2. PICK New : New = Evidence(c1, o1)
  OBVIOUS
<1>3. PICK f \in Old : IdOf(f) = was
  BY <1>1 DEF Ids
<1>4. PICK g \in New : IdOf(g) = is
  BY <1>2 DEF Ids
<1>5. Distinct(Old) /\ Distinct(New)
  BY <1>1, <1>2, EvidenceDistinct
<1>6. /\ f.site = SiteOf[p] /\ f.line = c0[p] /\ f.text = TextOf[p]
      /\ g.site = SiteOf[p] /\ g.line = c1[p] /\ g.text = TextOf[p]
      /\ c0[p] \in Nat /\ c1[p] \in Nat
  <2>1. c0[p] \in 1..MaxLine /\ c1[p] \in 1..MaxLine
    BY DEF Codes
  <2> QED
    BY <1>3, <1>4, <2>1, HistoryAssumption DEF IdOf, Place
\* Who else is of the site is of another statement, and not like this one.
<1>7. ASSUME NEW x \in Old, x.site = SiteOf[p], x # f
      PROVE  x.text # TextOf[p] /\ x.text \in Text /\ Likeness[<<x.text, TextOf[p]>>] < Strong
  <2>1. PICK q \in Problem : c0[q] # Gone /\ IdOf(x) = Place(c0, q) /\ x.site = SiteOf[q] /\ x.text = TextOf[q]
    BY <1>1, EvidenceOf
  <2>2. q # p
    BY <1>3, <1>5, <1>7, <2>1 DEF Distinct
  <2> QED
    BY <1>7, <2>1, <2>2, HistoryAssumption
<1>8. ASSUME NEW x \in New, x.site = SiteOf[p], x # g
      PROVE  x.text # TextOf[p] /\ x.text \in Text /\ Likeness[<<TextOf[p], x.text>>] < Strong
  <2>1. PICK q \in Problem : c1[q] # Gone /\ IdOf(x) = Place(c1, q) /\ x.site = SiteOf[q] /\ x.text = TextOf[q]
    BY <1>2, EvidenceOf
  <2>2. q # p
    BY <1>4, <1>5, <1>8, <2>1 DEF Distinct
  <2> QED
    BY <1>8, <2>1, <2>2, HistoryAssumption
<1>9. CASE was = is
  <2>1. g \in New \ Unmatched(New, Old)
    BY <1>3, <1>4, <1>9 DEF Unmatched, Ids
  <2>2. RowOf(New, g, "EXISTING", IdOf(g), {}) \in Compare(Old, New, s)
    BY <2>1 DEF Compare
  <2> QED
    BY <1>1, <1>2, <1>4, <1>9, <2>2 DEF RowOf
<1>10. CASE was # is
  <2> DEFINE U == Unmatched(Old, New)
             V == Unmatched(New, Old)
             C == Candidates(U, V)
             m == <<f, g>>
  <2>1. c0[p] # c1[p]
    BY <1>10 DEF Place
  <2>2. f \in U
    <3>1. ASSUME NEW x \in New, IdOf(x) = IdOf(f) PROVE FALSE
      <4>1. x.site = SiteOf[p] /\ x.text = TextOf[p] /\ x # g
        BY <1>3, <1>4, <1>6, <1>10, <3>1 DEF IdOf, Place
      <4> QED
        BY <1>8, <4>1
    <3> QED
      BY <3>1 DEF Unmatched, Ids
  <2>3. g \in V
    <3>1. ASSUME NEW x \in Old, IdOf(x) = IdOf(g) PROVE FALSE
      <4>1. x.site = SiteOf[p] /\ x.text = TextOf[p] /\ x # f
        BY <1>3, <1>4, <1>6, <1>10, <3>1 DEF IdOf, Place
      <4> QED
        BY <1>7, <4>1
    <3> QED
      BY <3>1 DEF Unmatched, Ids
  <2>4. m \in C
    <3>1. Score(f, g) = Likeness[<<TextOf[p], TextOf[p]>>]
      BY <1>6, <2>1 DEF Score
    <3>2. Distance(f, g) = Distance(was, is)
      BY <1>6 DEF Distance, Place
    <3> QED
      BY <1>6, <2>2, <2>3, <3>1, <3>2 DEF Candidates
  <2>5. ASSUME NEW n \in OfOld(C, f) PROVE n = m
    <3>1. n \in U \X V /\ n[1] = f /\ n[1].site = n[2].site /\ Score(n[1], n[2]) >= Strong
      BY <2>5 DEF OfOld, Candidates
    <3>2. n = <<f, n[2]>> /\ n[2] \in New /\ n[2].site = SiteOf[p] /\ Score(f, n[2]) >= Strong
      BY <1>6, <3>1 DEF Unmatched
    <3>3. CASE n[2] # g
      <4>1. n[2].text # TextOf[p] /\ n[2].text \in Text /\ Likeness[<<TextOf[p], n[2].text>>] < Strong
        BY <1>8, <3>2, <3>3
      <4>2. Score(f, n[2]) = Likeness[<<TextOf[p], n[2].text>>]
        BY <1>6, <4>1 DEF Score
      <4>3. Likeness[<<TextOf[p], n[2].text>>] \in Nat /\ Strong \in Nat
        BY <4>1, HistoryAssumption
      <4> QED
        BY <3>2, <4>1, <4>2, <4>3
    <3> QED
      BY <3>2, <3>3
  <2>6. ASSUME NEW n \in OfNew(C, g) PROVE n = m
    <3>1. n \in U \X V /\ n[2] = g /\ n[1].site = n[2].site /\ Score(n[1], n[2]) >= Strong
      BY <2>6 DEF OfNew, Candidates
    <3>2. n = <<n[1], g>> /\ n[1] \in Old /\ n[1].site = SiteOf[p] /\ Score(n[1], g) >= Strong
      BY <1>6, <3>1 DEF Unmatched
    <3>3. CASE n[1] # f
      <4>1. n[1].text # TextOf[p] /\ n[1].text \in Text /\ Likeness[<<n[1].text, TextOf[p]>>] < Strong
        BY <1>7, <3>2, <3>3
      <4>2. Score(n[1], g) = Likeness[<<n[1].text, TextOf[p]>>]
        BY <1>6, <4>1 DEF Score
      <4>3. Likeness[<<n[1].text, TextOf[p]>>] \in Nat /\ Strong \in Nat
        BY <4>1, HistoryAssumption
      <4> QED
        BY <3>2, <4>1, <4>2, <4>3
    <3> QED
      BY <3>2, <3>3
  <2>7. OfOld(C, f) = {m} /\ OfNew(C, g) = {m}
    BY <2>4, <2>5, <2>6 DEF OfOld, OfNew
  <2>8. Best({m}) = m
    <3>1. Distance(f, g) <= Distance(f, g)
      BY <1>6 DEF Distance
    <3>2. Before(m, m)
      BY <3>1 DEF Before
    <3> QED
      BY <3>2 DEF Best
  <2>9. m \in StrongMatches(U, V)
    <3>1. m[1] = f /\ m[2] = g
      OBVIOUS
    <3> QED
      BY <2>4, <2>7, <2>8, <3>1 DEF StrongMatches
  <2>10. RowOf(New, g, "MOVED", IdOf(f), {}) \in Compare(Old, New, s)
    <3>1. RowOf(New, m[2], "MOVED", IdOf(m[1]), {}) \in Compare(Old, New, s)
      BY <2>9 DEF Compare
    <3> QED
      BY <3>1
  <2> QED
    BY <1>1, <1>2, <1>3, <1>4, <1>10, <2>10 DEF RowOf
<1> QED
  BY <1>9, <1>10

\* A baseline is what was found of the code it was made from.
BaselineIs ==
  /\ accepted \in Codes /\ (baseline # Unset => \E observing : baseline = Evidence(accepted, observing))
  /\ comparison # Unset => baseline # Unset

\* A problem that only changed lines keeps its identity, whatever else is edited and whichever
\* findings compete for it (monitoring.py:49, 343-372).
THEOREM ShiftsAreFollowed == HistorySpec => []ShiftIsFollowed
<1>1. HistoryInit => ShiftIsFollowed /\ BaselineIs
  BY DEF HistoryInit, ShiftIsFollowed, BaselineIs, Codes
<1>2. ASSUME BaselineIs, code \in Codes, Analyse PROVE ShiftIsFollowed' /\ BaselineIs'
  <2>1. PICK s, observing :
          /\ latest' = Evidence(code, observing)
          /\ comparison' = Compare(baseline, Evidence(code, observing), s)
    BY <1>2 DEF Analyse
  <2>2. /\ baseline # Unset /\ baseline' = baseline /\ accepted' = accepted /\ measured' = code /\ accepted \in Codes
    BY <1>2 DEF Analyse, BaselineIs
  <2>3. PICK before : baseline = Evidence(accepted, before)
    BY <1>2, <2>2 DEF BaselineIs
  <2>4. PICK c0, c1, old, new, rows2 : c0 = accepted /\ c1 = code /\ old = baseline /\ new = Evidence(code, observing)
                                       /\ rows2 = Compare(baseline, Evidence(code, observing), s)
    OBVIOUS
  <2>5. c0 \in Codes /\ c1 \in Codes /\ old = Evidence(c0, before) /\ new = Evidence(c1, observing)
    BY <1>2, <2>2, <2>3, <2>4
  <2>6. ASSUME NEW p \in Problem,
               c0[p] # Gone, c1[p] # Gone, Likeness[<<TextOf[p], TextOf[p]>>] >= Strong,
               \A q \in Problem \ {p} :
                 SiteOf[q] = SiteOf[p] /\ (c0[q] # Gone \/ c1[q] # Gone) =>
                   /\ TextOf[p] # TextOf[q]
                   /\ Likeness[<<TextOf[p], TextOf[q]>>] < Strong /\ Likeness[<<TextOf[q], TextOf[p]>>] < Strong,
               Distance(Place(c0, p), Place(c1, p)) <= Near, Place(c0, p) \in Ids(old), Place(c1, p) \in Ids(new)
        PROVE  \E r \in Compare(old, new, s) :
                 /\ r.from = Place(c0, p) /\ IdOf(r.finding) = Place(c1, p)
                 /\ r.lifecycle = IF Place(c0, p) = Place(c1, p) THEN "EXISTING" ELSE "MOVED"
    BY <2>5, <2>6, ShiftFound
  <2>7. accepted' = c0 /\ measured' = c1 /\ baseline' = old /\ latest' = new /\ comparison' = Compare(old, new, s)
    BY <2>1, <2>2, <2>4
  <2>8. ShiftIsFollowed'
    BY <2>6, <2>7 DEF ShiftIsFollowed, Alone
  <2> QED
    BY <1>2, <2>2, <2>3, <2>8 DEF BaselineIs
<1>3. ASSUME BaselineIs, code \in Codes, AcceptBaseline PROVE ShiftIsFollowed' /\ BaselineIs'
  <2>1. comparison' = Unset
    BY <1>3 DEF AcceptBaseline, BaselineIs
  <2>2. \E observing : baseline' = Evidence(accepted', observing)
    <3>1. PICK observing : baseline' = Evidence(code, observing)
      BY <1>3 DEF AcceptBaseline
    <3>2. PICK c : c = code
      OBVIOUS
    <3>3. baseline' = Evidence(c, observing) /\ accepted' = c
      BY <1>3, <3>1, <3>2 DEF AcceptBaseline
    <3> QED
      BY <3>3
  <2> QED
    BY <1>3, <2>1, <2>2 DEF AcceptBaseline, ShiftIsFollowed, BaselineIs
<1>4. ShiftIsFollowed /\ BaselineIs /\ (code \in Codes /\ measured \in Codes) /\ [HistoryNext]_historyVars
      => (ShiftIsFollowed /\ BaselineIs)'
  <2>1. ASSUME ShiftIsFollowed, BaselineIs, Edit \/ UNCHANGED historyVars PROVE ShiftIsFollowed' /\ BaselineIs'
    <3>1. UNCHANGED <<comparison, baseline, latest, accepted, measured>>
      BY <2>1 DEF Edit, historyVars
    <3> QED
      BY <2>1, <3>1 DEF ShiftIsFollowed, BaselineIs, Alone
  <2> QED
    BY <1>2, <1>3, <2>1 DEF HistoryNext
<1> QED
  BY <1>1, <1>4, CodeTyped, PTL DEF HistorySpec

-----------------------------------------------------------------------------
(* The bundle that is built is accepted.                                    *)
LEMMA OccurrencesFinite == ASSUME raw \in Raw PROVE IsFiniteSet(Occurrences)
<1> DEFINE S == {r \in Result : raw[r] > 0}
<1>1. IsFiniteSet(S) /\ IsFiniteSet(1..Repeats)
  <2>1. IsFiniteSet(S)
    BY BundleAssumption
  <2>2. Repeats \in Nat
    BY BundleAssumption
  <2> QED
    BY <2>1, <2>2, FS_Interval
<1>2. IsFiniteSet(S \X (1..Repeats))
  BY <1>1, FS_Product
<1>3. Occurrences \subseteq S \X (1..Repeats)
  BY BundleAssumption DEF Occurrences
<1> QED
  BY <1>2, <1>3, FS_Subset

\* What stands in a list is its own identity.
LEMMA IdentifiedIs ==
  ASSUME NEW S
  PROVE  DOMAIN Identified(S) = S /\ Range(Identified(S)) = S /\ IsInjective(Identified(S)) /\ \A o \in S : Identified(S)[o] = o
<1>1. Identified(S) = [o \in S |-> o]
  BY DEF Identified, ObservationId
<1> QED
  BY <1>1 DEF Range, IsInjective

\* Every occurrence stands in exactly one channel.
LEMMA EntriesOfChannels ==
  ASSUME raw \in Raw
  PROVE  /\ Entries(Channels) = {<<ChannelOf[o[1].family], o>> : o \in Occurrences}
         /\ Cited(Channels) = Occurrences
<1> DEFINE At(c) == {o \in Occurrences : ChannelOf[o[1].family] = c}
<1>1. DOMAIN Channels = Channel /\ \A c \in Channel : DOMAIN Channels[c] = At(c) /\ \A o \in At(c) : Channels[c][o] = o
  <2>1. \A c \in Channel : Channels[c] = Identified(At(c))
    BY DEF Channels
  <2> QED
    BY <2>1, IdentifiedIs DEF Channels
<1>2. \A o \in Occurrences : ChannelOf[o[1].family] \in Channel
  BY BundleAssumption DEF Occurrences, Result
<1>3. ASSUME NEW e PROVE e \in Entries(Channels) <=> \E o \in Occurrences : e = <<ChannelOf[o[1].family], o>>
  <2>1. e \in Entries(Channels) <=> \E c \in Channel : e \in {c} \X At(c)
    BY <1>1 DEF Entries
  <2> QED
    BY <1>2, <2>1
<1>4. Entries(Channels) = {<<ChannelOf[o[1].family], o>> : o \in Occurrences}
  BY <1>3
<1>5. ASSUME NEW o \in Occurrences PROVE Channels[ChannelOf[o[1].family]][o] = o
  BY <1>1, <1>2
<1>6. Cited(Channels) = Occurrences
  <2>1. \A e \in Entries(Channels) : e[2] \in Occurrences /\ e = <<ChannelOf[e[2][1].family], e[2]>>
    BY <1>4
  <2>2. \A e \in Entries(Channels) : Channels[e[1]][e[2]] = e[2]
    BY <1>5, <2>1
  <2>3. ASSUME NEW o \in Occurrences PROVE \E e \in Entries(Channels) : Channels[e[1]][e[2]] = o
    <3>1. <<ChannelOf[o[1].family], o>> \in Entries(Channels)
      BY <1>4
    <3> QED
      BY <1>5, <3>1
  <2> QED
    BY <2>1, <2>2, <2>3 DEF Cited
<1> QED
  BY <1>4, <1>6

LEMMA EntriesCounted ==
  ASSUME raw \in Raw
  PROVE  Cardinality(Entries(Channels)) = Cardinality(Occurrences) /\ Cardinality(Occurrences) \in Nat /\ IsFiniteSet(Entries(Channels))
<1> DEFINE f == [o \in Occurrences |-> <<ChannelOf[o[1].family], o>>]
<1>1. f \in Bijection(Occurrences, Entries(Channels))
  <2>1. f \in [Occurrences -> Entries(Channels)]
    BY EntriesOfChannels
  <2>2. \A a, b \in Occurrences : f[a] = f[b] => a = b
    OBVIOUS
  <2>3. \A e \in Entries(Channels) : \E o \in Occurrences : f[o] = e
    BY EntriesOfChannels
  <2> QED
    BY <2>1, <2>2, <2>3, Fun_IsBij
<1>2. ExistsBijection(Occurrences, Entries(Channels))
  BY <1>1 DEF ExistsBijection
<1> QED
  BY <1>2, OccurrencesFinite, FS_Bijection, FS_CardinalityType

LEMMA SnapshotIsValid == ASSUME raw \in Raw PROVE SnapshotValid
<1>1. Range(Identified(Occurrences)) = Occurrences /\ IsInjective(Identified(Occurrences))
  BY IdentifiedIs
<1> QED
  BY <1>1, EntriesOfChannels, EntriesCounted DEF SnapshotValid

\* The findings of a lane share the occurrences out.
LEMMA CanonicalHolds ==
  ASSUME raw \in Raw
  PROVE  /\ DOMAIN Canonical = Groups
         /\ \A g \in Groups : DOMAIN Canonical[g] = Range(Canonical[g]) /\ Range(Canonical[g]) = {o \in Occurrences : GroupOf(o[1]) = g}
         /\ \A o \in Occurrences : GroupOf(o[1]) \in Groups
<1>1. \A g \in Groups : Canonical[g] = Identified({o \in Occurrences : GroupOf(o[1]) = g})
  BY DEF Canonical
<1>2. \A o \in Occurrences : o[1] \in Result /\ raw[o[1]] > 0
  BY BundleAssumption DEF Occurrences
<1> QED
  BY <1>1, <1>2, IdentifiedIs DEF Canonical, Groups

LEMMA BuiltIsValid == ASSUME raw \in Raw PROVE Valid(Built)
<1>1. /\ DOMAIN Built.index = Groups /\ DOMAIN Built.details = Groups
      /\ \A g \in Groups : Built.index[g] = g /\ Built.details[g].id = g /\ Built.details[g].origins = Canonical[g]
      /\ Built.channels = Channels /\ Built.observations = Cardinality(Occurrences)
  BY DEF Built
<1>2. IsInjective(Built.index) /\ Range(Built.index) = Groups
  BY <1>1 DEF IsInjective, Range
<1>3. {Built.details[e].id : e \in DOMAIN Built.details} = Groups
  BY <1>1
<1>4. UNION {Range(Built.details[e].origins) : e \in DOMAIN Built.details} = Occurrences
  <2>1. \A g \in Groups : Range(Built.details[g].origins) = {o \in Occurrences : GroupOf(o[1]) = g}
    BY <1>1, CanonicalHolds
  <2>2. \A o \in Occurrences : GroupOf(o[1]) \in Groups
    BY CanonicalHolds
  <2> QED
    BY <1>1, <2>1, <2>2
<1> QED
  BY <1>1, <1>2, <1>3, <1>4, EntriesOfChannels, EntriesCounted DEF Valid

-----------------------------------------------------------------------------
(* The steps of a bundle, and what each leaves alone.                       *)
LEMMA ContinueSteps ==
  ASSUME NEW rest, NEW codes, NEW truncated, NEW collected, Continue(rest, codes, truncated, collected)
  PROVE  stage' \in {"collected", "check"}
BY DEF Continue
LEMMA EndsContinues ==
  ASSUME NEW kept, NEW codes, NEW truncated, Ends(kept, codes, truncated)
  PROVE  \E rest, all, coded, short : Continue(rest, coded, short, all)
BY DEF Ends
LEMMA PageReadSteps ==
  ASSUME NEW spent \in BOOLEAN, PageRead(spent), stage \in {"jobs", "notes"}
  PROVE  stage' \in {"jobs", "notes", "check", "collected"}
BY EndsContinues, ContinueSteps DEF PageRead
LEMMA PageFailsSteps ==
  ASSUME NEW kind, PageFails(kind)
  PROVE  stage' \in {"check", "collected"}
BY EndsContinues, ContinueSteps DEF PageFails, Fails

\* A bundle that was built is that of the results reported.
BuiltInv == raw \in Raw /\ (stage = "built" => report = Built) /\ BuiltIsAccepted

LEMMA BuiltStep == BuiltInv /\ [BundleNext]_bundleVars => BuiltInv'
<1> SUFFICES ASSUME BuiltInv, [BundleNext]_bundleVars PROVE BuiltInv'
  OBVIOUS
<1> USE DEF BuiltInv, BuiltIsAccepted
<1>1. CASE Build
  <2>1. stage' = "built" /\ report' = Built /\ raw' = raw /\ ended' = ended
    BY <1>1, SnapshotIsValid DEF Build
  <2>2. Occurrences' = Occurrences
    BY <2>1 DEF Occurrences
  <2>3. Groups' = Groups /\ Canonical' = Canonical /\ Channels' = Channels
    BY <2>1, <2>2 DEF Groups, Canonical, Channels
  <2>4. Built' = Built
    BY <2>1, <2>2, <2>3 DEF Built
  <2> QED
    BY <2>1, <2>4
<1>2. CASE Accept
  BY <1>2, BuiltIsValid DEF Accept
<1>3. CASE ReadPage
  <2>1. stage' \in {"jobs", "notes", "check", "collected"}
    BY <1>3, PageReadSteps, PageFailsSteps DEF ReadPage
  <2> QED
    BY <1>3, <2>1 DEF ReadPage
<1>4. CASE ReadCheck
  <2>1. stage' \in {"notes", "check", "collected"}
    BY <1>4, ContinueSteps DEF ReadCheck, Fails
  <2> QED
    BY <1>4, <2>1 DEF ReadCheck
<1>5. CASE Apply
  BY <1>5 DEF Apply
<1>6. CASE UNCHANGED bundleVars
  <2>1. UNCHANGED <<raw, stage, report, ended>>
    BY <1>6 DEF bundleVars
  <2>2. Occurrences' = Occurrences
    BY <2>1 DEF Occurrences
  <2>3. Groups' = Groups /\ Canonical' = Canonical /\ Channels' = Channels
    BY <2>1, <2>2 DEF Groups, Canonical, Channels
  <2> QED
    BY <2>1, <2>2, <2>3 DEF Built
<1> QED
  BY <1>1, <1>2, <1>3, <1>4, <1>5, <1>6 DEF BundleNext

\* Whatever the scanners report, also one result many times, the snapshot of it reconciles
\* and the publisher accepts the bundle built of it.
THEOREM BuiltAccepted == BundleSpec => []BuiltIsAccepted
<1>1. BundleInit => BuiltInv
  BY DEF BundleInit, BuiltInv, BuiltIsAccepted
<1>2. BuiltInv => BuiltIsAccepted
  BY DEF BuiltInv
<1> QED
  BY <1>1, <1>2, BuiltStep, PTL DEF BundleSpec

-----------------------------------------------------------------------------
(* What a complete collection has.                                          *)
IsSeq(s) == s \in Seq(Range(s))

LEMMA SeqIs ==
  ASSUME NEW S, NEW s \in Seq(S)
  PROVE  IsSeq(s) /\ Len(s) \in Nat /\ DOMAIN s = 1..Len(s) /\ (\A i \in 1..Len(s) : s[i] \in Range(s)) /\ Range(s) \subseteq S
<1>1. DOMAIN s = 1..Len(s) /\ Len(s) \in Nat /\ \A i \in 1..Len(s) : s[i] \in S
  OBVIOUS
<1>2. \A i \in 1..Len(s) : s[i] \in Range(s)
  BY <1>1 DEF Range
<1>3. s \in [1..Len(s) -> Range(s)]
  BY <1>1, <1>2
<1>4. s \in Seq(Range(s))
  BY <1>1, <1>3
<1> QED
  BY <1>1, <1>2, <1>4 DEF IsSeq, Range

LEMMA WholeIs == ASSUME NEW S, NEW s \in Seq(S) PROVE SubSeq(s, 1, Len(s)) = s
  OBVIOUS

\* A set that has every entry of a sequence.
LEMMA RangeWithin ==
  ASSUME NEW s, IsSeq(s), NEW T, \A i \in 1..Len(s) : s[i] \in T
  PROVE  Range(s) \subseteq T
<1>1. DOMAIN s = 1..Len(s)
  BY SeqIs DEF IsSeq
<1> QED
  BY <1>1 DEF Range

LEMMA NothingIs == IsSeq(<<>>) /\ Range(<<>>) = {}
<1>1. <<>> \in Seq({})
  OBVIOUS
<1>2. IsSeq(<<>>)
  BY <1>1, SeqIs
<1>3. Range(<<>>) = {}
  BY DEF Range
<1> QED
  BY <1>2, <1>3

LEMMA ConcatIs ==
  ASSUME NEW s, IsSeq(s), NEW t, IsSeq(t)
  PROVE  IsSeq(s \o t) /\ Len(s \o t) = Len(s) + Len(t) /\ Range(s \o t) = Range(s) \cup Range(t)
<1> DEFINE S == Range(s) \cup Range(t)
<1>1. s \in Seq(S) /\ t \in Seq(S)
  BY SeqIs DEF IsSeq
<1>2. s \o t \in Seq(S) /\ Len(s \o t) = Len(s) + Len(t) /\ Len(s) \in Nat /\ Len(t) \in Nat
  BY <1>1
<1>3. /\ \A i \in 1..Len(s) : (s \o t)[i] = s[i]
      /\ \A i \in 1..Len(t) : (s \o t)[i + Len(s)] = t[i]
  BY <1>1, <1>2
<1>4. DOMAIN (s \o t) = 1..(Len(s) + Len(t)) /\ DOMAIN s = 1..Len(s) /\ DOMAIN t = 1..Len(t)
  BY <1>1, <1>2
<1>5. Range(s) \subseteq Range(s \o t)
  BY <1>2, <1>3, <1>4 DEF Range
<1>6. Range(t) \subseteq Range(s \o t)
  <2>1. \A i \in 1..Len(t) : i + Len(s) \in 1..(Len(s) + Len(t))
    BY <1>2
  <2> QED
    BY <1>3, <1>4, <2>1 DEF Range
<1> QED
  BY <1>2, <1>5, <1>6, SeqIs

LEMMA AppendIs ==
  ASSUME NEW s, IsSeq(s), NEW e
  PROVE  IsSeq(Append(s, e)) /\ Len(Append(s, e)) = Len(s) + 1 /\ Range(Append(s, e)) = Range(s) \cup {e}
<1>1. s \in Seq(Range(s) \cup {e})
  BY SeqIs DEF IsSeq
<1>2. Append(s, e) \in Seq(Range(s) \cup {e}) /\ Len(Append(s, e)) = Len(s) + 1 /\ Len(s) \in Nat
  BY <1>1
<1>3. /\ Append(s, e)[Len(s) + 1] = e /\ \A i \in 1..Len(s) : Append(s, e)[i] = s[i]
      /\ DOMAIN Append(s, e) = 1..(Len(s) + 1) /\ DOMAIN s = 1..Len(s)
  BY <1>1, <1>2
<1>4. Range(s) \cup {e} \subseteq Range(Append(s, e))
  BY <1>2, <1>3 DEF Range
<1> QED
  BY <1>2, <1>4, SeqIs

LEMMA TailIs ==
  ASSUME NEW s, IsSeq(s), s # <<>>
  PROVE  IsSeq(Tail(s)) /\ Head(s) \in Range(s) /\ Range(s) = {Head(s)} \cup Range(Tail(s))
<1>1. s \in Seq(Range(s)) /\ Len(s) \in Nat \ {0}
  BY DEF IsSeq
<1>2. Tail(s) \in Seq(Range(s)) /\ Len(Tail(s)) = Len(s) - 1 /\ Head(s) = s[1] /\ \A i \in 1..(Len(s) - 1) : Tail(s)[i] = s[i + 1]
  BY <1>1
<1>3. DOMAIN s = 1..Len(s) /\ DOMAIN Tail(s) = 1..(Len(s) - 1)
  BY <1>1, <1>2
<1>4. Head(s) \in Range(s)
  BY <1>1, <1>2, <1>3 DEF Range
<1>5. ASSUME NEW i \in 1..Len(s) PROVE s[i] = Head(s) \/ s[i] \in Range(Tail(s))
  <2>1. CASE i = 1
    BY <1>2, <2>1
  <2>2. CASE i # 1
    <3>1. i - 1 \in 1..(Len(s) - 1) /\ s[i] = Tail(s)[i - 1]
      BY <1>1, <1>2, <2>2
    <3> QED
      BY <1>3, <3>1 DEF Range
  <2> QED
    BY <2>1, <2>2
<1>6. Range(s) \subseteq {Head(s)} \cup Range(Tail(s))
  BY <1>3, <1>5 DEF Range
<1> QED
  BY <1>2, <1>4, <1>6, SeqIs

LEMMA SubSeqIs ==
  ASSUME NEW s, IsSeq(s), NEW m \in Nat \ {0}, NEW n \in Nat, n <= Len(s)
  PROVE  /\ IsSeq(SubSeq(s, m, n)) /\ Len(SubSeq(s, m, n)) = IF m <= n THEN n - m + 1 ELSE 0
         /\ Range(SubSeq(s, m, n)) \subseteq Range(s)
         /\ \A i \in m..n : s[i] \in Range(SubSeq(s, m, n))
<1>1. s \in Seq(Range(s)) /\ Len(s) \in Nat
  BY DEF IsSeq
<1>2. SubSeq(s, m, n) \in Seq(Range(s)) /\ Len(SubSeq(s, m, n)) = IF m <= n THEN n - m + 1 ELSE 0
  BY <1>1
<1>3. ASSUME NEW i \in m..n PROVE s[i] \in Range(SubSeq(s, m, n))
  <2>1. i - m + 1 \in 1..Len(SubSeq(s, m, n)) /\ SubSeq(s, m, n)[i - m + 1] = s[i]
    BY <1>1, <1>2
  <2>2. DOMAIN SubSeq(s, m, n) = 1..Len(SubSeq(s, m, n))
    BY <1>2
  <2> QED
    BY <2>1, <2>2 DEF Range
<1> QED
  BY <1>2, <1>3, SeqIs

\* A set of naturals that is not empty has a least member.
LEMMA LeastNat == ASSUME NEW T \in SUBSET Nat, T # {} PROVE \E x \in T : \A y \in T : x <= y
<1> DEFINE R == {ss \in Nat \X Nat : ss[1] < ss[2]}
<1>1. IsWellFoundedOn(R, Nat)
  BY NatLessThanWellFounded DEF OpToRel
<1> HIDE DEF R
<1>2. PICK x \in T : \A y \in T : ~(<<y, x>> \in R)
  BY <1>1, WFMin
<1>3. \A y \in T : x <= y
  <2> SUFFICES ASSUME NEW y \in T PROVE x <= y
    OBVIOUS
  <2>1. ~(<<y, x>> \in R)
    BY <1>2
  <2>2. ~(y < x)
    BY <2>1 DEF R
  <2> QED
    BY <2>2
<1> QED
  BY <1>3

\* The annotations of known levels up to every one of a list.
Filters(g, s, N) ==
  g = [n \in 0..N |-> IF n = 0 THEN <<>> ELSE IF s[n].known THEN Append(g[n - 1], s[n]) ELSE g[n - 1]]
LEMMA FiltersExist == \A s : \A N \in Nat : \E g : Filters(g, s, N)
<1> SUFFICES ASSUME NEW s PROVE \A N \in Nat : \E g : Filters(g, s, N)
  OBVIOUS
<1> DEFINE S == {N \in Nat : ~\E g : Filters(g, s, N)}
           Next0(v, n) == IF s[n].known THEN Append(v, s[n]) ELSE v
<1>1. SUFFICES ASSUME S # {} PROVE FALSE
  OBVIOUS
<1>2. PICK x \in S : \A y \in S : x <= y
  BY <1>1, LeastNat
<1>3. x \in Nat /\ ~\E g : Filters(g, s, x)
  OBVIOUS
<1>4. CASE x = 0
  <2>1. PICK h : h = [n \in 0..0 |-> <<>>]
    OBVIOUS
  <2>2. h = [n \in 0..0 |-> IF n = 0 THEN <<>> ELSE IF s[n].known THEN Append(h[n - 1], s[n]) ELSE h[n - 1]]
    BY <2>1
  <2>3. Filters(h, s, x)
    BY <1>4, <2>2 DEF Filters
  <2> QED
    BY <1>3, <2>3
<1>5. CASE x # 0
  <2>1. x - 1 \in Nat /\ ~(x <= x - 1)
    BY <1>3, <1>5
  <2>2. PICK g : Filters(g, s, x - 1)
    BY <1>2, <2>1
  <2>3. PICK h : h = [n \in 0..x |-> IF n = x THEN Next0(g[x - 1], x) ELSE g[n]]
    OBVIOUS
  <2>4. \A n \in 0..(x - 1) : g[n] = IF n = 0 THEN <<>> ELSE Next0(g[n - 1], n)
    BY <2>1, <2>2 DEF Filters
  <2> HIDE DEF Next0
  <2>5. \A n \in 0..(x - 1) : h[n] = g[n]
    BY <1>3, <1>5, <2>3
  <2>6. \A n \in 0..x : h[n] = IF n = 0 THEN <<>> ELSE Next0(h[n - 1], n)
    <3> SUFFICES ASSUME NEW n \in 0..x PROVE h[n] = IF n = 0 THEN <<>> ELSE Next0(h[n - 1], n)
      OBVIOUS
    <3>1. CASE n = x
      <4>1. x - 1 \in 0..(x - 1) /\ n # 0
        BY <1>5, <2>1, <3>1
      <4>2. h[n - 1] = g[x - 1]
        BY <2>5, <3>1, <4>1
      <4> QED
        BY <2>3, <3>1, <4>1, <4>2
    <3>2. CASE n = 0
      BY <1>5, <2>3, <2>4, <2>1, <3>2
    <3>3. CASE n # x /\ n # 0
      <4>1. n \in 0..(x - 1) /\ n - 1 \in 0..(x - 1)
        BY <1>3, <3>3
      <4>2. h[n] = g[n] /\ h[n - 1] = g[n - 1]
        BY <2>5, <4>1
      <4> QED
        BY <2>4, <3>3, <4>1, <4>2
    <3> QED
      BY <3>1, <3>2, <3>3
  <2>7. h = [n \in 0..x |-> IF n = 0 THEN <<>> ELSE Next0(h[n - 1], n)]
    BY <2>3, <2>6
  <2>8. Filters(h, s, x)
    BY <2>7 DEF Filters, Next0
  <2> QED
    BY <1>3, <2>8
<1> QED
  BY <1>4, <1>5

LEMMA RecordedIs ==
  ASSUME NEW s, IsSeq(s)
  PROVE  /\ IsSeq(Recorded(s)) /\ Range(Recorded(s)) \subseteq Range(s)
         /\ \A e \in Range(s) : e.known => e \in Range(Recorded(s))
<1>1. PICK N : N = Len(s)
  OBVIOUS
<1>2. N \in Nat /\ DOMAIN s = 1..N /\ \A i \in 1..N : s[i] \in Range(s)
  BY <1>1, SeqIs DEF IsSeq
<1>3. \E g : Filters(g, s, N)
  BY <1>2, FiltersExist
<1>4. PICK g : Filters(g, s, N) /\ Recorded(s) = g[N]
  <2>1. Recorded(s) = (CHOOSE g : Filters(g, s, N))[N]
    BY <1>1 DEF Recorded, Filters
  <2> QED
    BY <1>3, <2>1
<1> DEFINE Holds(n) == /\ IsSeq(g[n]) /\ Range(g[n]) \subseteq Range(s)
                       /\ \A i \in 1..n : s[i].known => s[i] \in Range(g[n])
           Bad == {n \in 0..N : ~Holds(n)}
<1>5. Bad = {}
  <2>1. SUFFICES ASSUME Bad # {} PROVE FALSE
    OBVIOUS
  <2>2. Bad \in SUBSET Nat
    BY <1>2
  <2>3. PICK x \in Bad : \A y \in Bad : x <= y
    BY <2>1, <2>2, LeastNat
  <2>4. x \in 0..N /\ ~Holds(x)
    OBVIOUS
  <2>5. g[x] = IF x = 0 THEN <<>> ELSE IF s[x].known THEN Append(g[x - 1], s[x]) ELSE g[x - 1]
    BY <1>4, <2>4 DEF Filters
  <2>6. CASE x = 0
    <3>1. g[x] = <<>> /\ 1..x = {}
      BY <2>5, <2>6
    <3> QED
      BY <2>4, <3>1, NothingIs
  <2>7. CASE x # 0
    <3>1. x - 1 \in 0..N /\ ~(x <= x - 1) /\ x \in 1..N /\ \A i \in 1..x : i = x \/ i \in 1..(x - 1)
      BY <1>2, <2>4, <2>7
    <3>2. Holds(x - 1)
      BY <2>3, <3>1
    <3>3. CASE s[x].known
      <4>1. g[x] = Append(g[x - 1], s[x])
        BY <2>5, <2>7, <3>3
      <4>2. IsSeq(g[x]) /\ Range(g[x]) = Range(g[x - 1]) \cup {s[x]}
        BY <3>2, <4>1, AppendIs
      <4>3. \A i \in 1..x : s[i].known => s[i] \in Range(g[x])
        BY <3>1, <3>2, <4>2
      <4>4. Range(g[x]) \subseteq Range(s)
        BY <1>2, <3>1, <3>2, <4>2
      <4> QED
        BY <2>4, <4>2, <4>3, <4>4
    <3>4. CASE ~s[x].known
      <4>1. g[x] = g[x - 1]
        BY <2>5, <2>7, <3>4
      <4>2. \A i \in 1..x : s[i].known => s[i] \in Range(g[x])
        BY <3>1, <3>2, <3>4, <4>1
      <4> QED
        BY <2>4, <3>2, <4>1, <4>2
    <3> QED
      BY <3>3, <3>4
  <2> QED
    BY <2>6, <2>7
<1>6. Holds(N)
  BY <1>2, <1>5
<1>7. \A e \in Range(s) : \E i \in 1..N : e = s[i]
  BY <1>2 DEF Range
<1> QED
  BY <1>4, <1>6, <1>7

Clean == faults = {} /\ ~cut
Covered(job, collected) ==
  \A note \in Range(job.notes) : note.known => \E n \in Range(collected) : n.id = <<job.check, note.text>>
Apart(collected) == \A n \in Range(collected) : n.id[1] \notin BOOLEAN \cup Result
Reading == stage \in {"jobs", "notes"}

\* Of the list being read the rows have every page before this one; of the attempt the
\* annotations of every job are collected or its check is still to be read.  What is
\* collected is of a check run, so it is nothing that the scanners reported.
CollectInv ==
  /\ world \in Worlds /\ page \in Nat \ {0} /\ cut \in BOOLEAN
  /\ IsSeq(todo) /\ IsSeq(rows) /\ IsSeq(notes) /\ Apart(notes)
  /\ stage \in {"analysed", "built", "check"} => page = 1 /\ rows = <<>>
  /\ stage \in {"check", "notes"} =>
       /\ todo # <<>> /\ Range(todo) \subseteq Range(world)
       /\ Clean => \A job \in Range(world) : job \in Range(todo) \/ Covered(job, notes)
  /\ Reading =>
       /\ Range(rows) \subseteq Range(Listed)
       /\ \A i \in 1..Len(Listed) : i <= (page - 1) * PageSize => Listed[i] \in Range(rows)
  /\ stage \notin {"collected", "published"} => evidence = None
  /\ HonestEvidence

LEMMA WorldIs ==
  ASSUME NEW w \in Worlds
  PROVE  IsSeq(w) /\ \A job \in Range(w) : IsSeq(job.notes)
BY BundleAssumption DEF IsSeq

LEMMA ListedIs == ASSUME CollectInv, Reading PROVE IsSeq(Listed)
<1>1. CASE stage = "jobs"
  BY <1>1, WorldIs DEF CollectInv, Listed
<1>2. CASE stage = "notes"
  <2>1. Head(todo) \in Range(world)
    BY <1>2, TailIs DEF CollectInv
  <2> QED
    BY <1>2, <2>1, WorldIs DEF CollectInv, Listed
<1> QED
  BY <1>1, <1>2 DEF Reading

\* The evidence of a collection that ends well.
LEMMA ContinueKeeps ==
  ASSUME world \in Worlds, UNCHANGED world, evidence = None,
         NEW rest, IsSeq(rest), Range(rest) \subseteq Range(world),
         NEW codes, NEW truncated \in BOOLEAN, NEW collected, IsSeq(collected), Apart(collected),
         codes = {} /\ ~truncated => \A job \in Range(world) : job \in Range(rest) \/ Covered(job, collected),
         Continue(rest, codes, truncated, collected)
  PROVE  CollectInv'
<1>1. todo' = rest /\ page' = 1 /\ rows' = <<>> /\ faults' = codes /\ cut' = truncated /\ notes' = collected /\ world' = world
  BY DEF Continue
<1>2. IsSeq(<<>>)
  BY NothingIs
<1>3. /\ (world \in Worlds /\ page \in Nat \ {0} /\ cut \in BOOLEAN)'
      /\ (IsSeq(todo) /\ IsSeq(rows) /\ IsSeq(notes) /\ Apart(notes))'
  BY <1>1, <1>2 DEF IsSeq, Apart
<1>4. CASE rest = <<>>
  <2>1. stage' = "collected" /\ evidence' = Ending(codes, truncated, collected)
    BY <1>4 DEF Continue
  <2>2. HonestEvidence'
    <3>1. SUFFICES ASSUME evidence' \in Whole
                   PROVE  /\ Everything' \subseteq {notes'[i].id : i \in DOMAIN notes'}
                          /\ evidence' = "measured_zero" => Everything' = {}
      BY DEF HonestEvidence, Whole
    <3>2. codes = {} /\ ~truncated /\ (evidence' = "measured_zero" => collected = <<>>)
      BY <2>1, <3>1 DEF Ending, Whole
    <3>3. \A job \in Range(world) : Covered(job, collected)
      BY <1>4, <3>2, NothingIs
    <3>4. Everything' = Everything
      BY <1>1 DEF Everything
    <3>5. Everything \subseteq {n.id : n \in Range(collected)}
      <4> SUFFICES ASSUME NEW e \in Everything PROVE e \in {n.id : n \in Range(collected)}
        OBVIOUS
      <4>1. PICK job \in Range(world) : e \in {<<job.check, note.text>> : note \in {n \in Range(job.notes) : n.known}}
        BY DEF Everything
      <4>2. PICK note \in {n \in Range(job.notes) : n.known} : e = <<job.check, note.text>>
        BY <4>1
      <4>3. note \in Range(job.notes) /\ note.known
        BY <4>2, Zenon
      <4>4. \E n \in Range(collected) : n.id = <<job.check, note.text>>
        BY <3>3, <4>3, Zenon DEF Covered
      <4> QED
        BY <4>2, <4>4
    <3>6. {n.id : n \in Range(collected)} = {collected[i].id : i \in DOMAIN collected}
      BY DEF Range
    <3>7. collected = <<>> => {n.id : n \in Range(collected)} = {}
      BY NothingIs
    <3> QED
      BY <1>1, <3>2, <3>4, <3>5, <3>6, <3>7
  <2> QED
    BY <1>3, <2>1, <2>2 DEF CollectInv, Reading
<1>5. CASE rest # <<>>
  <2>1. stage' = "check" /\ evidence' = None
    BY <1>5 DEF Continue
  <2>2. HonestEvidence'
    BY <2>1, BundleAssumption DEF HonestEvidence, Whole
  <2>3. Clean' => \A job \in Range(world') : job \in Range(todo') \/ Covered(job, notes')
    BY <1>1 DEF Clean
  <2> QED
    BY <1>1, <1>3, <1>5, <2>1, <2>2, <2>3 DEF CollectInv, Reading
<1> QED
  BY <1>4, <1>5

\* A list that was read to its end, or of which a failure or a limit kept a part.
LEMMA EndsKeeps ==
  ASSUME CollectInv, Reading, UNCHANGED world,
         NEW kept, IsSeq(kept), Range(kept) \subseteq Range(Listed),
         NEW codes, NEW truncated \in BOOLEAN,
         codes = {} /\ ~truncated => Clean /\ \A i \in 1..Len(Listed) : Listed[i] \in Range(kept),
         Ends(kept, codes, truncated)
  PROVE  CollectInv'
<1>1. world \in Worlds /\ evidence = None /\ IsSeq(notes) /\ Apart(notes)
  BY DEF CollectInv, Reading
<1>2. IsSeq(Listed)
  BY ListedIs
<1>3. codes = {} /\ ~truncated => Clean /\ Range(Listed) \subseteq Range(kept)
  BY <1>2, RangeWithin
<1>4. CASE stage = "jobs"
  <2>1. Continue(kept, codes, truncated, notes) /\ Listed = world
    BY <1>4 DEF Ends, Listed
  <2> QED
    BY <1>1, <1>3, <2>1, ContinueKeeps
<1>5. CASE stage = "notes"
  <2>1. PICK job : job = Head(todo)
    OBVIOUS
  <2>2. Listed = job.notes
    BY <1>5, <2>1 DEF Listed
  <2>3. PICK list, listed :
          /\ list = Recorded(kept)
          /\ listed = [i \in DOMAIN list |-> [id |-> <<job.check, list[i].text>>, spot |-> list[i].spot,
                                              family |-> list[i].family]]
    OBVIOUS
  <2>4. /\ IsSeq(listed) /\ (\A n \in Range(listed) : n.id[1] = job.check)
        /\ \A row \in Range(kept) : row.known => \E n \in Range(listed) : n.id = <<job.check, row.text>>
    <3> IsSeq(list) /\ \A row \in Range(kept) : row.known => row \in Range(list)
      BY <2>3, RecordedIs
    <3>1. DOMAIN list = 1..Len(list) /\ Len(list) \in Nat
      BY SeqIs DEF IsSeq
    <3>2. DOMAIN listed = 1..Len(list) /\ listed \in [1..Len(list) -> Range(listed)]
      BY <2>3, <3>1 DEF Range
    <3>3. listed \in Seq(Range(listed))
      BY <3>1, <3>2
    <3>4. \A i \in DOMAIN list : listed[i].id = <<job.check, list[i].text>>
      BY <2>3
    <3>5. \A n \in Range(listed) : n.id[1] = job.check
      BY <2>3, <3>4 DEF Range
    <3>6. \A row \in Range(list) : \E n \in Range(listed) : n.id = <<job.check, row.text>>
      BY <3>1, <3>2, <3>4 DEF Range
    <3> QED
      BY <3>3, <3>5, <3>6 DEF IsSeq
  <2>5. PICK read : read = notes \o listed
    OBVIOUS
  <2>6. IsSeq(read) /\ Range(read) = Range(notes) \cup Range(listed)
    BY <1>1, <2>4, <2>5, ConcatIs
  <2>7. PICK all : all = IF job.summary /\ Len(read) < MaxNotes
                         THEN Append(read, [id |-> <<job.check, "summary">>, spot |-> None, family |-> None]) ELSE read
    OBVIOUS
  <2>8. IsSeq(all) /\ Range(read) \subseteq Range(all)
    BY <2>6, <2>7, AppendIs
  <2>9. todo # <<>> /\ IsSeq(todo) /\ Range(todo) \subseteq Range(world)
    BY <1>5 DEF CollectInv
  <2>10. IsSeq(Tail(todo)) /\ Range(todo) = {job} \cup Range(Tail(todo))
    BY <2>1, <2>9, TailIs
  <2>11. Apart(all)
    <3>1. job.check \notin BOOLEAN \cup Result
      <4>1. job \in Range(world)
        BY <2>1, <2>9, TailIs
      <4> QED
        BY <1>1, <4>1, BundleAssumption
    <3>2. Apart(read)
      BY <1>1, <2>4, <2>6, <3>1 DEF Apart
    <3>3. PICK row : row = [id |-> <<job.check, "summary">>, spot |-> None, family |-> None]
      OBVIOUS
    <3>4. row.id[1] = job.check
      BY <3>3
    <3>5. CASE all = read
      BY <3>2, <3>5
    <3>6. CASE all = Append(read, row)
      <4>1. Range(all) = Range(read) \cup {row}
        BY <2>6, <3>6, AppendIs
      <4> QED
        BY <3>1, <3>2, <3>4, <4>1 DEF Apart
    <3> QED
      BY <2>7, <3>3, <3>5, <3>6
  <2>12. ASSUME codes = {}, ~truncated, NEW other \in Range(world)
         PROVE  other \in Range(Tail(todo)) \/ Covered(other, all)
    <3>1. CASE other = job
      BY <1>3, <2>2, <2>4, <2>6, <2>8, <2>12, <3>1 DEF Covered
    <3>2. CASE other # job
      <4>1. other \in Range(todo) \/ Covered(other, notes)
        BY <1>3, <1>5, <2>12 DEF CollectInv
      <4> QED
        BY <2>6, <2>8, <2>10, <3>2, <4>1 DEF Covered
    <3> QED
      BY <3>1, <3>2
  <2>13. \/ Continue(<<>>, codes \cup {"result_limit"}, TRUE, all)
         \/ Continue(Tail(todo), codes, truncated, all)
    BY <1>5, <2>1, <2>3, <2>5, <2>7 DEF Ends
  <2>14. CASE Continue(<<>>, codes \cup {"result_limit"}, TRUE, all)
    BY <1>1, <2>8, <2>14, <2>11, ContinueKeeps, NothingIs
  <2>15. CASE Continue(Tail(todo), codes, truncated, all)
    BY <1>1, <2>8, <2>9, <2>10, <2>12, <2>15, <2>11, ContinueKeeps
  <2> QED
    BY <2>13, <2>14, <2>15
<1> QED
  BY <1>4, <1>5 DEF Reading

\* Of the page just read at most as much is kept as there is room for; with room left the
\* whole of it is, and a page that is not full is the last one.
PageTaken(s, a, b, most, before, now, kept) ==
  /\ IsSeq(s) /\ IsSeq(before) /\ most \in Int /\ a \in Nat /\ b \in Nat /\ b = a + PageSize
  /\ Range(before) \subseteq Range(s) /\ \A i \in 1..Len(s) : i <= a => s[i] \in Range(before)
  /\ now = SubSeq(s, a + 1, IF b < Len(s) THEN b ELSE Len(s))
  /\ kept = before \o Prefix(now, most - Len(before))
LEMMA PageKept ==
  ASSUME NEW s, NEW a, NEW b, NEW most, NEW before, NEW now, NEW kept,
         PageTaken(s, a, b, most, before, now, kept)
  PROVE  /\ IsSeq(kept) /\ Range(kept) \subseteq Range(s)
         /\ Len(kept) < most => \A i \in 1..Len(s) : i <= b => s[i] \in Range(kept)
         /\ Len(kept) < most /\ Len(now) < PageSize => \A i \in 1..Len(s) : s[i] \in Range(kept)
<1>0. /\ IsSeq(s) /\ IsSeq(before) /\ most \in Int /\ a \in Nat /\ b \in Nat /\ b = a + PageSize
      /\ Range(before) \subseteq Range(s) /\ \A i \in 1..Len(s) : i <= a => s[i] \in Range(before)
      /\ now = SubSeq(s, a + 1, IF b < Len(s) THEN b ELSE Len(s))
      /\ kept = before \o Prefix(now, most - Len(before))
  BY DEF PageTaken
<1> USE <1>0
<1>1. PICK n : n = IF b < Len(s) THEN b ELSE Len(s)
  OBVIOUS
<1>2. PageSize \in Nat \ {0}
  BY BundleAssumption
<1>5. Len(s) \in Nat /\ Len(before) \in Nat
  BY SeqIs DEF IsSeq
<1>6. n \in Nat /\ n <= Len(s) /\ now = SubSeq(s, a + 1, n)
  BY <1>1, <1>5
<1>7. /\ IsSeq(now) /\ Len(now) = (IF a + 1 <= n THEN n - a ELSE 0)
      /\ Range(now) \subseteq Range(s) /\ \A i \in (a + 1)..n : s[i] \in Range(now)
  <2>1. PICK m : m = a + 1
    OBVIOUS
  <2>2. m \in Nat \ {0}
    BY <2>1
  <2>3. /\ IsSeq(SubSeq(s, m, n)) /\ Len(SubSeq(s, m, n)) = (IF m <= n THEN n - m + 1 ELSE 0)
        /\ Range(SubSeq(s, m, n)) \subseteq Range(s)
        /\ \A i \in m..n : s[i] \in Range(SubSeq(s, m, n))
    BY <1>6, <2>2, SubSeqIs
  <2>4. n - m + 1 = n - a
    BY <1>6, <2>1
  <2>5. now = SubSeq(s, m, n)
    BY <1>6, <2>1
  <2> QED
    BY <2>1, <2>3, <2>4, <2>5
<1>8. PICK room : room = most - Len(before)
  OBVIOUS
<1>9. PICK m : m = IF room < Len(now) THEN room ELSE Len(now)
  OBVIOUS
<1>10. Prefix(now, room) = SubSeq(now, 1, m)
  BY <1>9 DEF Prefix
<1>11. Len(now) \in Nat /\ room \in Int /\ m \in Int /\ m <= Len(now)
  <2>1. Len(now) \in Nat
    BY <1>7, SeqIs DEF IsSeq
  <2>2. room \in Int
    BY <1>5, <1>8
  <2> QED
    BY <1>9, <2>1, <2>2
<1>12. PICK part : part = Prefix(now, room)
  OBVIOUS
<1>13. IsSeq(part) /\ Range(part) \subseteq Range(now) /\ (m >= 0 => Len(part) = m) /\ (m < 0 => Len(part) = 0)
  <2>1. CASE m >= 0
    <3>1. m \in Nat
      BY <1>11, <2>1
    <3>2. 1 \in Nat \ {0}
      OBVIOUS
    <3>3. /\ IsSeq(SubSeq(now, 1, m)) /\ Len(SubSeq(now, 1, m)) = (IF 1 <= m THEN m - 1 + 1 ELSE 0)
          /\ Range(SubSeq(now, 1, m)) \subseteq Range(now)
      <4>1. IsSeq(now) /\ m <= Len(now)
        BY <1>7, <1>11
      <4> QED
        BY <3>1, <3>2, <4>1, SubSeqIs
    <3>4. (IF 1 <= m THEN m - 1 + 1 ELSE 0) = m
      BY <3>1
    <3> QED
      BY <1>10, <1>12, <2>1, <3>1, <3>3, <3>4
  <2>2. CASE m < 0
    <3>1. part = <<>>
      BY <1>7, <1>10, <1>11, <1>12, <2>2 DEF IsSeq
    <3> QED
      BY <1>11, <2>2, <3>1, NothingIs
  <2> QED
    BY <1>11, <2>1, <2>2
<1>14. IsSeq(kept) /\ Len(kept) = Len(before) + Len(part) /\ Range(kept) = Range(before) \cup Range(part)
  BY <1>8, <1>12, <1>13, ConcatIs
<1>15. ASSUME Len(kept) < most PROVE part = now
  <2>1. m = Len(now)
    <3>1. Len(before) + Len(part) < most /\ room = most - Len(before)
      BY <1>8, <1>14, <1>15
    <3>2. Len(part) = (IF m >= 0 THEN m ELSE 0)
      BY <1>11, <1>13
    <3> QED
      BY <1>5, <1>9, <1>11, <3>1, <3>2
  <2>2. now \in Seq(Range(now))
    BY <1>7 DEF IsSeq
  <2>3. SubSeq(now, 1, Len(now)) = now
    BY <2>2, WholeIs
  <2> QED
    BY <1>10, <1>12, <2>1, <2>3
<1>16. ASSUME Len(kept) < most, NEW i \in 1..Len(s), i <= b PROVE s[i] \in Range(kept)
  <2>1. CASE i <= a
    BY <1>14, <2>1
  <2>2. CASE ~(i <= a)
    <3>1. i \in (a + 1)..n
      BY <1>1, <1>5, <1>16, <2>2
    <3> QED
      BY <1>7, <1>14, <1>15, <1>16, <3>1
  <2> QED
    BY <2>1, <2>2
<1>17. ASSUME Len(now) < PageSize, NEW i \in 1..Len(s) PROVE i <= b
  <2>1. Len(now) = (IF a + 1 <= n THEN n - a ELSE 0)
    BY <1>7
  <2>2. CASE n = b
    BY <1>2, <1>17, <2>1, <2>2
  <2>3. CASE n = Len(s) /\ ~(b < Len(s))
    BY <1>5, <2>3
  <2> QED
    BY <1>1, <2>2, <2>3
<1>18. ASSUME Len(kept) < most, Len(now) < PageSize, NEW i \in 1..Len(s) PROVE s[i] \in Range(kept)
  BY <1>16, <1>17, <1>18
<1> QED
  BY <1>14, <1>7, <1>13, <1>16, <1>18

LEMMA PageReadKeeps ==
  ASSUME CollectInv, Reading, UNCHANGED world, NEW spent \in BOOLEAN, PageRead(spent)
  PROVE  CollectInv'
<1>1. PICK kept, now : now = Current /\ kept = rows \o Prefix(now, Most - Len(rows))
  OBVIOUS
<1>2. IsSeq(Listed) /\ IsSeq(rows) /\ IsSeq(notes) /\ page \in Nat \ {0} /\ cut \in BOOLEAN /\ evidence = None /\ world \in Worlds
  BY ListedIs DEF CollectInv, Reading
<1>3. Most \in Int
  <2>1. Len(notes) \in Nat
    BY <1>2, SeqIs DEF IsSeq
  <2>2. MaxJobs \in Nat /\ MaxNotes \in Nat
    BY BundleAssumption
  <2> QED
    BY <2>1, <2>2 DEF Most
<1>4. /\ IsSeq(kept) /\ Range(kept) \subseteq Range(Listed)
      /\ Len(kept) < Most => \A i \in 1..Len(Listed) : i <= page * PageSize => Listed[i] \in Range(kept)
      /\ Len(kept) < Most /\ Len(now) < PageSize => \A i \in 1..Len(Listed) : Listed[i] \in Range(kept)
  <2>1. /\ Range(rows) \subseteq Range(Listed)
        /\ \A i \in 1..Len(Listed) : i <= (page - 1) * PageSize => Listed[i] \in Range(rows)
    BY DEF CollectInv
  <2>2. now = SubSeq(Listed, (page - 1) * PageSize + 1, IF page * PageSize < Len(Listed) THEN page * PageSize ELSE Len(Listed))
    BY <1>1 DEF Current
  <2>3. PICK a, b : a = (page - 1) * PageSize /\ b = page * PageSize
    OBVIOUS
  <2>4. a \in Nat /\ b \in Nat /\ b = a + PageSize
    <3>1. page \in Nat \ {0} /\ PageSize \in Nat
      BY <1>2, BundleAssumption
    <3>2. (page - 1) * PageSize \in Nat /\ page * PageSize = (page - 1) * PageSize + PageSize
      BY <3>1
    <3> QED
      BY <2>3, <3>1, <3>2
  <2>5. /\ \A i \in 1..Len(Listed) : i <= a => Listed[i] \in Range(rows)
        /\ now = SubSeq(Listed, a + 1, IF b < Len(Listed) THEN b ELSE Len(Listed))
    BY <2>1, <2>2, <2>3
  <2>6. /\ IsSeq(kept) /\ Range(kept) \subseteq Range(Listed)
        /\ Len(kept) < Most => \A i \in 1..Len(Listed) : i <= b => Listed[i] \in Range(kept)
        /\ Len(kept) < Most /\ Len(now) < PageSize => \A i \in 1..Len(Listed) : Listed[i] \in Range(kept)
    <3>1. PageTaken(Listed, a, b, Most, rows, now, kept)
      BY <1>1, <1>2, <1>3, <2>1, <2>4, <2>5 DEF PageTaken
    <3> QED
      BY <3>1, PageKept
  <2> QED
    BY <2>3, <2>6
<1>5. Len(kept) \in Nat /\ Len(now) \in Nat /\ PageSize \in Nat
  <2>1. Len(kept) \in Nat
    BY <1>4, SeqIs DEF IsSeq
  <2> QED
    BY <2>1, BundleAssumption, <1>1, <1>2, ListedIs
<1>6. \/ Ends(kept, faults \cup {"rate_limit_exhausted"}, TRUE)
      \/ Ends(kept, faults \cup {"result_limit"}, TRUE)
      \/ Ends(kept, faults \cup {"page_limit"}, TRUE)
      \/ Len(kept) < Most /\ Len(now) < PageSize /\ Ends(kept, faults, cut)
      \/ /\ Len(kept) < Most /\ page' = page + 1 /\ rows' = kept
         /\ UNCHANGED <<stage, todo, faults, cut, notes, evidence>>
  <2>1. Len(kept) >= Most \/ Len(kept) < Most
    BY <1>3, <1>5
  <2> QED
    BY <1>1, <2>1 DEF PageRead
<1>7. CASE \E code_ \in {"rate_limit_exhausted", "result_limit", "page_limit"} : Ends(kept, faults \cup {code_}, TRUE)
  BY <1>4, <1>7, EndsKeeps
<1>8. CASE Len(kept) < Most /\ Len(now) < PageSize /\ Ends(kept, faults, cut)
  BY <1>2, <1>4, <1>8, EndsKeeps DEF Clean
<1>9. CASE /\ Len(kept) < Most /\ page' = page + 1 /\ rows' = kept
           /\ UNCHANGED <<stage, todo, faults, cut, notes, evidence>>
  <2>1. UNCHANGED <<stage, todo, faults, cut, notes, evidence, world, Listed>>
    BY <1>9 DEF Listed
  <2>2. page' \in Nat \ {0} /\ page' - 1 = page
    BY <1>2, <1>9
  <2>3. \A i \in 1..Len(Listed) : i <= (page' - 1) * PageSize => Listed[i] \in Range(rows')
    BY <1>4, <1>9, <2>2
  <2>4. HonestEvidence'
    BY <1>2, <2>1, BundleAssumption DEF HonestEvidence, Whole
  <2>5. IsSeq(rows') /\ Range(rows') \subseteq Range(Listed)
    BY <1>4, <1>9
  <2> QED
    BY <2>1, <2>2, <2>3, <2>4, <2>5 DEF CollectInv, Reading, Clean, IsSeq, Apart
<1> QED
  BY <1>6, <1>7, <1>8, <1>9

LEMMA FailsKeeps ==
  ASSUME CollectInv, UNCHANGED world, NEW kind \in Failure, Fails(kind)
  PROVE  CollectInv'
<1>1. stage' = "collected" /\ UNCHANGED <<todo, page, rows, cut, notes, world>> /\ evidence' \in Failure \cup {"partial"}
  BY DEF Fails
<1>2. HonestEvidence'
  BY <1>1 DEF HonestEvidence, Whole, Failure
<1> QED
  BY <1>1, <1>2 DEF CollectInv, Reading, IsSeq, Apart

LEMMA PageFailsKeeps ==
  ASSUME CollectInv, Reading, UNCHANGED world, NEW kind \in Failure, PageFails(kind)
  PROVE  CollectInv'
<1>1. CASE Fails(kind)
  BY <1>1, FailsKeeps
<1>2. CASE Ends(rows, faults \cup {"partial_read"}, TRUE)
  BY <1>2, EndsKeeps DEF CollectInv
<1> QED
  BY <1>1, <1>2 DEF PageFails

LEMMA CheckKeeps == ASSUME CollectInv, ReadCheck PROVE CollectInv'
<1>1. stage = "check" /\ UNCHANGED <<raw, world, ended, report>>
  BY DEF ReadCheck
<1>2. todo # <<>> /\ IsSeq(todo) /\ Range(todo) \subseteq Range(world) /\ page = 1 /\ rows = <<>> /\ evidence = None
  BY <1>1 DEF CollectInv
<1>3. CASE Continue(Tail(todo), faults \cup {"missing_check_identity"}, cut, notes)
  <2>1. IsSeq(Tail(todo)) /\ Range(Tail(todo)) \subseteq Range(world)
    BY <1>2, TailIs
  <2> QED
    BY <1>1, <1>2, <1>3, <2>1, ContinueKeeps DEF CollectInv
<1>4. CASE stage' = "notes" /\ UNCHANGED <<todo, page, rows, faults, cut, notes, evidence>>
  <2>1. \A i \in 1..Len(Listed') : ~(i <= (page' - 1) * PageSize)
    BY <1>2, <1>4, BundleAssumption
  <2>2. Range(rows') \subseteq Range(Listed')
    BY <1>2, <1>4, NothingIs
  <2>3. HonestEvidence'
    BY <1>2, <1>4, BundleAssumption DEF HonestEvidence, Whole
  <2> QED
    BY <1>1, <1>2, <1>4, <2>1, <2>2, <2>3 DEF CollectInv, Reading, Clean, IsSeq, Apart
<1>5. CASE \E kind \in Failure : Fails(kind)
  BY <1>1, <1>5, FailsKeeps
<1> QED
  BY <1>3, <1>4, <1>5 DEF ReadCheck

LEMMA CollectStep == CollectInv /\ [BundleNext]_bundleVars => CollectInv'
<1> SUFFICES ASSUME CollectInv, [BundleNext]_bundleVars PROVE CollectInv'
  OBVIOUS
<1>1. CASE Build
  <2>1. UNCHANGED <<world, todo, page, rows, faults, cut, notes, evidence>> /\ stage = "analysed" /\ stage' \in {"built", "refused"}
    BY <1>1 DEF Build
  <2> QED
    BY <2>1 DEF CollectInv, Reading, HonestEvidence, Everything, IsSeq, Apart
<1>2. CASE Accept
  <2>1. UNCHANGED <<world, todo, page, rows, faults, cut, notes, evidence>> /\ stage = "built" /\ stage' \in {"jobs", "refused"}
    BY <1>2 DEF Accept
  <2>2. page = 1 /\ rows = <<>>
    BY <2>1 DEF CollectInv
  <2>3. /\ \A i \in 1..Len(Listed') : ~(i <= (page' - 1) * PageSize)
        /\ Range(rows') \subseteq Range(Listed')
    BY <2>1, <2>2, NothingIs, BundleAssumption
  <2>4. HonestEvidence'
    BY <2>1 DEF CollectInv, HonestEvidence, Everything
  <2> QED
    BY <2>1, <2>3, <2>4 DEF CollectInv, Reading, IsSeq, Apart
<1>3. CASE ReadPage
  BY <1>3, PageReadKeeps, PageFailsKeeps DEF ReadPage, Reading
<1>4. CASE ReadCheck
  BY <1>4, CheckKeeps
<1>5. CASE Apply
  <2>1. UNCHANGED <<world, todo, page, rows, faults, cut, notes, evidence>> /\ stage = "collected" /\ stage' = "published"
    BY <1>5 DEF Apply
  <2> QED
    BY <2>1 DEF CollectInv, Reading, HonestEvidence, Everything, IsSeq, Apart
<1>6. CASE UNCHANGED bundleVars
  <2>1. UNCHANGED <<world, todo, page, rows, faults, cut, notes, evidence, stage>>
    BY <1>6 DEF bundleVars
  <2>2. Listed' = Listed
    BY <2>1 DEF Listed
  <2> QED
    BY <2>1, <2>2 DEF CollectInv, Reading, HonestEvidence, Everything, Clean, IsSeq, Apart
<1> QED
  BY <1>1, <1>2, <1>3, <1>4, <1>5, <1>6 DEF BundleNext

LEMMA CollectStarts == BundleInit => CollectInv
<1> SUFFICES ASSUME BundleInit PROVE CollectInv
  OBVIOUS
<1>1. world \in Worlds /\ page = 1 /\ cut = FALSE /\ todo = <<>> /\ rows = <<>> /\ notes = <<>> /\ evidence = None /\ stage = "analysed"
  BY DEF BundleInit
<1>2. HonestEvidence
  BY <1>1, BundleAssumption DEF HonestEvidence, Whole
<1>3. IsSeq(todo) /\ IsSeq(rows) /\ IsSeq(notes) /\ Apart(notes)
  BY <1>1, NothingIs DEF Apart
<1>4. page \in Nat \ {0}
  BY <1>1
<1>5. cut \in BOOLEAN
  BY <1>1
<1> QED
  BY <1>1, <1>2, <1>3, <1>4, <1>5 DEF CollectInv, Reading

\* A collection of annotations that calls itself complete has every annotation of a
\* known level of every job of the attempt, and one that measured zero had none of these:
\* for any attempt, page size and limits, wherever calls fail and the rate limit runs out.
THEOREM CollectedHonestly == BundleSpec => []HonestEvidence
<1>1. BundleInit => CollectInv
  BY CollectStarts
<1>2. CollectInv => HonestEvidence
  BY DEF CollectInv
<1> QED
  BY <1>1, <1>2, CollectStep, PTL DEF BundleSpec

-----------------------------------------------------------------------------
(* The merge, one annotation after the other.                               *)

\* There is a merge up to every annotation: without one up to the first that has none,
\* one more step of the merge before it would be one.
Unfolds(g, N) == g = [n \in 0..N |-> IF n = 0 THEN report ELSE Merge(g[n - 1], n)]
LEMMA MergingExists == \A N \in Nat : \E g : Unfolds(g, N)
<1> DEFINE S == {N \in Nat : ~\E g : Unfolds(g, N)}
<1>1. SUFFICES ASSUME S # {} PROVE FALSE
  OBVIOUS
<1>2. PICK x \in S : \A y \in S : x <= y
  BY <1>1, LeastNat
<1>3. x \in Nat /\ ~\E g : Unfolds(g, x)
  OBVIOUS
<1>4. CASE x = 0
  <2>1. PICK h : h = [n \in 0..0 |-> report]
    OBVIOUS
  <2>2. h = [n \in 0..0 |-> IF n = 0 THEN report ELSE Merge(h[n - 1], n)]
    BY <2>1
  <2>3. Unfolds(h, x)
    BY <1>4, <2>2 DEF Unfolds
  <2> QED
    BY <1>3, <2>3
<1>5. CASE x # 0
  <2>1. x - 1 \in Nat /\ ~(x <= x - 1)
    BY <1>3, <1>5
  <2>2. PICK g : Unfolds(g, x - 1)
    BY <1>2, <2>1
  <2>3. PICK h : h = [n \in 0..x |-> IF n = x THEN Merge(g[x - 1], x) ELSE g[n]]
    OBVIOUS
  <2>4. \A n \in 0..(x - 1) : g[n] = IF n = 0 THEN report ELSE Merge(g[n - 1], n)
    BY <2>1, <2>2 DEF Unfolds
  <2>5. \A n \in 0..(x - 1) : h[n] = g[n]
    BY <1>3, <1>5, <2>3
  <2>6. \A n \in 0..x : h[n] = IF n = 0 THEN report ELSE Merge(h[n - 1], n)
    <3> SUFFICES ASSUME NEW n \in 0..x PROVE h[n] = IF n = 0 THEN report ELSE Merge(h[n - 1], n)
      OBVIOUS
    <3>1. CASE n = x
      <4>1. x - 1 \in 0..(x - 1) /\ n # 0
        BY <1>5, <2>1, <3>1
      <4>2. h[n - 1] = g[x - 1]
        BY <2>5, <3>1, <4>1
      <4> QED
        BY <2>3, <3>1, <4>1, <4>2
    <3>2. CASE n = 0
      BY <1>5, <2>3, <2>4, <2>1, <3>2
    <3>3. CASE n # x /\ n # 0
      <4>1. n \in 0..(x - 1) /\ n - 1 \in 0..(x - 1)
        BY <1>3, <3>3
      <4>2. h[n] = g[n] /\ h[n - 1] = g[n - 1]
        BY <2>5, <4>1
      <4> QED
        BY <2>4, <3>3, <4>1, <4>2
    <3> QED
      BY <3>1, <3>2, <3>3
  <2>7. Unfolds(h, x)
    BY <2>3, <2>6 DEF Unfolds
  <2> QED
    BY <1>3, <2>7
<1> QED
  BY <1>4, <1>5

LEMMA MergingIs ==
  ASSUME Len(notes) \in Nat
  PROVE  Merging[0] = report /\ \A n \in 1..Len(notes) : Merging[n] = Merge(Merging[n - 1], n)
<1>1. \E g : Unfolds(g, Len(notes))
  BY MergingExists
<1>2. Merging = CHOOSE g : Unfolds(g, Len(notes))
  BY DEF Merging, Unfolds
<1>3. Unfolds(Merging, Len(notes))
  BY <1>1, <1>2
<1>4. PICK N : N = Len(notes)
  OBVIOUS
<1>5. \A n \in 0..N : Merging[n] = IF n = 0 THEN report ELSE Merge(Merging[n - 1], n)
  BY <1>3, <1>4 DEF Unfolds
<1> QED
  BY <1>4, <1>5

LEMMA WithIs ==
  ASSUME NEW f, NEW k, k \notin DOMAIN f, NEW v, NEW w, w = With(f, k, v)
  PROVE  /\ DOMAIN w = DOMAIN f \cup {k} /\ w[k] = v
         /\ \A x \in DOMAIN f : w[x] = f[x]
         /\ Range(w) = Range(f) \cup {v}
<1>1. DOMAIN w = DOMAIN f \cup {k} /\ w[k] = v /\ \A x \in DOMAIN f : w[x] = f[x]
  BY DEF With
<1> QED
  BY <1>1 DEF Range

\* A record of the report with its index and its details replaced.
LEMMA Replaced ==
  ASSUME NEW a, NEW b, NEW c, NEW d, NEW e, NEW u, NEW v,
         NEW r, r = [index |-> a, details |-> b, channels |-> c, observations |-> d, incomplete |-> e],
         NEW q, q = [r EXCEPT !.index = u, !.details = v]
  PROVE  q = [index |-> u, details |-> v, channels |-> c, observations |-> d, incomplete |-> e]
<1>1. PICK p : p = [r EXCEPT !.index = u]
  OBVIOUS
<1>2. p = [index |-> u, details |-> b, channels |-> c, observations |-> d, incomplete |-> e]
  BY <1>1
<1>3. q = [p EXCEPT !.details = v]
  BY <1>1
<1> QED
  BY <1>2, <1>3

Keys(n) == Groups \cup {<<m>> : m \in 1..n}
IdsTo(n) == {notes[m].id : m \in 1..n}

\* What the merge of the first n annotations has made of the report.
DetailOk(d, n) ==
  /\ d = [id |-> d.id, families |-> d.families, origins |-> d.origins]
  /\ DOMAIN d.origins \subseteq Occurrences \cup {<<m>> : m \in 1..n}
IndexTo(R, n) ==
  /\ Groups \subseteq DOMAIN R.index /\ DOMAIN R.index \subseteq Keys(n)
  /\ \A g \in Groups : R.index[g] = g
  /\ \A m \in 1..n : <<m>> \in DOMAIN R.index => R.index[<<m>>] = notes[m].id
DetailsTo(R, n) ==
  /\ R.details = [e \in DOMAIN R.index |-> R.details[e]]
  /\ \A e \in DOMAIN R.index : DetailOk(R.details[e], n) /\ R.details[e].id = R.index[e]
  /\ \A g \in Groups : Range(Canonical[g]) \subseteq Range(R.details[g].origins)
OriginsTo(R, n) == UNION {Range(R.details[e].origins) : e \in DOMAIN R.index} = Occurrences \cup IdsTo(n)
MergedTo(R, n) ==
  /\ R = [index |-> R.index, details |-> R.details, channels |-> Channels,
          observations |-> Cardinality(Occurrences), incomplete |-> Channel \ ended]
  /\ IndexTo(R, n) /\ DetailsTo(R, n) /\ OriginsTo(R, n)

\* The key of an annotation is that of no finding, observation or annotation before it.
LEMMA KeyIsNew ==
  ASSUME NEW n \in Nat \ {0}
  PROVE  <<n>> \notin Groups /\ <<n>> \notin Occurrences /\ <<n>> \notin {<<m>> : m \in 1..(n - 1)}
<1>1. \A x, y : <<n>> # <<x, y>>
  OBVIOUS
<1>2. <<n>> \notin Groups
  BY <1>1 DEF Groups, GroupOf
<1>3. \A o \in Occurrences : o = <<o[1], o[2]>>
  BY DEF Occurrences
<1>4. <<n>> \notin Occurrences
  BY <1>1, <1>3
<1> QED
  BY <1>2, <1>4

LEMMA MoreKeys ==
  ASSUME NEW n \in Nat \ {0}
  PROVE  /\ 1..n = (1..(n - 1)) \cup {n} /\ Keys(n) = Keys(n - 1) \cup {<<n>>}
         /\ {<<m>> : m \in 1..(n - 1)} \subseteq {<<m>> : m \in 1..n}
         /\ IdsTo(n) = IdsTo(n - 1) \cup {notes[n].id}
<1>1. 1..n = (1..(n - 1)) \cup {n}
  OBVIOUS
<1> QED
  BY <1>1 DEF Keys, IdsTo

LEMMA BuiltMerged == ASSUME raw \in Raw PROVE MergedTo(Built, 0)
<1>1. /\ DOMAIN Built.index = Groups /\ \A g \in Groups : Built.index[g] = g
      /\ Built.details = [g \in Groups |-> [id |-> g, families |-> {o[1].family : o \in DOMAIN Canonical[g]}, origins |-> Canonical[g]]]
  BY DEF Built
<1>2. \A g \in Groups : Built.details[g].origins = Canonical[g] /\ Built.details[g].id = g
  BY <1>1
<1>3. /\ \A g \in Groups : DOMAIN Canonical[g] \subseteq Occurrences /\ Range(Canonical[g]) = {o \in Occurrences : GroupOf(o[1]) = g}
      /\ \A o \in Occurrences : GroupOf(o[1]) \in Groups
  BY CanonicalHolds
<1>4. 1..0 = {}
  OBVIOUS
<1>5. IndexTo(Built, 0)
  BY <1>1, <1>4 DEF IndexTo, Keys
<1>6. DetailsTo(Built, 0)
  <2>1. \A g \in Groups : DetailOk(Built.details[g], 0)
    <3> SUFFICES ASSUME NEW g \in Groups PROVE DetailOk(Built.details[g], 0)
      OBVIOUS
    <3>1. PICK d, f, c : d = Built.details[g] /\ f = {o[1].family : o \in DOMAIN Canonical[g]} /\ c = Canonical[g]
      OBVIOUS
    <3>2. d = [id |-> g, families |-> f, origins |-> c]
      BY <1>1, <3>1
    <3>3. DOMAIN d.origins \subseteq Occurrences
      BY <1>3, <3>1, <3>2
    <3>4. DetailOk(d, 0)
      BY <3>2, <3>3 DEF DetailOk
    <3> QED
      BY <3>1, <3>4
  <2> QED
    BY <1>1, <1>2, <2>1 DEF DetailsTo
<1>7. OriginsTo(Built, 0)
  <2>1. IdsTo(0) = {}
    BY <1>4 DEF IdsTo
  <2>2. \A g \in Groups : Range(Built.details[g].origins) = {o \in Occurrences : GroupOf(o[1]) = g}
    BY <1>2, <1>3
  <2>3. UNION {Range(Built.details[e].origins) : e \in Groups} = Occurrences
    BY <1>3, <2>2
  <2> QED
    BY <1>1, <2>1, <2>3 DEF OriginsTo
<1>8. Built = [index |-> Built.index, details |-> Built.details, channels |-> Channels,
               observations |-> Cardinality(Occurrences), incomplete |-> Channel \ ended]
  BY DEF Built
<1> QED
  BY <1>5, <1>6, <1>7, <1>8 DEF MergedTo

\* An annotation that supports no finding becomes one of its own.
LEMMA AddedKeeps ==
  ASSUME NEW R, NEW n \in Nat \ {0}, MergedTo(R, n - 1)
  PROVE  MergedTo(Added(R, n), n)
<1>1. PICK id : id = notes[n].id
  OBVIOUS
<1>2. PICK k : k = <<n>>
  OBVIOUS
<1>3. k \notin Groups /\ k \notin Occurrences /\ k \notin {<<m>> : m \in 1..(n - 1)}
  BY <1>2, KeyIsNew
<1>4. k \notin DOMAIN R.index /\ DOMAIN R.details = DOMAIN R.index
  <2>1. DOMAIN R.index \subseteq Keys(n - 1)
    BY DEF MergedTo, IndexTo
  <2>2. R.details = [e \in DOMAIN R.index |-> R.details[e]]
    BY DEF MergedTo, DetailsTo
  <2> QED
    BY <1>3, <2>1, <2>2 DEF Keys
<1>5. PICK o : o = With(<<>>, k, id)
  OBVIOUS
<1>6. DOMAIN o = {k} /\ Range(o) = {id}
  <2>1. DOMAIN <<>> = {} /\ Range(<<>>) = {}
    BY NothingIs
  <2>2. DOMAIN o = {k} /\ o[k] = id
    BY <1>5, <2>1 DEF With
  <2> QED
    BY <2>2 DEF Range
<1>7. PICK d : d = [id |-> id, families |-> {Annotations}, origins |-> o]
  OBVIOUS
<1>8. PICK index, details : index = With(R.index, k, id) /\ details = With(R.details, k, d)
  OBVIOUS
<1>9. PICK Q : Q = Added(R, n)
  OBVIOUS
<1>10. Q = [R EXCEPT !.index = index, !.details = details]
  BY <1>1, <1>2, <1>5, <1>7, <1>8, <1>9 DEF Added
<1>11. /\ Q = [index |-> index, details |-> details, channels |-> Channels,
               observations |-> Cardinality(Occurrences), incomplete |-> Channel \ ended]
       /\ Q.index = index /\ Q.details = details
  <2>1. R = [index |-> R.index, details |-> R.details, channels |-> Channels,
             observations |-> Cardinality(Occurrences), incomplete |-> Channel \ ended]
    BY DEF MergedTo
  <2>2. Q = [index |-> index, details |-> details, channels |-> Channels,
             observations |-> Cardinality(Occurrences), incomplete |-> Channel \ ended]
    <3>1. PICK a, b, c, m, e : /\ a = R.index /\ b = R.details /\ c = Channels /\ m = Cardinality(Occurrences)
                               /\ e = Channel \ ended
      OBVIOUS
    <3>2. R = [index |-> a, details |-> b, channels |-> c, observations |-> m, incomplete |-> e]
      BY <2>1, <3>1
    <3>3. Q = [index |-> index, details |-> details, channels |-> c, observations |-> m, incomplete |-> e]
      BY <1>10, <3>2, Replaced
    <3> QED
      BY <3>1, <3>3
  <2> QED
    BY <2>2
<1>12. /\ DOMAIN index = DOMAIN R.index \cup {k} /\ index[k] = id /\ \A x \in DOMAIN R.index : index[x] = R.index[x]
       /\ DOMAIN details = DOMAIN R.index \cup {k} /\ details[k] = d /\ \A x \in DOMAIN R.index : details[x] = R.details[x]
  <2>1. PICK was, wasOf : was = R.index /\ wasOf = R.details
    OBVIOUS
  <2>2. index = With(was, k, id) /\ k \notin DOMAIN was
    BY <1>4, <1>8, <2>1
  <2>3. DOMAIN index = DOMAIN was \cup {k} /\ index[k] = id /\ \A x \in DOMAIN was : index[x] = was[x]
    BY <2>2 DEF With
  <2>4. details = With(wasOf, k, d) /\ k \notin DOMAIN wasOf
    BY <1>4, <1>8, <2>1
  <2>5. DOMAIN details = DOMAIN wasOf \cup {k} /\ details[k] = d /\ \A x \in DOMAIN wasOf : details[x] = wasOf[x]
    BY <2>4 DEF With
  <2> QED
    BY <1>4, <2>1, <2>3, <2>5
<1>13. /\ 1..n = (1..(n - 1)) \cup {n} /\ Keys(n) = Keys(n - 1) \cup {k}
       /\ {<<m>> : m \in 1..(n - 1)} \subseteq {<<m>> : m \in 1..n} /\ k \in {<<m>> : m \in 1..n}
       /\ IdsTo(n) = IdsTo(n - 1) \cup {id}
  BY <1>1, <1>2, MoreKeys
<1>14. IndexTo(Q, n)
  <2>1. IndexTo(R, n - 1)
    BY DEF MergedTo
  <2>2. Groups \subseteq DOMAIN index /\ DOMAIN index \subseteq Keys(n)
    BY <1>12, <1>13, <2>1 DEF IndexTo
  <2>3. \A g \in Groups : index[g] = g
    BY <1>12, <2>1 DEF IndexTo
  <2>4. ASSUME NEW m \in 1..n, <<m>> \in DOMAIN index PROVE index[<<m>>] = notes[m].id
    <3>1. CASE m = n
      BY <1>1, <1>2, <1>12, <3>1
    <3>2. CASE m # n
      <4>1. m \in 1..(n - 1) /\ <<m>> # k
        BY <1>2, <1>13, <3>2
      <4> QED
        BY <1>12, <2>1, <2>4, <4>1 DEF IndexTo
    <3> QED
      BY <3>1, <3>2
  <2> QED
    BY <1>11, <2>2, <2>3, <2>4 DEF IndexTo
<1>15. DetailsTo(R, n - 1)
  BY DEF MergedTo
<1>16. DetailsTo(Q, n)
  <2>1. details = [e \in DOMAIN index |-> details[e]]
    BY <1>4, <1>8, <1>12 DEF With
  <2>2. DetailOk(d, n) /\ d.id = id
    BY <1>6, <1>7, <1>13 DEF DetailOk
  <2>3. \A x \in DOMAIN R.index : DetailOk(R.details[x], n) /\ R.details[x].id = R.index[x]
    <3>1. \A x \in DOMAIN R.index : DetailOk(R.details[x], n - 1) /\ R.details[x].id = R.index[x]
      BY <1>15 DEF DetailsTo
    <3> QED
      BY <1>13, <3>1 DEF DetailOk
  <2>4. \A e \in DOMAIN index : DetailOk(details[e], n) /\ details[e].id = index[e]
    BY <1>12, <2>2, <2>3
  <2>5. \A g \in Groups : Range(Canonical[g]) \subseteq Range(details[g].origins)
    <3>1. Groups \subseteq DOMAIN R.index
      BY DEF MergedTo, IndexTo
    <3> QED
      BY <1>12, <1>15, <3>1 DEF DetailsTo
  <2> QED
    BY <1>11, <2>1, <2>4, <2>5 DEF DetailsTo
<1>17. OriginsTo(Q, n)
  <2>1. UNION {Range(R.details[e].origins) : e \in DOMAIN R.index} = Occurrences \cup IdsTo(n - 1)
    BY DEF MergedTo, OriginsTo
  <2>2. Range(details[k].origins) = {id}
    BY <1>6, <1>7, <1>12
  <2>3. \A e \in DOMAIN R.index : details[e].origins = R.details[e].origins
    BY <1>12
  <2>4. UNION {Range(details[e].origins) : e \in DOMAIN index} = (UNION {Range(R.details[e].origins) : e \in DOMAIN R.index}) \cup {id}
    BY <1>12, <2>2, <2>3
  <2>5. UNION {Range(details[e].origins) : e \in DOMAIN index} = Occurrences \cup IdsTo(n)
    BY <1>13, <2>1, <2>4
  <2> QED
    BY <1>11, <2>5 DEF OriginsTo
<1> QED
  BY <1>9, <1>11, <1>14, <1>16, <1>17 DEF MergedTo

\* The index stands for one annotation more when it is not changed by it.
LEMMA IndexKept ==
  ASSUME NEW R, NEW n \in Nat \ {0}, IndexTo(R, n - 1), NEW Q, Q.index = R.index
  PROVE  IndexTo(Q, n) /\ <<n>> \notin DOMAIN R.index
<1>1. <<n>> \notin Groups /\ <<n>> \notin {<<m>> : m \in 1..(n - 1)}
  BY KeyIsNew
<1>2. DOMAIN R.index \subseteq Keys(n - 1)
  BY DEF IndexTo
<1>3. <<n>> \notin DOMAIN R.index
  BY <1>1, <1>2 DEF Keys
<1>4. ASSUME NEW m \in 1..n, <<m>> \in DOMAIN R.index PROVE R.index[<<m>>] = notes[m].id
  <2>1. m \in 1..(n - 1)
    BY <1>3, <1>4
  <2> QED
    BY <1>4, <2>1 DEF IndexTo
<1>5. DOMAIN R.index \subseteq Keys(n)
  BY <1>2, MoreKeys
<1> QED
  BY <1>3, <1>4, <1>5 DEF IndexTo

\* An annotation that supports a finding is one more origin of it.
LEMMA SupportingKeeps ==
  ASSUME NEW R, NEW n \in Nat \ {0}, MergedTo(R, n - 1), NEW e \in DOMAIN R.index,
         NEW Q, Q = [R EXCEPT !.details = [R.details EXCEPT ![e] = Supporting(R.details[e], n)]]
  PROVE  MergedTo(Q, n)
<1>1. PICK id, k : id = notes[n].id /\ k = <<n>>
  OBVIOUS
<1>2. IndexTo(R, n - 1) /\ DetailsTo(R, n - 1) /\ OriginsTo(R, n - 1)
  BY DEF MergedTo
<1>3. /\ R.details = [x \in DOMAIN R.index |-> R.details[x]] /\ DOMAIN R.details = DOMAIN R.index
      /\ \A x \in DOMAIN R.index : DetailOk(R.details[x], n - 1) /\ R.details[x].id = R.index[x]
  <2>1. R.details = [x \in DOMAIN R.index |-> R.details[x]]
    BY <1>2 DEF DetailsTo
  <2> QED
    BY <1>2, <2>1 DEF DetailsTo
<1>4. PICK was, i, f, o : was = R.details[e] /\ i = was.id /\ f = was.families /\ o = was.origins
  OBVIOUS
<1>5. was = [id |-> i, families |-> f, origins |-> o] /\ DOMAIN o \subseteq Occurrences \cup {<<m>> : m \in 1..(n - 1)}
  BY <1>3, <1>4 DEF DetailOk
<1>6. k \notin DOMAIN o
  BY <1>1, <1>5, KeyIsNew
<1>7. PICK more : more = With(o, k, id)
  OBVIOUS
<1>8. DOMAIN more = DOMAIN o \cup {k} /\ Range(more) = Range(o) \cup {id}
  <2>1. DOMAIN more = DOMAIN o \cup {k} /\ more[k] = id /\ \A x \in DOMAIN o : more[x] = o[x]
    BY <1>6, <1>7 DEF With
  <2> QED
    BY <2>1 DEF Range
<1>9. PICK is : is = Supporting(was, n)
  OBVIOUS
<1>10. is = [id |-> i, families |-> f, origins |-> more]
  <2>1. is = [was EXCEPT !.origins = more]
    BY <1>1, <1>4, <1>7, <1>9 DEF Supporting
  <2> QED
    BY <1>5, <2>1
<1>11. PICK details : details = [R.details EXCEPT ![e] = is]
  OBVIOUS
<1>12. /\ DOMAIN details = DOMAIN R.index /\ details[e] = is
       /\ \A x \in DOMAIN R.index \ {e} : details[x] = R.details[x]
       /\ details = [x \in DOMAIN R.index |-> details[x]]
  BY <1>3, <1>11
<1>13. /\ Q = [index |-> R.index, details |-> details, channels |-> Channels,
               observations |-> Cardinality(Occurrences), incomplete |-> Channel \ ended]
       /\ Q.index = R.index /\ Q.details = details
  <2>1. PICK a, b, c, m, s : /\ a = R.index /\ b = R.details /\ c = Channels /\ m = Cardinality(Occurrences)
                             /\ s = Channel \ ended
    OBVIOUS
  <2>2. R = [index |-> a, details |-> b, channels |-> c, observations |-> m, incomplete |-> s]
    BY <2>1 DEF MergedTo
  <2>3. Q = [R EXCEPT !.details = details]
    BY <1>4, <1>9, <1>11
  <2>4. Q = [index |-> a, details |-> details, channels |-> c, observations |-> m, incomplete |-> s]
    BY <2>2, <2>3
  <2>5. Q.index = a /\ Q.details = details
    BY <2>4
  <2>6. Q = [index |-> R.index, details |-> details, channels |-> Channels,
             observations |-> Cardinality(Occurrences), incomplete |-> Channel \ ended]
    BY <2>1, <2>4
  <2> QED
    BY <2>1, <2>5, <2>6
<1>14. /\ {<<m>> : m \in 1..(n - 1)} \subseteq {<<m>> : m \in 1..n} /\ k \in {<<m>> : m \in 1..n}
       /\ IdsTo(n) = IdsTo(n - 1) \cup {id}
  BY <1>1, MoreKeys
<1>15. IndexTo(Q, n)
  BY <1>2, <1>13, IndexKept
<1>16. DetailsTo(Q, n)
  <2>1. DetailOk(is, n) /\ is.id = R.index[e]
    <3>1. DOMAIN more \subseteq Occurrences \cup {<<m>> : m \in 1..n}
      BY <1>5, <1>8, <1>14
    <3>2. is.id = i /\ is.origins = more /\ is = [id |-> is.id, families |-> is.families, origins |-> is.origins]
      BY <1>10
    <3> QED
      BY <1>3, <1>4, <3>1, <3>2 DEF DetailOk
  <2>2. \A x \in DOMAIN R.index : DetailOk(R.details[x], n)
    BY <1>3, <1>14 DEF DetailOk
  <2>3. \A x \in DOMAIN R.index : DetailOk(details[x], n) /\ details[x].id = R.index[x]
    BY <1>3, <1>12, <2>1, <2>2
  <2>4. ASSUME NEW g \in Groups PROVE Range(Canonical[g]) \subseteq Range(details[g].origins)
    <3>1. g \in DOMAIN R.index /\ Range(Canonical[g]) \subseteq Range(R.details[g].origins)
      BY <1>2 DEF IndexTo, DetailsTo
    <3>2. CASE g = e
      BY <1>4, <1>8, <1>10, <1>12, <3>1, <3>2
    <3>3. CASE g # e
      BY <1>12, <3>1, <3>3
    <3> QED
      BY <3>2, <3>3
  <2> QED
    BY <1>12, <1>13, <2>3, <2>4 DEF DetailsTo
<1>17. OriginsTo(Q, n)
  <2>1. UNION {Range(R.details[x].origins) : x \in DOMAIN R.index} = Occurrences \cup IdsTo(n - 1)
    BY <1>2 DEF OriginsTo
  <2>2. Range(details[e].origins) = Range(R.details[e].origins) \cup {id}
    BY <1>4, <1>8, <1>10, <1>12
  <2>3. \A x \in DOMAIN R.index \ {e} : details[x].origins = R.details[x].origins
    BY <1>12
  <2>4. UNION {Range(details[x].origins) : x \in DOMAIN R.index} = (UNION {Range(R.details[x].origins) : x \in DOMAIN R.index}) \cup {id}
    BY <2>2, <2>3
  <2>5. UNION {Range(details[x].origins) : x \in DOMAIN R.index} = Occurrences \cup IdsTo(n)
    BY <1>14, <2>1, <2>4
  <2> QED
    BY <1>13, <2>5 DEF OriginsTo
<1> QED
  BY <1>13, <1>15, <1>16, <1>17 DEF MergedTo

LEMMA MergeKeeps ==
  ASSUME NEW R, NEW n \in Nat \ {0}, MergedTo(R, n - 1)
  PROVE  MergedTo(Merge(R, n), n)
<1>1. PICK at : at = Matching(R.details, notes[n])
  OBVIOUS
<1>2. PICK e : e = CHOOSE d \in at : TRUE
  OBVIOUS
<1>3. CASE Cardinality(at) # 1
  <2>1. Merge(R, n) = Added(R, n)
    BY <1>1, <1>3 DEF Merge
  <2> QED
    BY <2>1, AddedKeeps
<1>4. CASE Cardinality(at) = 1
  <2>1. at # {}
    BY <1>4, FS_EmptySet
  <2>2. e \in at
    BY <1>2, <2>1
  <2>3. DOMAIN R.details = DOMAIN R.index
    <3>1. R.details = [x \in DOMAIN R.index |-> R.details[x]]
      BY DEF MergedTo, DetailsTo
    <3> QED
      BY <3>1
  <2>4. e \in DOMAIN R.index
    BY <1>1, <2>2, <2>3 DEF Matching
  <2>5. CASE notes[n].id \in Range(R.details[e].origins)
    <3>1. Merge(R, n) = R
      BY <1>1, <1>2, <1>4, <2>5 DEF Merge
    <3>2. IndexTo(R, n)
      BY IndexKept DEF MergedTo
    <3>3. DetailsTo(R, n)
      <4>1. {<<m>> : m \in 1..(n - 1)} \subseteq {<<m>> : m \in 1..n}
        BY MoreKeys
      <4>2. \A x : DetailOk(x, n - 1) => DetailOk(x, n)
        BY <4>1 DEF DetailOk
      <4> QED
        BY <4>2 DEF MergedTo, DetailsTo
    <3>4. OriginsTo(R, n)
      <4>1. IdsTo(n) = IdsTo(n - 1) \cup {notes[n].id}
        BY MoreKeys
      <4>2. notes[n].id \in UNION {Range(R.details[x].origins) : x \in DOMAIN R.index}
        BY <2>4, <2>5
      <4> QED
        BY <4>1, <4>2 DEF MergedTo, OriginsTo
    <3> QED
      BY <3>1, <3>2, <3>3, <3>4 DEF MergedTo
  <2>6. CASE notes[n].id \notin Range(R.details[e].origins)
    <3>1. Merge(R, n) = [R EXCEPT !.details = [R.details EXCEPT ![e] = Supporting(R.details[e], n)]]
      BY <1>1, <1>2, <1>4, <2>6 DEF Merge
    <3> QED
      BY <2>4, <3>1, SupportingKeeps
  <2> QED
    BY <2>5, <2>6
<1> QED
  BY <1>3, <1>4

\* All of them: the first for which it fails would follow one for which it holds.
LEMMA AllMerged == ASSUME raw \in Raw, report = Built, Len(notes) \in Nat PROVE MergedTo(Merged, Len(notes))
<1> DEFINE S == {n \in 0..Len(notes) : ~MergedTo(Merging[n], n)}
<1>1. SUFFICES S = {}
  <2>1. Len(notes) \in 0..Len(notes)
    OBVIOUS
  <2> QED
    BY <2>1 DEF Merged
<1>2. SUFFICES ASSUME S # {} PROVE FALSE
  OBVIOUS
<1>3. PICK n \in S : \A m \in S : n <= m
  <2>1. S \in SUBSET Nat
    OBVIOUS
  <2> HIDE DEF S
  <2> QED
    BY <1>2, <2>1, LeastNat
<1>4. n \in 0..Len(notes) /\ ~MergedTo(Merging[n], n)
  OBVIOUS
<1>5. n # 0
  BY <1>4, MergingIs, BuiltMerged
<1>6. n \in 1..Len(notes) /\ n - 1 \in 0..Len(notes) /\ ~(n <= n - 1)
  BY <1>4, <1>5
<1>7. MergedTo(Merging[n - 1], n - 1)
  BY <1>3, <1>6
<1>8. Merging[n] = Merge(Merging[n - 1], n)
  BY <1>6, MergingIs
<1> QED
  BY <1>4, <1>6, <1>7, <1>8, MergeKeeps

-----------------------------------------------------------------------------
(* What is published.                                                       *)
LEMMA CollectedIs ==
  ASSUME IsSeq(notes)
  PROVE  /\ DOMAIN Collected = {<<m>> : m \in 1..Len(notes)} /\ \A m \in 1..Len(notes) : Collected[<<m>>] = notes[m].id
         /\ Range(Collected) = IdsTo(Len(notes))
<1>1. DOMAIN notes = 1..Len(notes)
  BY SeqIs DEF IsSeq
<1>2. DOMAIN Collected = {<<m>> : m \in 1..Len(notes)}
  BY <1>1 DEF Collected
<1>3. \A m \in 1..Len(notes) : <<m>>[1] = m
  OBVIOUS
<1>4. \A m \in 1..Len(notes) : Collected[<<m>>] = notes[m].id
  BY <1>1, <1>3 DEF Collected
<1>5. Range(Collected) = {Collected[k] : k \in {<<m>> : m \in 1..Len(notes)}}
  BY <1>2 DEF Range
<1>6. {Collected[k] : k \in {<<m>> : m \in 1..Len(notes)}} = {Collected[<<m>>] : m \in 1..Len(notes)}
  OBVIOUS
<1>7. {Collected[<<m>>] : m \in 1..Len(notes)} = {notes[m].id : m \in 1..Len(notes)}
  BY <1>4
<1> QED
  BY <1>2, <1>4, <1>5, <1>6, <1>7 DEF IdsTo

\* The channels of the report and the one of the annotations, which no catalog names.
LEMMA ChannelsApplied ==
  ASSUME raw \in Raw, IsSeq(notes), NEW C, C = With(Channels, Annotations, Collected)
  PROVE  /\ Entries(C) = Entries(Channels) \cup {<<Annotations, <<m>>>> : m \in 1..Len(notes)}
         /\ Cited(C) = Occurrences \cup IdsTo(Len(notes))
<1>1. DOMAIN Channels = Channel
  BY DEF Channels
<1>2. Annotations \notin Channel
  BY BundleAssumption
<1>3. DOMAIN C = Channel \cup {Annotations} /\ C[Annotations] = Collected /\ \A c \in Channel : C[c] = Channels[c]
  BY <1>1, <1>2 DEF With
<1>4. DOMAIN Collected = {<<m>> : m \in 1..Len(notes)} /\ \A m \in 1..Len(notes) : Collected[<<m>>] = notes[m].id
  BY CollectedIs
<1>5. Entries(C) = Entries(Channels) \cup ({Annotations} \X DOMAIN Collected)
  <2>1. ASSUME NEW x PROVE x \in Entries(C) <=> x \in Entries(Channels) \/ x \in {Annotations} \X DOMAIN Collected
    <3>1. x \in Entries(C) <=> \E c \in Channel \cup {Annotations} : x \in {c} \X DOMAIN C[c]
      BY <1>3 DEF Entries
    <3>2. x \in Entries(Channels) <=> \E c \in Channel : x \in {c} \X DOMAIN Channels[c]
      BY <1>1 DEF Entries
    <3> QED
      BY <1>3, <3>1, <3>2
  <2> QED
    BY <2>1
<1>6. {Annotations} \X DOMAIN Collected = {<<Annotations, <<m>>>> : m \in 1..Len(notes)}
  BY <1>4
<1>7. Entries(C) = Entries(Channels) \cup {<<Annotations, <<m>>>> : m \in 1..Len(notes)}
  BY <1>5, <1>6
<1>8. \A e \in Entries(Channels) : C[e[1]][e[2]] = Channels[e[1]][e[2]]
  <2>1. \A e \in Entries(Channels) : e[1] \in Channel
    BY <1>1 DEF Entries
  <2> QED
    BY <1>3, <2>1
<1>9. \A m \in 1..Len(notes) : C[<<Annotations, <<m>>>>[1]][<<Annotations, <<m>>>>[2]] = notes[m].id
  BY <1>3, <1>4
<1>10. ASSUME NEW x PROVE x \in Cited(C) <=> x \in Cited(Channels) \/ x \in IdsTo(Len(notes))
  <2>1. x \in Cited(C) <=> \E e \in Entries(C) : x = C[e[1]][e[2]]
    BY DEF Cited
  <2>2. x \in Cited(Channels) <=> \E e \in Entries(Channels) : x = Channels[e[1]][e[2]]
    BY DEF Cited
  <2>3. x \in IdsTo(Len(notes)) <=> \E m \in 1..Len(notes) : x = notes[m].id
    BY DEF IdsTo
  <2>4. (\E e \in Entries(C) : x = C[e[1]][e[2]])
          <=> (\E e \in Entries(Channels) : x = Channels[e[1]][e[2]]) \/ (\E m \in 1..Len(notes) : x = notes[m].id)
    <3>1. ASSUME NEW e \in Entries(C), x = C[e[1]][e[2]]
          PROVE  (\E d \in Entries(Channels) : x = Channels[d[1]][d[2]]) \/ (\E m \in 1..Len(notes) : x = notes[m].id)
      <4>1. CASE e \in Entries(Channels)
        BY <1>8, <3>1, <4>1
      <4>2. CASE e \notin Entries(Channels)
        <5>1. PICK m \in 1..Len(notes) : e = <<Annotations, <<m>>>>
          BY <1>7, <3>1, <4>2
        <5> QED
          BY <1>9, <3>1, <5>1
      <4> QED
        BY <4>1, <4>2
    <3>2. ASSUME NEW d \in Entries(Channels), x = Channels[d[1]][d[2]] PROVE \E e \in Entries(C) : x = C[e[1]][e[2]]
      BY <1>7, <1>8, <3>2
    <3>3. ASSUME NEW m \in 1..Len(notes), x = notes[m].id PROVE \E e \in Entries(C) : x = C[e[1]][e[2]]
      <4>1. <<Annotations, <<m>>>> \in Entries(C)
        BY <1>7
      <4> QED
        BY <1>9, <3>3, <4>1
    <3> QED
      BY <3>1, <3>2, <3>3
  <2> QED
    BY <2>1, <2>2, <2>3, <2>4
<1>11. Cited(C) = Cited(Channels) \cup IdsTo(Len(notes))
  BY <1>10
<1> QED
  BY <1>7, <1>11, EntriesOfChannels

\* The annotations are none of what the scanners reported.
LEMMA IdsApart ==
  ASSUME IsSeq(notes), Apart(notes)
  PROVE  \A m \in 1..Len(notes) : notes[m].id \notin Groups /\ notes[m].id \notin Occurrences
<1> SUFFICES ASSUME NEW m \in 1..Len(notes) PROVE notes[m].id \notin Groups /\ notes[m].id \notin Occurrences
  OBVIOUS
<1>1. notes[m].id[1] \notin BOOLEAN /\ notes[m].id[1] \notin Result
  <2>1. notes[m] \in Range(notes)
    BY SeqIs DEF IsSeq
  <2> QED
    BY <2>1 DEF Apart
<1>2. \A g \in Groups : g[1] \in BOOLEAN
  BY DEF Groups, GroupOf, Result
<1>3. \A o \in Occurrences : o[1] \in Result
  BY DEF Occurrences
<1> QED
  BY <1>1, <1>2, <1>3

\* Annotations that differ are counted once each, in the channels as among the origins.
LEMMA CitedCounted ==
  ASSUME raw \in Raw, IsSeq(notes), Apart(notes), NotesDiffer, NEW C, C = With(Channels, Annotations, Collected)
  PROVE  /\ Cardinality(Entries(C)) = Cardinality(Occurrences) + Len(notes)
         /\ Cardinality(Cited(C)) = Cardinality(Occurrences) + Len(notes)
<1>1. PICK N : N = Len(notes)
  OBVIOUS
<1>2. N \in Nat /\ DOMAIN notes = 1..N
  BY <1>1, SeqIs DEF IsSeq
<1>3. IsFiniteSet(1..N) /\ Cardinality(1..N) = N
  <2>1. 1 \in Int /\ N \in Int
    BY <1>2
  <2>2. IsFiniteSet(1..N) /\ Cardinality(1..N) = IF 1 > N THEN 0 ELSE N - 1 + 1
    BY <2>1, FS_Interval
  <2>3. (IF 1 > N THEN 0 ELSE N - 1 + 1) = N
    BY <1>2
  <2> QED
    BY <2>2, <2>3
<1>4. PICK I, J : I = IdsTo(N) /\ J = {<<Annotations, <<m>>>> : m \in 1..N}
  OBVIOUS
<1>5. IsFiniteSet(I) /\ Cardinality(I) = N
  <2> DEFINE f == [m \in 1..N |-> notes[m].id]
  <2>1. f \in [1..N -> I]
    BY <1>4 DEF IdsTo
  <2>2. \A a, b \in 1..N : f[a] = f[b] => a = b
    BY <1>2 DEF NotesDiffer
  <2>3. \A x \in I : \E m \in 1..N : f[m] = x
    BY <1>4 DEF IdsTo
  <2>4. ExistsBijection(1..N, I)
    <3> HIDE DEF f
    <3>1. f \in Bijection(1..N, I)
      BY <2>1, <2>2, <2>3, Fun_IsBij
    <3> QED
      BY <3>1 DEF ExistsBijection
  <2> QED
    BY <1>3, <2>4, FS_Bijection
<1>6. IsFiniteSet(J) /\ Cardinality(J) = N
  <2> DEFINE f == [m \in 1..N |-> <<Annotations, <<m>>>>]
  <2>1. f \in [1..N -> J]
    BY <1>4
  <2>2. \A a, b \in 1..N : f[a] = f[b] => a = b
    OBVIOUS
  <2>3. \A x \in J : \E m \in 1..N : f[m] = x
    BY <1>4
  <2>4. ExistsBijection(1..N, J)
    <3> HIDE DEF f
    <3>1. f \in Bijection(1..N, J)
      BY <2>1, <2>2, <2>3, Fun_IsBij
    <3> QED
      BY <3>1 DEF ExistsBijection
  <2> QED
    BY <1>3, <2>4, FS_Bijection
<1>7. I \cap Occurrences = {}
  BY <1>1, <1>4, IdsApart DEF IdsTo
<1>8. J \cap Entries(Channels) = {}
  <2>1. \A e \in Entries(Channels) : e[1] \in Channel
    <3>1. DOMAIN Channels = Channel
      BY DEF Channels
    <3> QED
      BY <3>1 DEF Entries
  <2>2. \A e \in J : e[1] = Annotations
    BY <1>4
  <2> QED
    BY <2>1, <2>2, BundleAssumption
<1>9. /\ IsFiniteSet(Occurrences) /\ Cardinality(Occurrences) \in Nat
      /\ IsFiniteSet(Entries(Channels)) /\ Cardinality(Entries(Channels)) = Cardinality(Occurrences)
  BY OccurrencesFinite, EntriesCounted
<1>10. Entries(C) = Entries(Channels) \cup J /\ Cited(C) = Occurrences \cup I
  BY <1>1, <1>4, ChannelsApplied
<1>11. Cardinality(Occurrences \cup I) = Cardinality(Occurrences) + N
  <2>1. Cardinality(Occurrences \cup I) = Cardinality(Occurrences) + Cardinality(I) - Cardinality(Occurrences \cap I)
    BY <1>5, <1>9, FS_Union
  <2>2. Cardinality(Occurrences \cap I) = 0
    BY <1>7, FS_EmptySet
  <2> QED
    BY <1>2, <1>5, <1>9, <2>1, <2>2
<1>12. Cardinality(Entries(Channels) \cup J) = Cardinality(Occurrences) + N
  <2>1. Cardinality(Entries(Channels) \cup J) = Cardinality(Entries(Channels)) + Cardinality(J) - Cardinality(Entries(Channels) \cap J)
    BY <1>6, <1>9, FS_Union
  <2>2. Cardinality(Entries(Channels) \cap J) = 0
    BY <1>8, FS_EmptySet
  <2> QED
    BY <1>2, <1>6, <1>9, <2>1, <2>2
<1> QED
  BY <1>1, <1>10, <1>11, <1>12

\* A record of the report with its channels and its counts replaced.
LEMMA Completed ==
  ASSUME NEW a, NEW b, NEW c, NEW d, NEW e, NEW u, NEW v, NEW w,
         NEW r, r = [index |-> a, details |-> b, channels |-> c, observations |-> d, incomplete |-> e],
         NEW q, q = [r EXCEPT !.channels = u, !.observations = v, !.incomplete = w]
  PROVE  q = [index |-> a, details |-> b, channels |-> u, observations |-> v, incomplete |-> w]
<1>1. PICK p : p = [r EXCEPT !.channels = u]
  OBVIOUS
<1>2. p = [index |-> a, details |-> b, channels |-> u, observations |-> d, incomplete |-> e]
  BY <1>1
<1>3. PICK o : o = [p EXCEPT !.observations = v]
  OBVIOUS
<1>4. o = [index |-> a, details |-> b, channels |-> u, observations |-> v, incomplete |-> e]
  BY <1>2, <1>3
<1>5. q = [o EXCEPT !.incomplete = w]
  BY <1>1, <1>3
<1> QED
  BY <1>4, <1>5

LEMMA AppliedIs ==
  ASSUME raw \in Raw, report = Built, IsSeq(notes)
  PROVE  /\ IndexTo(Applied, Len(notes)) /\ DetailsTo(Applied, Len(notes)) /\ OriginsTo(Applied, Len(notes))
         /\ Applied.channels = With(Channels, Annotations, Collected)
         /\ Applied.observations = Cardinality(Occurrences) + Len(notes)
         /\ Applied.incomplete = IF evidence \in Whole THEN Channel \ ended ELSE (Channel \ ended) \cup {Annotations}
<1>1. PICK n : n = Len(notes)
  OBVIOUS
<1>2. Len(notes) \in Nat
  BY SeqIs DEF IsSeq
<1>3. MergedTo(Merged, n)
  BY <1>1, <1>2, AllMerged
<1>4. PICK R : R = Merged
  OBVIOUS
<1>5. MergedTo(R, n)
  BY <1>3, <1>4
<1>6. PICK C, k, S : /\ C = With(Channels, Annotations, Collected) /\ k = Cardinality(Occurrences) + n
                     /\ S = IF evidence \in Whole THEN Channel \ ended ELSE (Channel \ ended) \cup {Annotations}
  OBVIOUS
<1>7. report.channels = Channels /\ report.observations = Cardinality(Occurrences) /\ report.incomplete = Channel \ ended
  BY DEF Built
<1>8. PICK Q : Q = Applied
  OBVIOUS
<1>9. Q = [R EXCEPT !.channels = C, !.observations = k, !.incomplete = S]
  BY <1>1, <1>4, <1>6, <1>7, <1>8 DEF Applied
<1>10. PICK a, b, c, m, s : /\ a = R.index /\ b = R.details /\ c = Channels /\ m = Cardinality(Occurrences)
                            /\ s = Channel \ ended
  OBVIOUS
<1>11. R = [index |-> a, details |-> b, channels |-> c, observations |-> m, incomplete |-> s]
  BY <1>5, <1>10 DEF MergedTo
<1>12. Q = [index |-> a, details |-> b, channels |-> C, observations |-> k, incomplete |-> S]
  BY <1>9, <1>11, Completed
<1>13. Q.index = a /\ Q.details = b /\ Q.channels = C /\ Q.observations = k /\ Q.incomplete = S
  BY <1>12
<1>14. Q.index = R.index /\ Q.details = R.details
  BY <1>10, <1>13
<1>15. IndexTo(Q, n) /\ DetailsTo(Q, n) /\ OriginsTo(Q, n)
  <2>1. IndexTo(R, n) /\ DetailsTo(R, n) /\ OriginsTo(R, n)
    BY <1>5 DEF MergedTo
  <2>2. IndexTo(Q, n)
    BY <1>14, <2>1 DEF IndexTo
  <2>3. DetailsTo(Q, n)
    BY <1>14, <2>1 DEF DetailsTo
  <2>4. OriginsTo(Q, n)
    BY <1>14, <2>1 DEF OriginsTo
  <2> QED
    BY <2>2, <2>3, <2>4
<1> QED
  BY <1>1, <1>6, <1>8, <1>13, <1>15

LEMMA AppliedValid ==
  ASSUME raw \in Raw, report = Built, IsSeq(notes), Apart(notes), NotesDiffer
  PROVE  Valid(Applied)
<1>1. PICK Q, n : Q = Applied /\ n = Len(notes)
  OBVIOUS
<1>2. /\ IndexTo(Q, n) /\ DetailsTo(Q, n) /\ OriginsTo(Q, n)
      /\ Q.channels = With(Channels, Annotations, Collected) /\ Q.observations = Cardinality(Occurrences) + n
  BY <1>1, AppliedIs
<1>3. n \in Nat /\ DOMAIN notes = 1..n
  BY <1>1, SeqIs DEF IsSeq
<1>4. DOMAIN Q.details = DOMAIN Q.index
  <2>1. Q.details = [e \in DOMAIN Q.index |-> Q.details[e]]
    BY <1>2 DEF DetailsTo
  <2> QED
    BY <2>1
<1>5. IsInjective(Q.index)
  <2> SUFFICES ASSUME NEW a \in DOMAIN Q.index, NEW b \in DOMAIN Q.index, Q.index[a] = Q.index[b] PROVE a = b
    BY DEF IsInjective
  <2>1. \A x \in DOMAIN Q.index : x \in Groups \/ \E m \in 1..n : x = <<m>>
    BY <1>2 DEF IndexTo, Keys
  <2>2. \A m \in 1..n : <<m>> \in DOMAIN Q.index => Q.index[<<m>>] = notes[m].id
    BY <1>2 DEF IndexTo
  <2>3. \A g \in Groups : Q.index[g] = g
    BY <1>2 DEF IndexTo
  <2>4. \A m \in 1..n : notes[m].id \notin Groups
    BY <1>1, IdsApart
  <2>5. \A l, m \in 1..n : notes[l].id = notes[m].id => l = m
    BY <1>3 DEF NotesDiffer
  <2>6. CASE a \in Groups
    <3>1. b \in Groups
      BY <2>1, <2>2, <2>3, <2>4, <2>6
    <3> QED
      BY <2>3, <2>6, <3>1
  <2>7. CASE a \notin Groups
    <3>1. PICK l \in 1..n : a = <<l>>
      BY <2>1, <2>7
    <3>2. Q.index[a] = notes[l].id
      BY <2>2, <3>1
    <3>3. b \notin Groups
      BY <2>3, <2>4, <3>2
    <3>4. PICK m \in 1..n : b = <<m>>
      BY <2>1, <3>3
    <3>5. Q.index[b] = notes[m].id
      BY <2>2, <3>4
    <3> QED
      BY <2>5, <3>1, <3>2, <3>4, <3>5
  <2> QED
    BY <2>6, <2>7
<1>6. {Q.details[e].id : e \in DOMAIN Q.details} = Range(Q.index)
  <2>1. \A e \in DOMAIN Q.index : Q.details[e].id = Q.index[e]
    BY <1>2 DEF DetailsTo
  <2> QED
    BY <1>4, <2>1 DEF Range
<1>7. Cardinality(Entries(Q.channels)) = Q.observations /\ Cardinality(Cited(Q.channels)) = Q.observations
  <2>1. PICK C : C = With(Channels, Annotations, Collected)
    OBVIOUS
  <2>2. Cardinality(Entries(C)) = Cardinality(Occurrences) + Len(notes) /\ Cardinality(Cited(C)) = Cardinality(Occurrences) + Len(notes)
    BY <2>1, CitedCounted
  <2> QED
    BY <1>1, <1>2, <2>1, <2>2
<1>8. Cited(Q.channels) = UNION {Range(Q.details[e].origins) : e \in DOMAIN Q.details}
  <2>1. PICK C : C = With(Channels, Annotations, Collected)
    OBVIOUS
  <2>2. Cited(C) = Occurrences \cup IdsTo(Len(notes))
    BY <2>1, ChannelsApplied
  <2>3. UNION {Range(Q.details[e].origins) : e \in DOMAIN Q.index} = Occurrences \cup IdsTo(n)
    BY <1>2 DEF OriginsTo
  <2> QED
    BY <1>1, <1>2, <1>4, <2>1, <2>2, <2>3
<1>9. Valid(Q)
  BY <1>4, <1>5, <1>6, <1>7, <1>8 DEF Valid
<1> QED
  BY <1>1, <1>9

LEMMA AppliedKeeps ==
  ASSUME raw \in Raw, report = Built, IsSeq(notes)
  PROVE  /\ \A g \in Groups : \E i \in DOMAIN Applied.details :
              Applied.details[i].id = g /\ Range(Canonical[g]) \subseteq Range(Applied.details[i].origins)
         /\ Applied.incomplete \ {Annotations} = Channel \ ended
         /\ evidence \notin Whole => Annotations \in Applied.incomplete
<1>1. PICK Q, n : Q = Applied /\ n = Len(notes)
  OBVIOUS
<1>2. /\ IndexTo(Q, n) /\ DetailsTo(Q, n)
      /\ Q.incomplete = IF evidence \in Whole THEN Channel \ ended ELSE (Channel \ ended) \cup {Annotations}
  BY <1>1, AppliedIs
<1>3. DOMAIN Q.details = DOMAIN Q.index
  <2>1. Q.details = [e \in DOMAIN Q.index |-> Q.details[e]]
    BY <1>2 DEF DetailsTo
  <2> QED
    BY <2>1
<1>4. ASSUME NEW g \in Groups
      PROVE  g \in DOMAIN Q.details /\ Q.details[g].id = g /\ Range(Canonical[g]) \subseteq Range(Q.details[g].origins)
  BY <1>2, <1>3 DEF IndexTo, DetailsTo
<1>5. Q.incomplete \ {Annotations} = Channel \ ended /\ (evidence \notin Whole => Annotations \in Q.incomplete)
  BY <1>2, BundleAssumption
<1> QED
  BY <1>1, <1>4, <1>5

\* What was reported is rigid, and with it the bundle built of it.
LEMMA ReportedStays == [BundleNext]_bundleVars => UNCHANGED <<raw, ended>>
BY DEF BundleNext, Build, Accept, ReadPage, ReadCheck, Apply, bundleVars
LEMMA BuiltStays ==
  ASSUME UNCHANGED <<raw, ended>>
  PROVE  Groups' = Groups /\ Canonical' = Canonical /\ Built' = Built
<1>1. Occurrences' = Occurrences
  BY DEF Occurrences
<1>2. Groups' = Groups /\ Channels' = Channels
  BY <1>1 DEF Groups, Channels
<1>3. Canonical' = Canonical
  BY <1>1, <1>2 DEF Canonical
<1> QED
  BY <1>1, <1>2, <1>3 DEF Built

PublishInv ==
  /\ raw \in Raw /\ CollectInv
  /\ stage \in {"built", "jobs", "check", "notes", "collected"} => report = Built
  /\ PublishedIsValid /\ EvidenceKept

LEMMA PublishStep == PublishInv /\ [BundleNext]_bundleVars => PublishInv'
<1> SUFFICES ASSUME PublishInv, [BundleNext]_bundleVars PROVE PublishInv'
  OBVIOUS
<1>1. CollectInv' /\ UNCHANGED <<raw, ended>>
  BY CollectStep, ReportedStays DEF PublishInv
<1>2. Groups' = Groups /\ Canonical' = Canonical /\ Built' = Built
  BY <1>1, BuiltStays
<1>3. raw' \in Raw
  BY <1>1 DEF PublishInv
<1>4. CASE Build
  <2>1. stage' \in {"built", "refused"} /\ (stage' = "built" => report' = Built)
    BY <1>4 DEF Build
  <2> QED
    BY <1>1, <1>2, <1>3, <2>1 DEF PublishInv, PublishedIsValid, EvidenceKept
<1>5. CASE Accept
  <2>1. stage = "built" /\ stage' \in {"jobs", "refused"} /\ report' = report
    BY <1>5 DEF Accept
  <2> QED
    BY <1>1, <1>2, <1>3, <2>1 DEF PublishInv, PublishedIsValid, EvidenceKept
<1>6. CASE ReadPage
  <2>1. stage \in {"jobs", "notes"} /\ stage' \in {"jobs", "notes", "check", "collected"} /\ report' = report
    BY <1>6, PageReadSteps, PageFailsSteps DEF ReadPage
  <2> QED
    BY <1>1, <1>2, <1>3, <2>1 DEF PublishInv, PublishedIsValid, EvidenceKept
<1>7. CASE ReadCheck
  <2>1. stage = "check" /\ stage' \in {"notes", "check", "collected"} /\ report' = report
    BY <1>7, ContinueSteps DEF ReadCheck, Fails
  <2> QED
    BY <1>1, <1>2, <1>3, <2>1 DEF PublishInv, PublishedIsValid, EvidenceKept
<1>8. CASE Apply
  <2>1. stage = "collected" /\ stage' = "published" /\ report' = Applied /\ UNCHANGED <<notes, evidence>>
    BY <1>8 DEF Apply
  <2>2. report = Built /\ raw \in Raw /\ IsSeq(notes) /\ Apart(notes)
    BY <2>1 DEF PublishInv, CollectInv
  <2>3. PublishedIsValid'
    <3>1. NotesDiffer' => NotesDiffer
      BY <2>1 DEF NotesDiffer
    <3>2. NotesDiffer => Valid(Applied)
      BY <2>2, AppliedValid
    <3> QED
      BY <2>1, <3>1, <3>2 DEF PublishedIsValid
  <2>4. EvidenceKept'
    <3>1. PICK Q : Q = Applied
      OBVIOUS
    <3>2. /\ \A g \in Groups : \E i \in DOMAIN Q.details :
               Q.details[i].id = g /\ Range(Canonical[g]) \subseteq Range(Q.details[i].origins)
          /\ Q.incomplete \ {Annotations} = Channel \ ended
          /\ evidence \notin Whole => Annotations \in Q.incomplete
      BY <2>2, <3>1, AppliedKeeps
    <3>3. report' = Q
      BY <2>1, <3>1
    <3> QED
      BY <1>1, <1>2, <2>1, <3>2, <3>3 DEF EvidenceKept
  <2> QED
    BY <1>1, <1>3, <2>1, <2>3, <2>4 DEF PublishInv
<1>9. CASE UNCHANGED bundleVars
  <2>1. UNCHANGED <<stage, report, notes, evidence>>
    BY <1>9 DEF bundleVars
  <2>2. PublishedIsValid'
    BY <2>1 DEF PublishInv, PublishedIsValid, NotesDiffer
  <2>3. EvidenceKept'
    BY <1>1, <1>2, <2>1 DEF PublishInv, EvidenceKept
  <2> QED
    BY <1>1, <1>2, <1>3, <2>1, <2>2, <2>3 DEF PublishInv
<1> QED
  BY <1>4, <1>5, <1>6, <1>7, <1>8, <1>9 DEF BundleNext

LEMMA PublishStarts == BundleInit => PublishInv
<1> SUFFICES ASSUME BundleInit PROVE PublishInv
  OBVIOUS
<1>1. CollectInv
  BY CollectStarts
<1> QED
  BY <1>1 DEF BundleInit, PublishInv, PublishedIsValid, EvidenceKept

\* The bundle that is published, with any number of annotations merged after the publisher
\* checked it, would still pass that check, when the annotations differ in what identifies
\* them.
THEOREM PublishedValid == BundleSpec => []PublishedIsValid
<1>1. PublishInv => PublishedIsValid
  BY DEF PublishInv
<1> QED
  BY <1>1, PublishStarts, PublishStep, PTL DEF BundleSpec

\* No merge, whatever the annotations, loses a finding or an observation of a scanner, or
\* changes which of the scanners' channels are complete.
THEOREM EvidenceIsKept == BundleSpec => []EvidenceKept
<1>1. PublishInv => EvidenceKept
  BY DEF PublishInv
<1> QED
  BY <1>1, PublishStarts, PublishStep, PTL DEF BundleSpec

\* A behaviour of the contents is one of the bundle and one of the history, so what is
\* proved of either holds of both together.
THEOREM ContentsApart == ContentsSpec => BundleSpec /\ HistorySpec
<1>1. ContentsInit => BundleInit /\ HistoryInit
  BY DEF ContentsInit
<1>2. [ContentsNext]_contentsVars => [BundleNext]_bundleVars /\ [HistoryNext]_historyVars
  BY DEF ContentsNext, contentsVars
<1> QED
  BY <1>1, <1>2, PTL DEF ContentsSpec, BundleSpec, HistorySpec
===============================================================================
