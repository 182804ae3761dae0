--------------------------- MODULE MCReportContents ---------------------------
EXTENDS ReportContents, TLC
CONSTANTS s1, s2, f1, f2, c1, c2, t1, t2, t3, k1, k2, k3,   \* of the bundle
          p1, p2, p3, x1                                   \* of the history

\* At most two results in all, the same one twice perhaps.
MCRaw == {r \in [Result -> 0..Repeats] : FoldFunction(+, 0, r) <= 2 /\ \A x \in Result : x.spot = s2 => x.family = f1 \/ r[x] = 0}

MCChannelOf == f1 :> c1 @@ f2 :> c2

Note(text, spot, family) == [text |-> text, spot |-> spot, family |-> family, known |-> TRUE]
Job(check, list, summary) == [check |-> check, notes |-> list, summary |-> summary]
A == Note(t1, s1, f1)
B == Note(t2, None, None)
C == Note(t3, s1, f2)
D == [C EXCEPT !.known = FALSE]

\* No job, jobs without annotations or without a check, annotations that support a
\* finding, of a level that is not known, more jobs or annotations than are read, one that
\* fills the last place, and annotations that agree in all that identifies them.
MCWorlds == {<<>>, <<Job(k1, <<>>, FALSE)>>, <<Job(None, <<>>, FALSE), Job(k1, <<A>>, TRUE)>>,
             <<Job(k1, <<A, B>>, FALSE), Job(k2, <<C>>, FALSE)>>,
             <<Job(k1, <<A, B, C>>, TRUE), Job(k2, <<A, B, C>>, TRUE)>>,
             <<Job(k1, <<A, B, C>>, TRUE), Job(k2, <<>>, FALSE)>>,
             <<Job(k1, <<B>>, FALSE), Job(k2, <<>>, FALSE), Job(k3, <<A>>, FALSE), Job(None, <<>>, FALSE)>>,
             <<Job(k1, <<D>>, FALSE)>>, <<Job(k1, <<A, D, B>>, TRUE), Job(k2, <<D, C>>, FALSE)>>,
             <<Job(k1, <<A, A>>, FALSE)>>, <<Job(k1, <<B, B>>, TRUE)>>}

\* Two problems in the same statement and one in a statement like it.
MCSiteOf == p1 :> x1 @@ p2 :> x1 @@ p3 :> x1
MCTextOf == p1 :> t1 @@ p2 :> t1 @@ p3 :> t2
MCScannersOf == p1 :> {f1} @@ p2 :> {f1, f2} @@ p3 :> {f2}
MCAccepted == {{f1, f2}}
MCLikeness == [x \in {t1, t2} \X {t1, t2} |-> IF x[1] = x[2] THEN 97 ELSE 91]
===============================================================================
