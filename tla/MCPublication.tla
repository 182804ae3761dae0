---------------------------- MODULE MCPublication ----------------------------
(* Small instances of Publication.                                          *)
EXTENDS Publication, TLC

CONSTANTS p1, p2, s1, s2, a, b

Accepted(p, s, n, again) == [project |-> p, revision |-> s, order |-> n, again |-> again]

\* Of one project two analyses of a revision, then a newer revision; one of another.
OfOne == {Accepted(p1, s1, 1, FALSE), Accepted(p1, s1, 2, FALSE), Accepted(p1, s2, 3, FALSE)}
OfTwo == OfOne \cup {Accepted(p2, s1, 1, FALSE)}
OneRequest == {Accepted(p1, s1, 1, FALSE)}

\* Two of the first project's requests reach publication; the lanes of the third
\* end without a publisher.
TwoPublishedInit ==
  /\ PublicationInit
  /\ \E over \in OfOne :
       over.order > 1 /\ settled = [q \in Request |-> IF q = over THEN Channel ELSE {}]
TwoPublishedSpec == TwoPublishedInit /\ [][PublicationNext]_pubVars

\* A bound: two publishers of the first project, which end before they visit the
\* second.  That of the second only visits the first: of its own project it completes
\* and collects nothing, while the others rest or just wrote a manifest.
OfSecond(w) == pub[w].request # NoRequest /\ pub[w].request.project = p2
AtHome(w) == pub[w].at = p2 \/ p2 \in pub[w].left
SecondVisits ==
  /\ \E w \in Run : pub[w].stage = "unused" \/ OfSecond(w)
  /\ \A w \in Run :
       IF OfSecond(w)
       THEN /\ pub[w].complete = {} /\ pub[w].channels = Channel /\ pub[w].result \in {"none", "skipped"}
            /\ AtHome(w) => \A u \in Run \ {w} : pub[u].stage \in {"unused", "read", "final", "over"}
       ELSE pub[w].at # p2

Alike == Permutations(Run) \cup Permutations(Channel)
===============================================================================
