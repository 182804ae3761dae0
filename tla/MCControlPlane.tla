---------------------------- MODULE MCControlPlane ----------------------------
(* Small instances of ControlPlane.                                         *)
EXTENDS ControlPlane, TLC

CONSTANTS p1, s1, s2, x1, x2, a, b, u1, n1

Launch(s, x, cs, again) ==
  [project |-> p1, revision |-> s, context |-> x, channels |-> cs,
   actor |-> u1, run_again |-> again, stamp |-> n1]

\* Two overlapping selections and a tooling change on one revision, a second
\* revision of the same project.
MCIntent == {Launch(s1, x1, {a}, FALSE), Launch(s1, x1, {a, b}, FALSE),
             Launch(s1, x2, {a}, FALSE), Launch(s2, x1, {a}, FALSE)}

\* How far a run is followed after a reset: one more acceptance, two claims in
\* all, and no key that was merged into a row the queue still keeps (the dedupe
\* entry of such a key is lost when that row is pruned).
AfterReset ==
  generation > 1 =>
    /\ nextAcceptance <= 2 /\ Cardinality(grants) <= 2
    /\ \A k \in DOMAIN rows, j \in DOMAIN rows :
         /\ k # j => DOMAIN rows[k].submissions \cap DOMAIN rows[j].submissions = {}
         /\ rows[k].generation < generation => DOMAIN rows[k].submissions = {k}

MCSymmetry == Permutations(Key) \cup Permutations(Token)
===============================================================================
