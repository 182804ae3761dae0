----------------------------- MODULE MCCoordinator -----------------------------
(* Small instances of Coordinator.                                          *)
EXTENDS Coordinator, TLC

CONSTANTS p1, p2, s1, s2, x1, a, b, u1, u2, n1, k3, t3

Submit(p, s, cs, u) ==
  [project |-> p, revision |-> s, context |-> x1, channels |-> cs,
   actor |-> u, run_again |-> FALSE, stamp |-> n1]

\* Two revisions of one project, racing to publish, and a request of another.
Elsewhere == Submit(p2, s1, {a}, u2)
TwoRevisions == {Submit(p1, s1, {a}, u1), Submit(p1, s2, {a}, u1), Elsewhere}
\* A request whose channels grow while its first claim is running.
GrowingRequest == {Submit(p1, s1, {a}, u1), Submit(p1, s1, {a, b}, u1)}

\* The other project's request is accepted first.
ElsewhereInit ==
  /\ nextAcceptance = 2 /\ generation = 1 /\ paused = FALSE
  /\ rows = With([k \in {} |-> {}], k3, [NewRow(k3, Elsewhere) EXCEPT !.acceptance = 1])
  /\ dedupe = With([k \in {} |-> {}], k3, k3)
  /\ index = With([k \in {} |-> {}], AnalysisKey(Elsewhere), k3)
  /\ latest = With([p \in {} |-> {}], p2, k3)
  /\ recent = [u \in Actor |-> 0]
  /\ lease = [t \in Token |-> 0] /\ grants = {}
  /\ RunInit
ElsewhereSpec == ElsewhereInit /\ [][CoordinatorNext]_allVars

\* A bound: the other project's one run is claimed and passes its fence while a run
\* of the first project is writing, and nothing happens after its pass.  A reset comes
\* without it and without a fault, and nothing is accepted afterwards.
WhileWriting(stage) ==
  stage \in {"lanes", "publishing", "fenced"} => \E t \in DOMAIN runs : runs[t].stage = "writing"
OneElsewhere ==
  /\ generation = 2 => faults = 0 /\ t3 \notin DOMAIN runs /\ nextAcceptance = 1
  /\ \A k \in DOMAIN rows \ {k3} : rows[k].intent.project = p1
  /\ \A t \in DOMAIN runs : (t = t3) <=> (runs[t].project = p2)
  /\ \A g \in grants : (g.token = t3) <=> (g.key = k3)
  /\ t3 \in DOMAIN runs => /\ runs[t3].stage \in {"lanes", "publishing", "fenced", "keeping", "success"}
                           /\ WhileWriting(runs[t3].stage)

Exchangeable == Permutations(Key \ {k3}) \cup Permutations(Token \ {t3})
===============================================================================
