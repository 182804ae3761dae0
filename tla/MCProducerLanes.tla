------------------------------ MODULE MCProducerLanes -------------------------
EXTENDS ProducerLanes, TLC
CONSTANTS r1, r2, r3, b1, b2, b3

\* As many issues as an export holds, none, and one page too many.
MCPages == r1 :> 2 @@ r2 :> 0 @@ r3 :> 3

MCBranchOf == r1 :> b1 @@ r2 :> b1 @@ r3 :> b2

Scenario(runs, vendors, credentials, state, branch, rows, gone) ==
  [wants |-> [r \in Run |-> IF r \in runs THEN vendors ELSE {}], tokens |-> credentials, project |-> state, main |-> branch,
   older |-> rows, moved |-> gone]
Both == {"scan", "read"}

\* Two runs of a branch at once, on a new project and on a known one, and two of two branches;
\* one run, whatever the credentials and the project, and one with Snyk; a pull request with
\* and without older reviews.
MCScenarios ==
  {Scenario({r1, r2}, {"sonar"}, Both, p, b3, 0, FALSE) : p \in {"absent", "public"}}
  \cup {Scenario({r2, r3}, {"sonar"}, Both, "public", b1, 0, FALSE)}
  \cup {Scenario({r1}, {"sonar"}, c, p, b1, 0, FALSE) : c \in SUBSET Both, p \in {"public", "private"}}
  \cup {Scenario({r1}, {"sonar", "snyk"}, {"scan"}, "public", b1, 0, FALSE)}
  \cup {Scenario({r1}, {"coderabbit"}, {}, "absent", b1, o, g) : o \in {0, 1}, g \in BOOLEAN}
  \cup {Scenario({}, {}, {}, "absent", b1, 0, FALSE)}
MCSnykIssues == {0, 1}
===============================================================================
