------------------------------- MODULE SonarLane -------------------------------
(***************************************************************************)
(* The SonarQube jobs of the runs that analyse the branches of a project:  *)
(* the project is made sure of (ensure_sonar_project.py), the analysis is  *)
(* submitted, its compute task awaited and the issues of the branch read   *)
(* page by page (export_sonar_issues.py), and a status is written and      *)
(* retained (finalize_sonar_status.py, reusable-vendor.yml).  Every run    *)
(* analyses a revision of its own.                                         *)
(*                                                                         *)
(* SonarQube Cloud is external: it computes the submitted analyses in      *)
(* order, and its issue list shows a branch as last computed; a branch     *)
(* beside the main one may be beyond its plan.  A page stands for the 500  *)
(* issues of one; scanner exit codes, wording and the cause of a denied    *)
(* export are left out.                                                    *)
(*                                                                         *)
(* A definition named ...Fault is a plausible slip in the definition that  *)
(* follows it; no specification uses it.                                   *)
(***************************************************************************)
EXTENDS Naturals, Sequences, FiniteSets

CONSTANTS Run, Branch,
          BranchOf,  \* the branch a run analyses, to be the project's main branch
          Pages,     \* the pages of issues of a run's revision
          MaxPages,  \* the bound of an export
          None

ASSUME SonarAssumption ==
  /\ MaxPages \in Nat /\ Pages \in [Run -> Nat] /\ BranchOf \in [Run -> Branch]
  /\ None \notin Run \cup Branch \cup {"NOT_CONFIGURED", "OPERATIONAL_FAILURE", "CONFIGURED_COMPLETE"}

VARIABLES tokens,   \* the credentials configured, out of "scan" and "read"
          project,  \* the shared project: absent, private or public
          main, beside,  \* the project's main branch, and its other branches
          queue,    \* the analyses submitted and not computed
          computed, \* run |-> the end of its compute task, "none" before
          shown,    \* branch |-> the run whose analysis it shows
          before,   \* history: run |-> the analyses computed before its own
          replaced, \* history: run |-> what its branch shows changed while it exported
          step,     \* run |-> the step of its job
          scan, export,  \* run |-> the outcomes of the two steps
          page, got,     \* run |-> the next page; the pages <<revision, page>> read
          native,   \* run |-> the file of exported issues
          status,   \* run |-> the status file
          kept      \* run |-> the artifacts retained

branches == <<main, beside, queue, computed, shown, before, replaced>>
cloud == <<project, branches>>
job == <<step, scan, export, page, got, native, status, kept>>
sonarVars == <<tokens, cloud, job>>

-----------------------------------------------------------------------------
(* The project.                                                             *)
EnsureFails(r) ==
  /\ step[r] \in {"show", "create", "shown", "branches", "rename"}
  /\ step' = [step EXCEPT ![r] = "finalize"] /\ scan' = [scan EXCEPT ![r] = "skipped"] /\ export' = [export EXCEPT ![r] = "skipped"]
  /\ UNCHANGED <<tokens, cloud, page, got, native, status, kept>>

Moves(r, from, to) == step[r] = from /\ step' = [step EXCEPT ![r] = to] /\ UNCHANGED <<scan, export, page, got, native, status, kept>>

\* A project that is neither absent nor readable by everybody fails the step.
Show(r) ==
  /\ \/ project = "public" /\ Moves(r, "show", "branches")
     \/ project = "public" /\ Moves(r, "shown", "branches")
     \/ project = "absent" /\ Moves(r, "show", "create")
  /\ UNCHANGED <<tokens, cloud>>

\* Of two runs that both saw no project, the second is refused: EnsureFails.
Create(r) ==
  /\ project = "absent" /\ project' = "public" /\ Moves(r, "create", "shown")
  /\ UNCHANGED <<tokens, branches>>

\* The branch of the run becomes the main one by taking over the name and what it shows; a
\* branch that exists beside the main one fails the step.
MainBranch(r) ==
  /\ \/ main = BranchOf[r] /\ Moves(r, "branches", "scan")
     \/ BranchOf[r] \notin beside \cup {main} /\ Moves(r, "branches", "rename")
  /\ UNCHANGED <<tokens, cloud>>

Exporting == {"poll", "pages", "verify"}
NowReplaced ==
  [r \in Run |-> replaced[r] \/ (/\ computed[r] = "success" /\ step[r] \in Exporting
                                /\ shown'[BranchOf[r]] # shown[BranchOf[r]])]

\* What a rename to a name taken meanwhile answers is not known: it may fail.
Rename(r) ==
  /\ BranchOf[r] \notin beside /\ Moves(r, "rename", "scan") /\ main' = BranchOf[r]
  /\ shown' = [shown EXCEPT ![main] = None, ![BranchOf[r]] = shown[main]] /\ replaced' = NowReplaced
  /\ UNCHANGED <<tokens, project, beside, queue, computed, before>>

-----------------------------------------------------------------------------
(* Scan, compute, export.                                                   *)
Submitted(r, outcome) ==
  /\ queue' = Append(queue, r) /\ scan' = [scan EXCEPT ![r] = outcome]
  /\ IF "read" \in tokens THEN step' = [step EXCEPT ![r] = "poll"] /\ UNCHANGED export
     ELSE step' = [step EXCEPT ![r] = "finalize"] /\ export' = [export EXCEPT ![r] = "skipped"]

\* The step may fail before or after its analysis is submitted; the job goes on.  Without a
\* submission, or without the credential to read, nothing is exported.
Scan(r) ==
  /\ step[r] = "scan"
  /\ \/ \E outcome \in {"success", "failure"} : Submitted(r, outcome)
     \/ /\ scan' = [scan EXCEPT ![r] = "failure"] /\ export' = [export EXCEPT ![r] = "skipped"]
        /\ step' = [step EXCEPT ![r] = "finalize"] /\ UNCHANGED queue
  /\ UNCHANGED <<tokens, project, main, beside, computed, shown, before, replaced, page, got, native, status, kept>>

Compute ==
  /\ queue # <<>> /\ queue' = Tail(queue)
  /\ LET r == Head(queue) IN
     \/ /\ computed' = [computed EXCEPT ![r] = "success"] /\ shown' = [shown EXCEPT ![BranchOf[r]] = r]
        /\ beside' = beside \cup ({BranchOf[r]} \ {main})
        /\ before' = [before EXCEPT ![r] = {q \in Run : computed[q] = "success"}] /\ replaced' = NowReplaced
     \/ computed' = [computed EXCEPT ![r] = "failed"] /\ UNCHANGED <<beside, shown, before, replaced>>
  /\ UNCHANGED <<tokens, project, main, job>>

Exported(r, outcome, file) ==
  /\ export' = [export EXCEPT ![r] = outcome] /\ native' = [native EXCEPT ![r] = file]
  /\ step' = [step EXCEPT ![r] = "finalize"] /\ UNCHANGED <<scan, page, got, status, kept>>

\* A failed request ends the export, and so do a failed task and one still queued at the deadline.
GivesUpFault(r) == /\ step[r] = "poll" /\ computed[r] = "failed" /\ Exported(r, "failure", None) /\ UNCHANGED <<tokens, cloud>>
GivesUp(r) == /\ step[r] = "poll" /\ computed[r] # "success" /\ Exported(r, "failure", None) /\ UNCHANGED <<tokens, cloud>>
RequestFails(r) == /\ step[r] \in Exporting /\ Exported(r, "failure", None) /\ UNCHANGED <<tokens, cloud>>

Poll(r) == computed[r] = "success" /\ Moves(r, "poll", "pages") /\ UNCHANGED <<tokens, cloud>>

\* The list is the branch's, whichever analysis that shows at this moment, and its total says
\* which page is the last; the request for a branch that was renamed fails.
LastPageFault(p, total) == p + 1 >= total
LastPage(p, total) == p >= total

TooMany(total, read) == total > MaxPages \/ read > MaxPages

Read(r) == LET of == shown[BranchOf[r]] IN got[r] \cup ({<<of, page[r]>>} \cap ({of} \X (1..Pages[of])))

ReadPage(r) ==
  /\ step[r] = "pages"
  /\ IF shown[BranchOf[r]] = None \/ TooMany(Pages[shown[BranchOf[r]]], Cardinality(Read(r))) THEN Exported(r, "failure", None)
     ELSE /\ got' = [got EXCEPT ![r] = Read(r)]
          /\ IF LastPage(page[r], Pages[shown[BranchOf[r]]]) THEN step' = [step EXCEPT ![r] = "verify"] /\ UNCHANGED page
             ELSE page' = [page EXCEPT ![r] = @ + 1] /\ UNCHANGED step
          /\ UNCHANGED <<scan, export, native, status, kept>>
  /\ UNCHANGED <<tokens, cloud>>

\* The compute task, which never changes once it succeeded, is read again.
Verify(r) == /\ step[r] = "verify" /\ computed[r] = "success" /\ Exported(r, "success", got[r]) /\ UNCHANGED <<tokens, cloud>>

-----------------------------------------------------------------------------
(* The status, and the artifacts.                                           *)
\* The file is the exporter's own, written whole, so that it is never invalid evidence.
BuildStatusFault(scanned, exported, file) == IF scanned = "success" THEN "CONFIGURED_COMPLETE" ELSE "OPERATIONAL_FAILURE"
BuildStatus(scanned, exported, file) ==
  IF scanned = "success" /\ exported = "success" /\ file # None THEN "CONFIGURED_COMPLETE" ELSE "OPERATIONAL_FAILURE"

Written(r, value, next) ==
  /\ status' = [status EXCEPT ![r] = value] /\ step' = [step EXCEPT ![r] = next]
  /\ UNCHANGED <<tokens, cloud, scan, export, page, got, native, kept>>

\* The job starts on the packaged snapshot of the source.
Starts(r) == /\ "scan" \in tokens /\ Moves(r, "snapshot", "show") /\ UNCHANGED <<tokens, cloud>>
Unconfigured(r) == /\ step[r] = "snapshot" /\ "scan" \notin tokens /\ Written(r, "NOT_CONFIGURED", "upload")
Finalize(r) == /\ step[r] = "finalize" /\ Written(r, BuildStatus(scan[r], export[r], native[r]), "upload")

Retained(r, name, next) ==
  /\ kept' = [kept EXCEPT ![r] = @ \cup {name}] /\ step' = [step EXCEPT ![r] = next]
  /\ UNCHANGED <<tokens, cloud, scan, export, page, got, native>>

Upload(r) == /\ step[r] = "upload" /\ Retained(r, "intermediate", "reconcile") /\ UNCHANGED status

\* The finalising job builds the status again after a scan that succeeded.
Reconcile(r) ==
  /\ step[r] = "reconcile" /\ Retained(r, "vendor", "ended")
  /\ status' = IF scan[r] = "success" THEN [status EXCEPT ![r] = BuildStatus(scan[r], export[r], native[r])] ELSE status

\* A runner is lost, or the job times out: what was retained stays.
SonarLost(r) ==
  /\ step[r] # "ended" /\ step' = [step EXCEPT ![r] = "ended"]
  /\ UNCHANGED <<tokens, cloud, scan, export, page, got, native, status, kept>>

\* What the runner has to do; a request does not have to fail.
SonarStep(r) ==
  \/ Starts(r) \/ Unconfigured(r) \/ Show(r) \/ Create(r) \/ MainBranch(r) \/ Rename(r) \/ EnsureFails(r)
  \/ Scan(r) \/ Poll(r) \/ GivesUp(r) \/ ReadPage(r) \/ Verify(r)
  \/ Finalize(r) \/ Upload(r) \/ Reconcile(r)

\* The credentials and the project are as the scenario says.
SonarInit ==
  /\ queue = <<>> /\ computed = [r \in Run |-> "none"] /\ shown = [b \in Branch |-> None] /\ beside = {}
  /\ before = [r \in Run |-> {}] /\ replaced = [r \in Run |-> FALSE]
  /\ scan = [r \in Run |-> ""] /\ export = [r \in Run |-> ""]
  /\ page = [r \in Run |-> 1] /\ got = [r \in Run |-> {}] /\ native = [r \in Run |-> None]
  /\ status = [r \in Run |-> None] /\ kept = [r \in Run |-> {}]
  /\ step = [r \in Run |-> "snapshot"]

===============================================================================
