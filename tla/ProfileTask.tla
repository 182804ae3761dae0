----------------------------- MODULE ProfileTask -----------------------------
(***************************************************************************)
(* A job of the source lane that runs a command of the project's profile   *)
(* (run_profile.py): the Python tests with coverage, the JavaScript tests, *)
(* or the API under a fuzzer; or the adapter of an extension               *)
(* (extension_runner.py).  What the job retains is the file the command    *)
(* writes, which a checkout may already hold, and a status.                *)
(*                                                                         *)
(* A definition named ...Fault is a plausible slip in the definition that  *)
(* follows it; no specification uses it.                                   *)
(***************************************************************************)
EXTENDS Naturals

CONSTANTS Polls   \* times the schema of the API is asked for

ASSUME TaskAssumption == Polls \in Nat \ {0}

VARIABLES task,      \* "none" when the run has no such job
          stage,
          output,    \* coverage.json, fuzzing-results.xml, the adapter's result: "none", "checked-in",
                     \* "broken", "foreign" (of another revision) or "whole"
          checkedIn, \* whether the checkout held it
          exit,      \* exit code of the command: "zero", "one", "other"; or "timeout"
          server,    \* the API: "down", "starting", "up", "deaf" when it does not heed a request to terminate
          polls,
          taskStatus

taskVars == <<task, stage, output, checkedIn, exit, server, polls, taskStatus>>

-----------------------------------------------------------------------------
Measured == output # "none"

\* The command begins.  What a coverage run or an adapter of another time left is removed.
StartFault ==
  /\ stage = "start"
  /\ IF task = "api-fuzz" THEN stage' = "polling" /\ server' = "starting" ELSE stage' = "command" /\ UNCHANGED server
  /\ UNCHANGED <<task, output, checkedIn, exit, polls, taskStatus>>
Start ==
  /\ stage = "start"
  /\ IF task = "api-fuzz" THEN stage' = "polling" /\ server' = "starting" ELSE stage' = "command" /\ UNCHANGED server
  /\ output' = IF task \in {"python-test", "adapter"} THEN "none" ELSE output
  /\ UNCHANGED <<task, checkedIn, exit, polls, taskStatus>>

\* The job ends before anything else when the profile cannot be read or lacks a field of the
\* task, when its directory is not in the checkout, or when the API cannot be executed.
BadProfile ==
  /\ stage = "start" /\ task # "adapter" /\ stage' = "ended"
  /\ UNCHANGED <<task, output, checkedIn, exit, server, polls, taskStatus>>

\* A profile whose time limit is out of bounds, or whose schema is not on the loopback,
\* fails the job; in the first case without a status.
BadLimit ==
  /\ stage = "start" /\ task = "python-test" /\ stage' = "ended" /\ output' = "none"
  /\ UNCHANGED <<task, checkedIn, exit, server, polls, taskStatus>>
BadAddress ==
  /\ stage = "polling" /\ polls = 0 /\ stage' = "failed"
  /\ UNCHANGED <<task, output, checkedIn, exit, server, polls, taskStatus>>

\* An adapter is not run from other tooling, or on another revision, than was asked for.
Mismatch ==
  /\ stage = "start" /\ task = "adapter" /\ stage' = "ended" /\ output' = "none"
  /\ taskStatus' = "OPERATIONAL_FAILURE"
  /\ UNCHANGED <<task, checkedIn, exit, server, polls>>

\* The tests, the adapter or the fuzzer end or are stopped by their time limit, with or without output.
CommandEnds ==
  /\ stage \in {"command", "fuzzing"}
  /\ exit' \in {"zero", "one", "other", "timeout"} /\ output' \in {output, "broken", "whole"} \cup (IF task = "adapter" THEN {"foreign"} ELSE {})
  /\ stage' = "command-ended"
  /\ UNCHANGED <<task, checkedIn, server, polls, taskStatus>>

\* Whether the adapter's own status counts.
AdapterVerdict == IF exit = "zero" /\ output = "whole" THEN "COMPLETED" ELSE "OPERATIONAL_FAILURE"

\* The status of the tests.
TaskVerdict ==
  CASE task = "javascript-test" -> IF exit = "timeout" THEN "OPERATIONAL_FAILURE" ELSE "COMPLETED"
    [] task = "python-test" -> IF ~Measured THEN "OPERATIONAL_FAILURE" ELSE IF exit = "zero" THEN "COMPLETED" ELSE "INVALID_EVIDENCE"
    [] task = "adapter" -> AdapterVerdict
Conclude ==
  /\ stage = "command-ended" /\ task # "api-fuzz"
  /\ taskStatus' = TaskVerdict /\ stage' = "ended"
  /\ UNCHANGED <<task, output, checkedIn, exit, server, polls>>

\* The schema is asked for until the API answers, exits, or was asked often enough.
Answers ==
  /\ stage = "polling" /\ server = "up" /\ stage' = "fuzzing"
  /\ UNCHANGED <<task, output, checkedIn, exit, server, polls, taskStatus>>
NoAnswer ==
  /\ stage = "polling"
  /\ IF server = "down" \/ polls = Polls THEN stage' = "failed" /\ UNCHANGED polls
     ELSE polls' = polls + 1 /\ UNCHANGED stage
  /\ UNCHANGED <<task, output, checkedIn, exit, server, taskStatus>>

\* The campaign counts if its results can be parsed and it found something or nothing; the
\* status is written in any case, which is taken to succeed, and then the API is stopped.
Judge ==
  /\ stage = "command-ended" /\ task = "api-fuzz"
  /\ stage' = IF exit \in {"zero", "one"} /\ output \in {"checked-in", "whole"} THEN "passed" ELSE "failed"
  /\ UNCHANGED <<task, output, checkedIn, exit, server, polls, taskStatus>>
Settle ==
  /\ stage \in {"passed", "failed"}
  /\ taskStatus' = IF stage = "passed" THEN "COMPLETED" ELSE "OPERATIONAL_FAILURE"
  /\ stage' = IF server = "down" THEN "ended" ELSE "terminating"
  /\ UNCHANGED <<task, output, checkedIn, exit, server, polls>>
StopServerFault ==
  /\ stage = "terminating" /\ stage' = "ended"
  /\ server' = IF server = "deaf" THEN server ELSE "down"
  /\ UNCHANGED <<task, output, checkedIn, exit, polls, taskStatus>>
StopServer ==
  /\ stage = "terminating" /\ stage' = "ended" /\ server' = "down"
  /\ UNCHANGED <<task, output, checkedIn, exit, polls, taskStatus>>

\* The API comes up, hangs or exits on its own.
Api ==
  /\ stage \notin {"start", "ended"} /\ server # "down"
  /\ server' \in {"up", "deaf", "down"} \ {server}
  /\ UNCHANGED <<task, stage, output, checkedIn, exit, polls, taskStatus>>

\* The step after the tests writes the report from what coverage recorded, whatever became
\* of the tests.
Materialize ==
  /\ stage = "ended" /\ task = "python-test" /\ output = "none" /\ exit # "none"
  /\ output' = "whole"
  /\ UNCHANGED <<task, stage, checkedIn, exit, server, polls, taskStatus>>

TaskStep == Start \/ BadProfile \/ BadLimit \/ BadAddress \/ Mismatch \/ CommandEnds \/ Conclude \/ Answers \/ NoAnswer \/ Judge \/ Settle \/ StopServer
TaskInit ==
  /\ task \in {"none", "python-test", "javascript-test", "api-fuzz", "adapter"}
  /\ stage = IF task = "none" THEN "ended" ELSE "start"
  /\ checkedIn \in (IF task = "none" THEN {FALSE} ELSE BOOLEAN) /\ output = (IF checkedIn THEN "checked-in" ELSE "none")
  /\ exit = "none" /\ server = "down" /\ polls = 0 /\ taskStatus = "none"
TaskNext == TaskStep \/ Api \/ Materialize

-----------------------------------------------------------------------------
\* A status that calls coverage or a campaign completed stands for results this job produced,
\* not for a file the checkout brought along (run_profile.py:107, extension_runner.py:33), and an
\* adapter's for a result of this revision.  Results of the fuzzer that are checked in under its
\* name are the exception: nothing removes them.
CompletedIsFresh ==
  taskStatus = "COMPLETED" /\ task # "javascript-test" =>
    /\ output \in {"broken", "whole"} \/ (task = "api-fuzz" /\ checkedIn)
    /\ task = "adapter" => output = "whole"

\* No API that was started outlives its task, also one that does not come up, does not
\* heed the request to terminate, or whose campaign fails (run_profile.py:90).
ServerEnds == stage = "ended" => server = "down"
===============================================================================
