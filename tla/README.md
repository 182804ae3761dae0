# Verification of the code analysis dashboard

TLA+ models of the service in this repository, the TLC runs that check them and
the theorems TLAPS proves about them. Paths below are relative to the
repository root.

## 1. Inventory

A reviewer signs in to a static dashboard, picks a project and launches an
analysis. The launch is written to a durable queue, a GitHub Actions workflow is
woken, claims the request under a lease, runs the scanners, publishes one report
per project to object storage and completes the request. A schedule repeats the
claim every 15 minutes so that a lost wake does not lose the request.

| Component | Code | State it keeps | Operations |
|---|---|---|---|
| Durable analysis queue | `analysis-launcher/auth-exchange.mjs` `queue/...` | request rows with channels and claims, dedupe keys, active index, project-latest, acceptance and generation counters, pause flag, launch times per actor | admit, claim, heartbeat, complete, pause, resume, reset; read-only status, recent, public-state |
| Sessions and sign-in | the same Durable Object `exchange/...`, `session/...`; `worker.mjs`, `auth-routes.mjs`, `viewer-access.mjs` | exchange codes, sessions with cached authorization, one alarm, checks in flight per isolate | OAuth callback, redeem, session get, authorize, logout, alarm |
| Rate limits | `rate/settings`, `rate/export`, the launch quota | sliding logs of times | admit or refuse with a delay |
| Launch API | `repository-api.mjs` | settings cache, coalesced lookups | preview, fast launch, explicit launch, settings, activity, wake |
| Report storage API | `worker.mjs` 140-219, `reports.mjs` | R2 objects: state and report manifests, assets | read, write; reset at a cutover |
| Coordinator workflow | `.github/workflows/code-analysis-coordinator.yml` | workflow runs: claim, heartbeat, lanes, publish, complete | one run per wake or schedule |
| Report publication | `scripts/code_analysis/repository_service.py`, `release_manifest.py`, `report_assets.py` | state manifest (targets, requests, receipts), report manifest, assets | reconcile, plan channels, collect, merge channels, publish, recover evidence |
| Producer collection | `github_service.py`, `source_identity.py`, `queue_contract.py` | artifacts of one workflow attempt | resolve target, wait for artifacts and job conclusions, download, validate |
| Channel status and applicability | `applicability.py`, `channel_status.py`, `evidence_contract.py`, `snapshot.py`, `status_contract.py`, `hosted_pipeline.py` | status, reason and count of every catalog channel | select producers, attest evidence, build the snapshot, exclude, gate |
| Hosted targets | `github_service.py` scan and publish, `hosted.py` | scan state (rows, selected commit), the dashboard's manifest, stored reports | discover, reconcile, dispatch, collect, show |
| Findings | `normalizer.py`, `monitoring.py`, `baseline_builder.py` | canonical findings, an accepted baseline, the last run | parse, merge by identity, compare across revisions |
| Workflow annotations | `workflow_annotations.py` | the annotations of a producing run | read page by page, merge into the bundle |
| Vendor lanes | `reusable-vendor.yml`, `ensure_sonar_project.py`, `export_sonar_issues.py`, `finalize_sonar_status.py`, `collect_coderabbit.py` | the shared SonarQube project, artifacts, status files | set up, scan, export, collect, finalize |
| Scanner runners | `run_profile.py`, `extension_runner.py`, `portable_runner.py` | a job's output files and status | run external tools with time limits |
| Native feedback | `native_feedback.py` | none: switched off | upload |
| Operator queue, evaluation guard | `operator_queue.py`, `evaluation.py` | dispatch budget | build intents, consume budget |
| Dashboard | `analysis-ui/src` | the tab's session, a tracked request | poll activity, open the new report |
| Deployment scripts | `scripts/deployment` | the Worker's tokens and GitHub's secret | rotate the token, register the app, validate |
| Generators, migration | `generate_*_workflow*.py`, `migrate_execution.py` | none at run time | operator and development tools |

How they interact. The Worker calls the Durable Object over HTTP and each handler
is one storage transaction, so the object's handlers never interleave with each
other; their callers do, because a caller reads, waits on GitHub, and calls
again. The coordinator calls the same queue through `/api/internal/queue/...`
with a lease token and a generation. Publishers share R2 objects without a
compare-and-swap; what orders them is the fence in the queue and the GitHub
concurrency group. A claimed run starts its source lane and its vendor lanes side by
side; the report job waits for the source lane only and takes of the others what they
have retained by then. The vendor lanes of all runs of a project share one SonarQube
project. The hosted pipeline is a second, older path: a scan writes rows and dispatches
runs, a publisher reads both and lists reports, each at its own pace.

What is hard here: leases that run out under a live worker; wakes and completions
that arrive late, twice or never; retries of a launch by idempotency key; a
request that grows while its first claim runs; supersession by a newer revision
or by new tooling; a cutover reset under running workers; pruning; two publishers
of one project; jobs cancelled by the concurrency group; a dispatch without an answer;
a branch that moves between the scan and the publication of its report; a check of
GitHub that answers after a sign-out; a list read page by page while it grows; three
stores whose tokens are changed one after the other.

What makes each part correct:

- queue: a retry finds its request; claims never share a channel; a status agrees
  with its channels; the newest accepted revision wins; a live claim is left alone;
  what finished stays finished; every accepted request ends.
- coordinator: the runs of a project never publish an older revision after a newer one; a
  report that goes back was written back by a pass that had read it before.
- sessions: a code is redeemed once; a session that ended stays ended and none outlives
  its limit; access follows membership within the cache's age; no window of time holds
  more exports than allowed.
- token rotation: GitHub's token is one the Worker accepts, wherever a rotation stops.
- publication: a manifest names only assets that are stored; a failed attempt keeps
  the previous report; merging replaces only the channels that ran; only a publisher of
  another project, writing back late, takes a report away.
- channel evidence: a complete channel was measured, in this attempt, where file names tell
  channels apart and no exit code is taken for a result; a failed job is visible; one
  scanner's trouble costs its siblings nothing.
- hosted targets: a report is shown under the revision it is from; nothing is dispatched
  twice; what is called collected is an ended run of the row's own revision and tooling.
- findings: what is built is accepted and stays valid when annotations are merged; a
  comparison accounts for every finding once and calls none gone that was not measured.
- lanes: what SonarQube calls complete is exact and of this run, unless its branch was
  replaced while the run read it; a failure of SonarQube or CodeRabbit never becomes a zero;
  every lane ends.

`PROJECT.json` lists the hazards with their lines and the properties that cover
them; a hazard without a property says why none does.

## 2. Modules

| Module | Models | Composes |
|---|---|---|
| `ControlPlane` | the queue handlers of `auth-exchange.mjs` | |
| `ControlPlaneProofs` | theorems of `ControlPlane` | `ControlPlane`, `TLAPS` |
| `Coordinator` | the coordinator workflow, the publisher as its runs see it, the cutover workflow | `ControlPlane` |
| `ReportLedger` | what publication promises: one current report per project that only moves forward | |
| `Publication` | the pass of a publisher over the manifests and assets of all projects (`repository_service.py`) | `ReportLedger` (refinement) |
| `PublicationProofs` | theorems of `Publication` | `Publication`, `TLAPS` |
| `ChannelEvidence` | one producer run: scanner jobs, what they retain, the report made of it (`source_identity.py`, `hosted_pipeline.py` and what they call) | |
| `ChannelEvidenceProofs` | theorems of `ChannelEvidence` | `ChannelEvidence`, `TLAPS` |
| `CoordinatorProofs` | theorems of `Coordinator` | `Coordinator`, `ControlPlaneProofs` |
| `HostedTargets` | scan and publication of the hosted pipeline (`github_service.py`, `hosted.py`) | |
| `HostedTargetsProofs` | theorems of `HostedTargets` | `HostedTargets`, `TLAPS` |
| `Sessions` | sign-in, sessions, cached authorization and the export window (`worker.mjs`, `auth-routes.mjs`, `viewer-access.mjs`, `auth-exchange.mjs`) | |
| `TokenRotation` | the rotation of the workflows' token (`rotate_worker_api_token.py`) | |
| `WorkerAccess` | the two kinds of callers the Worker lets in | `Sessions`, `TokenRotation` |
| `WorkerAccessProofs` | theorems of `Sessions` and of `TokenRotation` | `WorkerAccess`, `TLAPS` |
| `ReportBundle` | findings to published bundle, annotations read in pages and merged (`monitoring.py`, `hosted.py`, `github_service.py`, `workflow_annotations.py`) | |
| `FindingHistory` | identity, drift matching and comparison of findings (`monitoring.py`, `baseline_builder.py`) | |
| `ReportContents` | the two uses made of an analysis | `ReportBundle`, `FindingHistory` |
| `ReportContentsProofs` | theorems of `ReportBundle` and of `FindingHistory` | `ReportContents`, `TLAPS` |
| `SonarLane` | the SonarQube jobs of several runs on a shared project | |
| `ReviewLane` | the CodeRabbit collector beside a reviewer at work | |
| `VendorLanes` | the vendor lanes of the runs and the report assembled beside them | `SonarLane`, `ReviewLane` |
| `ProfileTask` | tests, fuzzed API and extension adapters under their time limits (`run_profile.py`, `extension_runner.py`) | |
| `ProducerLanes` | the producers of a run's evidence | `VendorLanes`, `ProfileTask` |
| `ProducerLanesProofs` | theorems of the lanes and of the tasks | `ProducerLanes`, `TLAPS` |
| `MC...` | one instance module per passing run or pair of runs | |

A definition whose name ends in `Fault` is a plausible slip in the definition after it.
No specification uses it; it is there to show that the properties notice.

`WorkerAccess`, `ReportContents` and `ProducerLanes` put components beside each other
that share a boundary and no state: one behaviour follows one of them, chosen at the
start, because interleaving what does not interact would multiply states and show
nothing.

### ControlPlane

One action per handler, each with every write of its transaction. A request id is
the lower-cased idempotency key, so one set `Key` stands for both. Storage keys
are functions: `queue:id:` is `rows`, `queue:dedupe:` is `dedupe`, `queue:active:`
is `index`, `queue:project-latest:` is `latest`; `queue:meta` is `nextAcceptance`,
`generation` and `paused`.

Time is abstract. `lease[t]` counts the ticks before the lease of token `t` runs
out; the claim and its channels always expire at the same instant in the code, so
one number stands for both. The launch times of an actor are the number still in
the window (`recent`), and `Slide` lets any of them leave it; the window itself is
not modelled here.

Every claim response is kept in `grants`, and a holder may use it any number of
times later. This is how late, repeated and reordered heartbeats and completions
enter the model: nothing removes a grant. Wakes are likewise not stored: a hinted
claim may come for any known request at any time. A repeated launch is in the
model too: `Admit` with a known key changes nothing, which is what the handler
does whether the document matches or not.

`queue/complete` carries `published`, `failed` or `superseded`; the handler turns
the last two into the same channel state, so the model has two outcomes.

### Coordinator

A run is named by its lease token. Its stages: `lanes`, `pending` and `publishing`
(the concurrency group), `fenced` (the fence is passed), `writing` or `keeping` (the
publisher will replace the report, or leave it), `written`, then `success` or `failure` of
the publish job, and `over`; `renewing` is the heartbeat job. The concurrency group
follows GitHub's rule for `cancel-in-progress: false`: one job runs, one waits,
and a newer waiting job cancels the one that waited. `KeepReport` is the publisher
that ends well without replacing the report: it saw another coordinator run in
progress (`repository_service.py:760`) or found no valid evidence (`:503`).

A publisher's pass visits every project of the registry. `ReadReport` reads a manifest;
`Write` publishes the run's own report in its place; `WriteBack` writes any other project's
manifest, or its own when it keeps the report, as it was read, whatever happened meanwhile.
`visits` is what was read and not yet written, and `published` remembers what the runs of
each project themselves published last; only properties read it.

Infrastructure faults (a lost claim answer, a binding heartbeat that fails, a
dead heartbeat job, a failed fence or publisher, a lost complete call, a run that
vanishes, a lease that lapses under a live heartbeat job) are counted by `faults`
and bounded by `MaxFaults`.

### Publication

One pass of `reconcile_repository`, split where the code reads or writes storage:
`Begin` (list the workflow runs, read all state manifests), then for each project
`Plan` or `VisitOther`, `SaveState`, `Read`, `Collect` (upload of the assets),
`WriteReport`, `WriteReceipts`, `SaveFinal`. Between any two of them another
publisher may act, and `End` may stop the pass anywhere: a job that ended well, an
exception and a killed runner leave the storage the same way. `End` also lets the
queue record the claimed channels as finished or lose the completion.

A run's id is part of the analysis key of every row its pass visits
(`repository_service.py:666`, `hosted.py:61`). So a row that an earlier run dispatched is
reset to a queued one without a run to collect (`:727`): in its own project the pass
dispatches it again as its own (`Plan`), in any other it leaves it queued and writes back
what it read (`VisitOther`). Only another attempt of the same workflow run would find its own
row and go on with it (`:732`); attempts are not modelled.

What a visitor writes back may have changed since it read it (`Late`). Every such write
enters the project into `overwritten`, a history that only properties read.

`state` and `current` are the two manifests of a project. A `Revision` stands for
the source revision, the tooling and the profile, which the code always compares
together. A report says of each channel which run its complete evidence came from;
that is what merging, reuse and the receipts depend on. Assets are named by their
content, so a report stands for its own assets. A publisher keeps in `copy` the
state manifests it read at the start, in `read` the report manifest it read when it
reached the project, in `next` the one it will write.

What the queue and the concurrency group guarantee is in `Begin`: one publisher per
project at a time, each for a request at least as new as the last one's, with every
channel asked for and not yet recorded as finished. Publishers of different
projects overlap; the workflow's group is per project. `busy` is free when nobody
else publishes, because a run in progress need not be a publishing one.

`ReportLedger` says, without manifests, that a project's report comes from ever
newer requests and never loses a complete channel within a revision, until a late
write-back, which it records (`Overwrite`), and for no other project. The refinement mapping
reads the ledger off `current`.

Abstracted: findings and observations inside a channel, pull-request overlays, the
bounds on remembered receipts (100) and runs (10), the two evidence retries (an
artifact that is missing is a nondeterministic outcome), storage failures (they
end the pass), further attempts of a workflow run.

### ChannelEvidence

This is the inside of the run that `Publication` collects from. `Conclude` ends one
scanner job, well or not, with whatever its channels may have retained by then
(`Leaves`: what `portable_runner.py`, an extension's envelope or a plain scanner job
can leave). A fuzz harness (`ByExit`, in the catalog `atheris`) is completed by exit code 0
without a result file. `Assemble` is the whole report job; its definitions follow the order of
`hosted_pipeline.assemble`: collection by attempt and the marks from job conclusions
(`Collected`, `NativeStatus`), rejected files (`Malformed`), envelopes (`Ingested`),
observations (`Observed`), the evidence contract (`GateStatus`), the channel rows
(`Status0`, `Row`), the correction by file name (`Corrected`), the exclusions
(`Lines`), the gate (`Satisfied`), the final validation (`Raises`) and the verdict
(`Current`). `late` is the set of jobs whose conclusion the jobs API does not show
after the last retry. `Rerun` starts a new attempt of the same run: the evidence of
the attempt before is still there and must not be used.

`Covers` and `Mentions` are the two ways the code relates files to channels: glob
patterns for required channels, and the channel's name inside the file's name.

Abstracted: one result file and one finding per channel; statuses that behave alike
are one (`FAILED` stands for setup and operational failures, `COMPLETED` of an
envelope for policy findings too); deferral is `NOT_APPLICABLE`; the marks of CodeQL
and CodeRabbit, which repeat what the job left, are not modelled; a job that has
ended is listed by the jobs API, with or without its conclusion; the artifact list's
consistency wait and the download retries end in the artifact or in a report job that
fails, and then there is no report.

### HostedTargets

A scan is split where the code saves or calls: `ScanBegin` (read the state, discover,
reconcile, list the runs), `ScanRow` for each row, `Dispatch` or `DispatchFails` with or
without a run created, `ScanEnd`; `ScanCrash` stops it anywhere and leaves what was
saved. The intent of a dispatch is saved before the call. A publisher reads the scan
state, the manifest and the runs (`PublishBegin`), goes through its rows (`PublishRow`,
with collection, the recheck of the target's head and the failures), and writes the
manifest (`PublishEnd`). Meanwhile branches move, close and return, the tooling changes,
an operator asks for a refresh, runs appear late in GitHub's list, end, lose or expire
their handoff.

A row is what `hosted.py` calls a target; `key` stands for its `analysis_key`, the hash
over revision and tooling, and is the tooling it was computed with. One scan and one
publisher are at work at a time (each workflow has a concurrency group). Rows are gone
through in the order `discover` gives them (`Rank`), a scan's refreshed ones first. What a scan
takes for "already published" is the body of a release that nothing writes any more, so
it is empty. A branch and a pull request made from it share a head, and the model has the
reuse of the one's run by the other (`Reusable`) as well as its refusal by `collect`.

### Sessions, TokenRotation, WorkerAccess

A request of the Worker is several transactions of the store with calls to GitHub in
between: `Ask` reads and touches the session and either serves it on a stored
authorization, or joins or begins a check; `CheckAnswers` stores the answer if the
session is still there, or ends the session; `CheckFails` refuses without ending it.
`requests[r].check` says whose check a request waits for, so that requests of one
isolate share one and requests of different isolates do not. Sign-in is three steps
(`SignIn`, `CreateSession`, `IssueCode`), and the code, named by its session, is
redeemed by a request of its own. `members` remembers in which ticks the reviewer was a
collaborator; only properties read it. Ticks stand for the code's times: two idle, three
absolute, two for a code, one for the cache's age and for a check's timeouts.

`TokenRotation` has one action per command of the script and per probe. A command may
have its effect and fail nevertheless, the script then stops and is run again with a new
token; `stored` is what was put into the Worker's store and `served` what its isolates
use. `unpromoted` says of a rotation that it was begun while GitHub already held a token
that is not the primary.

### ReportBundle, FindingHistory, ReportContents

`ReportBundle` builds the hosted report of one analysis (`Build`), validates it as the
publisher does (`Accept`), collects the annotations of the producing run a page at a time
(`ReadPage`, `ReadCheck`: jobs, then for each its check run and the annotations of that)
and merges them (`Apply`). A page may fail, use up the rate limit, or be the last allowed;
jobs and annotations beyond the bounds are cut, and annotations of a level that the
collector does not know are dropped (`Recorded`). A list of records is a function from what
an entry stands for to its identity, so that two entries with one identity are seen. The
merge goes through the annotations in their order: `Merging[n]` is the report with the first
`n` of them, a recursive function, so that it can be proved about.

`FindingHistory` edits code (`Edit`: a problem comes, goes, or lines are put in or taken
out above it), accepts a baseline (`AcceptBaseline`) and compares every later run with it
and with the run before (`Analyse`), with scanners that fail, leave results or have no
row. The similarity of two anchors is the constant `Likeness`; hashes are taken to be
free of collisions.

### SonarLane, ReviewLane, VendorLanes, ProfileTask, ProducerLanes

`SonarLane` follows the steps of the SonarQube job of every run: project, main branch,
rename, scan, poll, pages, verification, status, upload, reconciliation. SonarQube Cloud
computes submissions in their order, and its issue list shows what a branch was computed
from last, which need not be the run that reads; `replaced` remembers of a run that this
changed while it exported, `before` which analyses are older than its own. `ReviewLane`
reads the lists of a pull request while `Reviewer` posts, signals and the head moves.
`VendorLanes` adds Snyk and the report job, which may assemble a report at any moment
(`Assemble`). The repository security posture lane, one request and one file, is left out.
The CodeRabbit job of today is lost before its first step, because its sparse checkout lacks
a module the collector imports; the model has the collector as it is written, and
`ReviewLost`, which may come before the collector or after it, when the upload is lost.

`ProfileTask` is one job that runs a command of a profile; `output` is the file it is judged
by, which the checkout may have brought along; a profile that cannot be read ends the job at
once (`BadProfile`), and the write of the status file is taken to succeed. `Api` is the
server under the fuzzer, which comes up, hangs or exits on its own.

## 3. Runs

| Run | Instance | Question |
|---|---|---|
| `control_plane` | 4 keys, 3 leases, channels a and b, 2 revisions, 2 tooling contexts, two records kept, 3 acceptances, one reset | do claims, retries, merges, supersessions, prunings and completions in every order keep the queue consistent |
| `coordinator` | 2 projects; 2 keys, 2 leases and 2 revisions of one, a key and a lease of the other; 2 generations, 1 fault | can the runs of a project publish an older revision after a newer one, and what else takes a report back |
| `coordinator_recovery` | a request growing from {a} to {a, b}, 3 leases, 1 fault, fairness | does every accepted request end |
| `publication` | 2 projects, 3 runs, 2 channels, two of three requests of one project, of one revision or of two, and one of the other; 2 publishers at once | do crashes between the writes, or the pass of another project, leave manifests that lie or a report that goes back |
| `channel_evidence` | a required channel whose job is watched, a fuzz harness completed by its exit code, an extension; 2 attempts | what does the report say when jobs fail, lose or spoil their output, and when the run is repeated |
| `hosted_targets` | a branch that moves and a pull request at one of its revisions, 1 change, 1 fault, 3 dispatches | is anything shown under a revision it is not from or dispatched twice, and is what is called collected of the row's revision |
| `worker_access` | 1 session and 5 requests, 5 moments, 1 change of membership; 3 rotations | is access recent, do ended sessions stay ended, does the window hold, and is a rotation without lockout |
| `report_contents` | 2 results of 2 scanners, 11 producing runs, pages of 2; 3 like problems on 4 lines, 1 edit | is what is built accepted, does the evidence say when it is not everything, does the comparison account for each finding |
| `producer_lanes` | 3 SonarQube runs of 2 branches, two of them on one, a pull request with 2 reviews and 3 comments, a profile task; fairness | is what is called complete exact and fresh, does a failure ever become a zero, does every lane end |
| `grown_request` (violation) | 1 request, 2 runs | does a pass on valid evidence show every channel that completed |
| `clean_zero` (violation) | the patterns of the reference profile: trivy, and the shipping-image job of two channels; 1 attempt | is a required channel that retained nothing ever shown with zero findings |
| `token_rotation` (violation) | 3 rotations | is GitHub's token accepted at every moment |

Why the bounds are enough to be interesting. Queue: four keys and three acceptances make a
merged key, its row and rows that prune it; three leases a takeover while the first holder
still acts and another request runs; `MaxRecords` is less than the number of keys, so that
runs prune; `LaunchLimit` 1 makes the quota bite; after the reset a run is followed for one
more acceptance and two claims in all (`AfterReset`). Coordinator: the other project's
request is there from the start; its one run is claimed while a run of the first project
writes, reads that project's report before or after and writes it back then, which is all it
can do to it (`OneElsewhere`); keys and leases of the first project are symmetric
(`Exchangeable`). Publication: two publishers of one project are a pass that dies and one
that publishes over what it left, or two that follow each other; the lanes of the third
request end without a publisher (`TwoPublishedInit`), which keeps the run small. The
publisher of the second project is there for its visit: at home it completes and collects
nothing, and while it is at home the others are between two passes or have just written
(`SecondVisits`); its visit itself may fall between any two of their steps. Evidence: the
three channels are one of each kind the report job treats differently, in jobs of their own;
a second attempt is enough for older evidence, because only the current attempt's is told
from the rest. Hosted: a branch moves to a second revision, and the pull request, which is
opened at the first one before or after the branch was analysed there, shares the branch's
run or has one of its own; three dispatches are never exceeded, a fourth adds no state.
Sessions: a sign-in, a redemption, and three requests to race with one another, with one
clock long enough for every limit to pass; a symmetric run with two sessions is larger and
the sessions of one reviewer share nothing but membership. Bundle: pages of two and lists of
up to three put the last page, the bound and the page after it within reach; two of the runs
repeat an annotation and two have one of an unknown level. History: three problems compete
two against one, and the edits shift them by up to one line more than a match may drift.
Lanes: one run whose issues fill the pages an export may read, one without issues, one with
a page too many; two runs of one branch, either of which may replace what the other reads,
and two of two branches.

After a reset the pruning of an old row can delete the dedupe entry of a key used again
(`auth-exchange.mjs:56`): `RetriesRecognised` and `DedupeSound` hold in `control_plane`
across its reset because `AfterReset` follows no run in which a kept row of the older
generation holds a merged key, or a key is in two rows. The theorems say it without the
bounds: all three hold up to the first reset (`BeforeAReset`), and across resets as long as
no row takes a key that another kept row records (`KeysNotReused`). The other theorems
about the queue hold across resets, and `coordinator` has a cutover. Symmetry of keys, tokens,
runs and requests is used where only invariants and action properties are checked.
Deadlock is checked in the runs of the queue and the coordinator; the others have a fixed
number of runs, requests or attempts and stop when those are used up.

The three violation runs are disagreements between the code and its documents: the
second claim of a grown request is held against the first plan (`grown_request`,
`repository_service.py:690`); a required channel takes any file its pattern matches for
its own evidence (`clean_zero`, `channel_status.py:32`); and a rotation that stopped
before the primary was promoted, run again as the document says, overwrites the only
store that holds GitHub's token (`token_rotation`, `rotate_worker_api_token.py:51`).
`AcceptedFromPrimary` is the same property as far as the code keeps it.

## 4. Fairness

`FairSpec` (`coordinator_recovery`) assumes weak fairness of: an unhinted claim by the
schedule (the cron of the coordinator keeps firing); every job that can go on (GitHub
starts jobs and limits their minutes, so each ends or fails); the heartbeat job stopping
once the run is over (180-minute limit); and time. Nothing is assumed of launches, wakes,
operators or faults, and `RequestsSettle` is stated for behaviours in which admission is
in the end open. Faults are bounded: a service that fails for ever settles nothing.

Of the hosted targets no liveness is claimed. No workflow runs `github_service scan`, and the
workflow that a scan dispatches (`github_service.py:351`) accepts only calls from other
workflows (`.github/workflows/11-source-analysis.yml:4`), so GitHub refuses the dispatch: no
assumption about scans would be the code's. The model has refused dispatches (`DispatchFails`)
beside those that create a run.

`VendorFairness` and the fairness of `TaskWork` say that runners work on: a step that can
be taken is, and every command has a time limit. No request has to fail, no lane has to
be lost, and neither SonarQube Cloud nor the reviewer has to do anything: `LanesEnd`
rests on the poll deadline and the page bounds of the code.

## 5. Proofs

`ControlPlaneProofs` proves, for all sets of keys, projects, revisions, channels,
actors, tokens and all positive bounds (the named `ASSUME`s of `ControlPlane`),
that the specification implies the properties below; the proofs use no finiteness.

- `TypeInvariant`: `TypeOK`, and `Fencing`: `ClaimsFenced`, inductive together. The
  argument is row by row (`RowChange`): a step keeps a row, accepts it, merges into
  it, supersedes, claims, completes or cancels it, and each of these keeps the
  claims of the row apart (`ClaimedFenced`, `CompletedFenced`).
- `StatusAgrees`: `StatusMatchesChannels`, from `StatusInv`, which adds what a row's
  status says of each channel (`RowConsistent`).
- `QueueInvariant`: `QueueInv`, that is types and fencing, acceptances handed out in
  order (`AcceptancesInOrder`) and project-latest naming the newest of its
  project's rows (`LatestIsNewest`). The last needs the order, and the generation:
  a reset restarts the counter.
- `NewestRevisionWins`: `NewestPublishes`, from that invariant: a completion
  publishes only when project-latest is its row.
- `FinishedChannelsStay`: `EvidenceIsFinal`, and `LiveLeaseRespected`:
  `LiveClaimKept`, action by action from the same invariant.
- `DedupeIsSound`, `RetriesAreRecognised` and `IndexIsSound`, from `KeysInvariant`. The
  three properties are not inductive one by one: `KeysInv` adds that every row records its
  own key, that no two rows record the same one, and that dedupe and index name rows of
  this generation only. Within a generation the handler sees to the second; after a reset
  the dedupe map is empty, old rows still record their keys, and only the callers, who
  draw a fresh key for every launch, keep them apart. So these theorems are about
  behaviours in which every step satisfies `KeysNotReused`: `Spec /\ [][KeysNotReused]_vars`.
- `BeforeAReset`: until the first reset nothing has to be asked of the callers.

`CoordinatorProofs` proves, for any number of keys, tokens, faults and bounds:

- `CoordinatorUsesQueue`: `CoordinatorSpec => Spec`. Whatever the workflow does, its runs
  change the queue by the queue's own operations, so every theorem of the queue holds under
  them.
- `PublicationsNeverGoBack`: `PublicationsMoveForward`. The invariant `RunInv` says that a
  lease token speaks of the row it was granted for (`TokensOwned`); that no order a run carries
  or a project last published is later than the order project-latest names (`OrdersBehind`),
  which needs `LatestIsNewest` of the queue; that the concurrency group lets one job of a
  project publish (`OnePublisher`); and that a job which passed the fence is not behind what
  was published (`FencedAhead`). `ShownInv` adds that a report, and what a pass holds of it, is
  never newer than what was published last: so the only write that can take a report back is
  one of a pass that read it before. After a reset the same request id may name another
  acceptance, with other claims; therefore `TokensOwned` ties a token to an acceptance and not
  to an id.

`PublicationProofs` proves, for any registry of projects, any requests, channels and
runs and any number of publishers at once (`RequestAssumption`):

- `PublicationTypes`: `PublicationTypeOK`.
- `AssetsAreStored`: `AssetsStored`.
- `EvidenceIsGenuine`: `EvidenceGenuine`.

The invariant is `PubInv`. A manifest is written from what its publisher read
minutes before, so it says of every publisher at work that the manifest it read and
the report it will write are still stored for the project it is at (`Placed`), and
of every stored report, current or superseded, that it is genuine (`AllGenuine`): a
publisher may bring an old one back. The step that needs work is the merge
(`NextReportGenuine`): an old report of the same revision is not the blank one, so it
is stored, so what it keeps is genuine.

For the same constants, whatever publishers overlap and wherever they die:

- `ReceiptsAreTruthful`: `ReceiptsTruthful`.
- `LedgerImplemented`: `ImplementsLedger`. Every write of a publisher is a step of
  `ReportLedger` under the mapping that reads the ledger off `current`, or leaves it as it
  is; the report manifest is the only write that is a step, `Record` in the publisher's own
  project and `Overwrite` when it is written back late.

Both speak of the projects that were never written back late (`overwritten`); of the others the
code promises nothing (section 7). The invariant is `PassInv`. Two publishers at work are of
different projects (`Apart`). Each such project's two manifests fit each other (`Sound`: what
the receipts call decided, and what the newest request planned and completed, is in the
report), whether or not its publisher has written the second of them (`Faithful`, `Visits`,
`Carries`); the publisher of another project writes only
what it read (`Plain`); and the
request at work is the newest that was begun (`Newest`). `OrderAssumption` is the queue's: two
requests of a project differ in the order they were accepted in.

`ChannelEvidenceProofs` proves, for any catalog, any grouping of channels into jobs and
any number of attempts (`ChannelAssumption`):

- `EvidenceTypes`: `EvidenceTypeOK`, with "no report before every job has ended".
- `FailuresAreVisible`: `FailuresStayVisible`.
- `SiblingsAreKept`: `SiblingsKept`, with "the report job never raises".
- `CompleteIsMeasured`: `CountsAreMeasured`. It speaks of each channel of `OwnEvidence`: a
  required one whose patterns match its own file only, any other whose file carries its
  channel's name. Of the catalog's channels it leaves out trivy, whose pattern `clean_zero` is
  about, and those section 7 lists. A fuzz harness is complete by its exit code, and the
  property says so (`ByItsExit`).

The invariant `EvidenceInv` says that what is retained was left by a scanner of a job
that runs (`Kept`) and that a report, once made, is what `Built` makes of the evidence
still retained, for some view of the jobs API (`Genuine`). No job ends while a report
stands, and a rerun clears it, so the second part is inductive; the theorems then are
about one application of `Built`.

`HostedTargetsProofs` proves, for any targets, revisions, inventories and bounds
(`HostedAssumption`; `NoneAssumption`: what stands for "no run" or "no row" is neither):

- `HostedTypes`, from `InOrder`, which is what the other proofs rest on: every run was asked
  for, a scan goes through rows it has, and one that dispatches has saved its intent under
  a request that no other row names (`ScanInOrder`).
- `GenuineReports`: `ShownIsGenuine`. `ShownInv` says of every row of the manifest and of the
  publisher's copy that its asset is stored, of a run that ended with a handoff, and of the
  revision and the target it is shown under.
- `DispatchedOnce`: `DispatchOnce`. `OnceInv` says that while nothing changed the row of a
  target remembers the run dispatched for it (`Remembered`), in storage and in the memory of
  a scan; that a scan which has not come to the target yet read it after the last change
  (`ReadSince`); and that a row about to be dispatched has no such run.
- `CollectedExactly`: `CollectedIsExact`. A row called collected names an ended run of its own
  revision and tooling, its own or one it reuses (`RowsInv`). What `collect` does with a reused
  run of another kind of target is not in it: section 7.

`WorkerAccessProofs` proves, for any handles and requests and any times (`SessionAssumption`):

- `SessionsStayEnded`: `EndedStaysEnded`, and `CodesRedeemedOnce`: `RedeemedOnce`. The
  invariant `SessionInv` adds who may still store a session: a sign-in that goes on is
  the only request that knows its handle, no code is out for it, and before it stores
  the session the handle has not ended (`PendingOwns`); a code that is out was not
  redeemed (`CodeUnused`); two redemptions differ in their session (`RedeemsDiffer`).
- `AccessFollowsMembership`: `AccessIsRecent`. `RecentInv` adds that a check in flight
  was begun no longer ago than its timeouts, and in a tick of membership if it will
  accept (`ChecksRun`); that an authorization, when it was stored, was no older than that
  (`VerifiedRecently`); and the same of an export that waits for the limiter
  (`LimitedRecently`). The bound is the sum of the two: the age of the cache counts from
  the answer, not from the question.
- `SessionsDoEnd`: `SessionsEnd`. `LifeInv` says of every sign-in that was served that its
  session, while stored, ends within its life; that a check of it was begun before that end;
  and that what was served of it, or waits for the limiter, was so before the end and a
  check's timeouts.
- `ExportsStayBounded`: `ExportsBounded`. `ExportsInv` says what the sliding log remembers:
  every export that is not in it is a window old, no window that begins with an export
  holds more than the limit, and whoever was told to wait finds room then. That the delay is
  long enough needs the oldest of the exports in the log, which a least-element lemma picks
  (`LeastNat`, from the library's well-foundedness of the naturals).

It also proves `RotationFromPrimary`: `AcceptedFromPrimary`, for any tokens
(`RotationAssumption`). The invariant says stage by stage what is stored and served: a
rotation begun from the primary keeps GitHub's token in both (`KeptFromPrimary`), and the
probe before the secret is set is what makes the new token served (`StageInv`).
`CallersApart` says that a behaviour of `WorkerAccess`, which is what TLC runs, is one of
`Sessions` and one of `TokenRotation`, so that these theorems hold of it.

`ReportContentsProofs` proves, for any problems, sites, texts and scanners, any likeness
and any thresholds (`HistoryAssumption`, `UnsetAssumption`):

- `FindingsOnce`: `EachOnce`. The argument is that the pairs `StrongMatches` returns are
  one to one, whatever the scores: each is the best of its old finding and of its new
  one. That identity alone tells findings of a document apart is the other half.
- `AbsenceMeasured`: `AbsenceIsMeasured`: a row is NOT_OBSERVED only if every family that
  supported the finding completed, and a completed family that would find it makes it
  part of the run.
- `ShiftsAreFollowed`: `ShiftIsFollowed`. A problem alone of its kind at its site
  and still in its place keeps its identity; one that moved is the only strong candidate of
  its old finding and of its new one, so their pair is among the matches (`ShiftFound`).

And of a bundle, for whatever the scanners reported and the producing run left
(`BundleAssumption`):

- `BuiltAccepted`: `BuiltIsAccepted`. Every occurrence of a result has one entry in one
  channel and one among the origins of one finding, so the counts the validation compares are
  cardinalities of sets in bijection.
- `CollectedHonestly`: `HonestEvidence`, of the annotations whose level the collector knows.
  `CollectInv` says that, unless a fault or a cut was recorded, the rows kept of the list being
  read are all of the pages before this one, and that every job of the attempt is collected or
  still to be read.
- `PublishedValid`: `PublishedIsValid`, and `EvidenceIsKept`: `EvidenceKept`. `MergedTo` says
  what the first `n` annotations have made of the report, and is carried from `n` to `n + 1`
  by one merge (a finding of its own, a supporting origin, a repeated one).
  The library's induction cannot be used here, so the induction is a least-element
  argument: among the `n` where `MergedTo` fails there is a least, it is not 0, and the step
  before it contradicts it (`AllMerged`). `Merging`, being recursive, first has to be shown
  to exist (`MergingExists`), by the same argument. `NotesDiffer` is what the code needs
  (section 7).
- `ContentsApart`: a behaviour of `ReportContents` is one of both modules.

`BundleAssumption` says that a scanner's output is finite, that jobs and annotations come as
lists, and that what an annotation is named by (its check and text) is no observation of a
scanner: the code prefixes the one with `workflow-annotation:` and the other with `obs-v1:`.

`ProducerLanesProofs` proves, for any runs, branches, page bounds, list lengths and scenarios
(`SonarAssumption`, `ReviewAssumption`, `VendorAssumption`, `TaskAssumption`), from `LanesInv`:

- `CompleteStatusIsExact`: `CompleteIsExact`. While a run exports, its branch shows its own
  analysis until that is replaced (`ShowsOwn`), and until then the pages read are a prefix of
  its issues (`ReadOf`). In any case what the branch of a computed run shows is not older than
  its analysis (`NotOlder`), so that no issue of an older one is read (`Newer`); renaming the
  main branch could bring one back only if a branch still had it.
- `ReviewsAreWhole`: `ReviewIsWhole`: the comments promised by the reviews that were read are
  never more than there are to be read.
- `ZerosAreMeasured`: `ZeroIsMeasured`: what a report counts as zero rests on evidence that
  does not change once it is there (`ReportInv`).
- `CompletedTasksAreFresh`: `CompletedIsFresh`, and `ServersEnd`: `ServerEnds`, from `TaskInv`.

The assumption on `None` is that it is not one of the status strings.

Type invariants are proved and not checked by runs of their own; TLC meets a type error
as an error of evaluation. The inductive invariants of the keys (`KeysInv`), the runs
(`RunInv`), the passes (`PassInv`), the hosted rows (`InOrder`, `RowsInv`, `ShownInv`,
`OnceInv`), sessions (`LifeInv`, `ExportsInv`), the lanes (`LanesInv`) and the bundle
(`PublishInv`) were checked by TLC on the instances of section 3: `RunInv` and the
`ShownInv` of the runs with their quantifiers bounded by the domains they speak of, and
`KeysInv` in the states where no two rows have a key in common, as its theorem assumes.

Only model-checked:

- `RequestsSettle` and `LanesEnd`: liveness under fairness is outside the prover's reach.
- `DedupeSound`, `RetriesRecognised` and `IndexSound` of behaviours after a reset in which a
  kept row records a key that another one takes; TLC does so within `AfterReset`.
- What the violation runs find. `PublishedIsValid` without `NotesDiffer` is false, and no run
  claims it.

## 6. Plan

Done: the queue and its proofs, the coordinator over it; publication and its ledger; one
producer run and its report; hosted targets; sessions, the export window and token
rotation; the bundle with its annotations; the history of findings; vendor lanes and
profile tasks.

Proved: every invariant and action property that a passing run checks, with the conditions
section 5 names, and the refinement of the ledger.

To come:

1. Theorems: the writes of the coordinator's runs as steps of the ledger, across claims of one
   request; the actions of `ProducerLanes` as steps of each lane alone, like `CallersApart`.
2. Publication: overlays of pull requests, evidence retries, further attempts of a run, a
   cutover that clears the manifests under a publisher.
3. Launch API: a preview that is stale when it is launched.

## 7. Not modelled

- GitHub retry and app tokens: `Retry-After` arithmetic, minting and redaction; nothing
  is shared between calls but an installation token cached in memory for 50 minutes
  and read again after that.
- Native feedback: `native_feedback_allowed` answers false for every target.
- Operator queue and evaluation guard: its intents are launches with fresh keys, which
  `Admit` has; the guard is called by its tests only.
- Dashboard: presentation, and a run tracker that only reads.
- Execution migration: copied once, between stores nobody else wrote meanwhile.
- Report rendering, scanner parsers, workflow text generators and instance tooling:
  formats and text, no protocol state.
- Of the modelled components: what their notes in `PROJECT.json` leave out, mainly
  pull-request overlays and evidence retries of the publisher, the settings window, the
  launch API's preview and coalesced lookups, the artifact list's consistency wait,
  capability discovery and triage.

GitHub, Cloudflare, SonarQube Cloud, CodeRabbit and the browser appear only through what
the code observes of them.

Behaviour met while modelling that no run records, for a reader of the code:

- A cutover reset clears the claims of active rows only, so that a superseded row which a
  delayed hint claimed keeps its lease (`auth-exchange.mjs:72`), while the test at
  `analysis-launcher/worker.test.mjs:48` says it "fences old leases".
- A publisher that keeps the previous report exits 0 and the request becomes published
  (`repository_service.py:503`, `:760`), against "Ready when its validated report was
  published" (`docs/current/AUTHENTICATED_LAUNCHING.md:95`); it is `KeepReport` in
  `Coordinator`.
- A publisher of another project writes back the manifests it read, whatever was published
  meanwhile (`repository_service.py:613`), so that an older report can replace a newer one,
  against "An older accepted revision cannot replace a newer accepted revision."
  (`docs/architecture/WORKFLOWS.md:67`, also `docs/MIGRATION.md:26`). Both `Coordinator`
  (`WriteBack`) and `Publication` (`Late`) do it. `PublicationsMoveForward` says that nothing
  else takes a report back, `ReceiptsTruthful` and `ImplementsLedger` leave out the projects it
  happened to.
- The fuzz harness `atheris` is completed on exit code 0 without a result file
  (`portable_runner.py:77`) and shown with zero findings, against "A zero count is known only
  for a completed state with a retained measured result." (`CHANNEL_STATUS_CONTRACT.md:23` in
  `docs/current`). `CountsAreMeasured` states it as it is.
- Some files do not carry their channel's name or match another channel's patterns, so that
  `OwnEvidence` leaves their channels out: `schemathesis` (`fuzzing-results.xml`), SonarQube
  (`sonar-native-issues.json`), CodeRabbit (`coderabbit-advisories.json`), the shipping images'
  files, and trivy, which takes an image's file for its own. A malformed file of such a channel
  is charged to nobody, or to another.
- A SonarQube run whose branch is computed again while it reads the issues exports those of the
  newer revision, or a mixture, and is CONFIGURED_COMPLETE all the same, against "proven for
  the exact target revision" (`finalize_sonar_status.py:40`) and "exact-revision verification"
  (`docs/current/CHANNEL_STATUS_CONTRACT.md:27`). `CompleteIsExact` says that this is the only
  way, and that what is read is then never of an older analysis.
- An annotation whose level is none of the collector's is dropped without a diagnostic
  (`workflow_annotations.py:249`, `:350`), so that a complete collection need not have it.
- Nothing runs a hosted scan, and the workflow it would dispatch accepts no dispatch
  (section 4).
- Another attempt of a workflow run finds the row its first attempt dispatched and goes on with
  it (`repository_service.py:732`); any other run resets it. Attempts of coordinator runs are
  not modelled.
- A pull request whose head another target has too (a branch of this repository, usually the
  one it is made from) is given that target's finished run: `analysis_key` knows neither kind
  nor target (`hosted.py:62`, `github_service.py:339`). But `collect` renames a report only
  between branches and commits (`github_service.py:424`), and `accept` wants the row's own
  target (`hosted.py:84`), so the second row is shown as failed, at every publication, until
  its head or the tooling moves or an operator refreshes it. `CollectedIsExact` claims only
  what holds of such a row: the run it names is of its revision and tooling.
- An annotation to which GitHub gives no id is named by a digest of its check, path, lines,
  title and message (`workflow_annotations.py:252`), in which its columns are not. Two that
  agree in these get one id, and `apply` lists both: twice among the findings, when they match
  none, and twice among the observations of the channel in any case. The published bundle
  would not pass the validation it passed before the merge (`github_service.py:385`,
  "duplicate hosted finding identity", "hosted observation provenance does not reconcile").
  Met while `PublishedValid` was proved; `NotesDiffer` excludes it.
- The report job does not wait for the vendor lanes (`reusable-source.yml:1143`): a lane
  that ends later is not in the report of its run.
- `sonar-intermediate` and `vendor-sonar` both carry the exported issues; a status of Snyk
  is complete also when both of its scans failed.
- With the code's margin of 0.15, two drift candidates above the threshold of 0.90 are
  never told apart, so neither is followed.
- A JavaScript test task is completed whatever its exit code, and results of the fuzzer
  that are checked in are not removed before it runs.

What some properties leave out on purpose: `LiveClaimKept` exempts the step of a reset;
`AcceptedFromPrimary` and `SecretAccepted` are about the token GitHub has and say nothing of
the one a running job holds; `ZeroIsMeasured` leaves Snyk out, for which it is false; `Accept` of
`ReportBundle` takes a snapshot of known scanners without findings in `.analysis-tooling`, and
leaves the checks of the run, the revision and the boundary to `HostedTargets` or out; the status
write of a profile task is taken to succeed (`run_profile.py:89` may raise before the API is
stopped, and the job's end is then what stops it).
