# A TLA+ development of the document intelligence platform

This directory holds TLA+ models of the program in this repository, TLC
configurations that check them on small instances, and TLAPS proofs of the most
important results for every instance. It follows the source, not the documents:
where the two disagree the models do what the code does, and section 7 tells the
difference. Source paths are relative to the repository; `backend/` stands for
`apps/backend-services/src/` and `worker/` for `apps/temporal/src/`.

1. The system and its parts
2. How the parts interact, and what is hard about it
3. The modules
4. The runs, their bounds and what they show
5. Fairness
6. What is proved
7. Where the code does not do what is said of it
8. What is not modelled
9. Plan
10. Running the tools

## 1. The system and its parts

A user uploads a document; the backend (NestJS, `apps/backend-services`) stores
it, converts it to a PDF and starts a *graph workflow* in Temporal. The worker
(`apps/temporal`) runs the workflow's directed acyclic graph: OCR at Azure or
Mistral, correction, validation, possibly a gate at which it waits for a human,
and the storing of the result. Reviewers correct results in sessions guarded by
a lock. Around this are the training of OCR models and classifiers at Azure,
benchmarks of workflows against ground truth, and administration.

| Part | State it keeps | Operations | What makes it correct |
| --- | --- | --- | --- |
| Graph engine (`worker/graph-workflow.ts`, `worker/graph-engine/`) | completed nodes, node statuses, selected edges, map results, cancel mode, overall status; in workflow memory, replayed by Temporal | start, batch, settle, error policies, cancel, hooks | runs the nodes routing leads to and no others, in order, once; ends; says "completed" only if it is |
| Map concurrency (`worker/graph-engine/runner-utils.ts`) | promises in flight, results | start, settle, race, all | never more in flight than allowed; all results, or the failure |
| Upload limiter (`backend/upload/upload-normalization-limiter.ts`) | slots, queue; per process | acquire, release | bounded, no lost wake-up, no starvation |
| Document life cycle (`backend/document/`, `ocr/`, `upload/`, worker activities) | document row, OCR result row, blobs, execution record | upload, request OCR, re-run, delete, status activities, purge | status tells the truth about result, files and run; nothing is stuck; nothing is purged too early |
| Review sessions (`backend/hitl/`) | lock row, session rows | start, approve, escalate, skip, reopen, heartbeat, expiry | one reviewer at a time; an approval completes the document |
| Workflow versions (`backend/workflow/`) | lineage with head, versions, hashes | create, edit, promote or apply a candidate, revert, pin, delete | an append-only history without gaps; head and pins are versions of it; an edit is not refused without cause |
| Template-model training (`backend/training/`) | job rows, trained versions, builds at Azure | start, upload, poll, cancel, activate, delete | what a job says and the version it leaves agree; the template keeps one active version; jobs end |
| Classifiers (`backend/azure/`) | classifier rows, blobs, models at Azure | create, train, poll, delete, orphan clean-up | READY means a model exists; nothing in use is cleaned up; nothing is left behind; training ends |
| Benchmark runs (`backend/benchmark/`, `worker/benchmark-workflow.ts`) | run rows, frozen definitions and dataset versions, baseline | start, cancel, finish, delete | a final status is final; no run stays open; what a run used is frozen |
| Ground-truth generation (`backend/benchmark/ground-truth-generation.service.ts`) | job rows, documents, manifest blob | start, process, complete, reopen, sync; uploads and deletions of samples | a completed job's ground truth is in the manifest; one job per sample; results reach a reviewer |
| Groups (`backend/group/`) | memberships, requests | request, cancel, approve, deny | membership only by an approved request |
| Everything else | see section 8 | | |

## 2. How the parts interact, and what is hard about it

The backend and the worker share one PostgreSQL database (Prisma), one blob
storage and the Temporal server. Nobody holds a database lock across calls:
almost every operation is a sequence of single statements, with an `await`
between one and the next, and the status columns are written without a look at
the value they replace. What protects the data is the order of the calls, unique
keys, cascades and conditional updates. The hard behaviours are:

- **interleaving of requests, runs, reviewers and timers** on one row. A
  document's status alone is written by the upload, by `requestOcr` and its
  catch, by two workflow hooks of two activities each, by three activities of the
  graph, by approvals and by deletions;
- **steps decided on what was read earlier**: the re-run's status check, the two
  hooks, the lock check of a start, the purge job's selection;
- **partial failure**: a batch whose first failure rejects `Promise.all` while
  the other nodes go on; the two writes of `ocr.storeResults`; a request that
  stops between two calls;
- **cancellation, time-outs and expiry**: cancel signals of two modes, the 30
  minute execution timeout over a 24 hour gate, locks that expire under a
  reviewer and are revived by a heartbeat;
- **microtask order** inside a workflow: which promises have left an
  array when an awaiting loop resumes;
- **rows whose only tie to the outside is a name or a number**: a classifier and
  its model at Azure, a lineage's next version number, a template's next model
  version, a sample and its ground truth; the name can be taken again while work
  on its former bearer goes on;
- **files that are read, changed and written back**: the manifest of a dataset
  version has three kinds of writers and no lock;
- **two sides of one status**: the backend and the worker both write a benchmark
  run's status, the cron and the upload both write a training job's;
- **a stop of the backend** in the middle of an upload, a loop or a deletion that
  nobody awaits;
- **liveness**: the loops of the engine must end, a queued upload must be served,
  a document must get out of "processing", a training job must end, a model
  without a row must be collected.

`PROJECT.json` lists the hazards one by one, each at its line, with the
properties that cover it.

## 3. The modules

| Module | Models | Composes |
| --- | --- | --- |
| `ReadySet` | `graph-algorithms.ts`: which nodes may start; the structural rules of the validator | |
| `GraphEngine` | one workflow execution | extends `ReadySet` |
| `BoundedTasks` | abstract: tasks that run once each, at most `Limit` at a time | |
| `ConcurrencyLimit` | `executeWithConcurrencyLimit` | implements `BoundedTasks` |
| `UploadLimiter` | the normalization semaphore | |
| `ReviewLock` | sessions and lock of one document | |
| `DocumentLifecycle` | one document between requests, runs, reviewers and purge | the engine's hooks and nodes, and the reviewers, at a coarser grain |
| `VersionHistory` | abstract: a history that is only appended to, with a head in it | |
| `WorkflowVersions` | the versions of one workflow lineage, and the definitions pinned to them | implements `VersionHistory` |
| `Training` | the training jobs and trained versions of one template model | |
| `BenchmarkRuns` | the benchmark runs over one dataset version: backend and workflow | |
| `Classifier` | one name of a classifier: row, background training, cron, deletion, weekly cleaner, Azure | |
| `GroundTruth` | jobs, documents and manifest of one dataset version: generation, reviews, edits | documents and reviews at a coarser grain |
| `MC...` | graphs, loads and setups for TLC | |
| `...Proofs` | theorems about the module of the name; those about `ConcurrencyLimit` are in `GraphEngineProofs`, those about `UploadLimiter` in `DocumentLifecycleProofs` | |

An operator under a comment that begins with "Mutant of" is not part of
a model. It is a plausible slip in the code modelled by the definition it
stands next to, and each property that a run checks fails when a mutant takes that
definition's place; this is how we know that the property depends on the code.

The loop of a map and the semaphore of the uploads are a part of a workflow and a part
of an upload, and their theorems stand with those of the larger part. That is why these
two modules have operators of their own name where the others have `Init`, `Next` and
`Spec`: `LoopInit`, `LoopNext`, `LoopSpec` and `LimiterInit`, `LimiterNext`,
`LimiterSpec`; `LoopSafeSpec` and `LimiterSafeSpec` are the ones without fairness.

### ReadySet and GraphEngine

`graphWorkflow` loads a configuration and runs a loop: compute the ready set,
start all of it, `await Promise.all`, look at the cancel mode, repeat. All its
state is local to the workflow, so a step of `GraphEngine` is what happens from
one await to the next:

| Code | Model |
| --- | --- |
| `loadedGraph` | `config`, a record; any graph of `Graphs` |
| `completedNodeIds`, `nodeStatuses`, `selectedEdges`, `mapBranchResults` | the variables of these names |
| `cancelSignal`, `cancelMode` (`graph-workflow.ts:138`) | `CancelSignal`, `cancelMode` |
| top of the loop to `Promise.all` (`graph-runner.ts`) | `Iterate`, as part of `Start` and `EndBatch` |
| a node's executor returns, or throws and `handleNodeError` applies its policy | `NodeSucceeds`, `NodeSkipped`, `NodeFallsBack`, `NodeFails` |
| the rejected `Promise.all`, the failure hook, the rethrow | phase `"failing"`, `Rethrow` |
| `computeReadySet` and `computeReadySetForSubgraph` | `Ready`, `ComputeReadySet` |
| `validateGraphConfig` | `ValidGraph`, an assumption on `Graphs` |

The workflow context is abstracted: a switch or gate with a fallback edge
selects any edge it could select, and an activity succeeds or fails freely. In
the code a switch settles before anything else can happen after the start of its
batch; the model lets it settle later, which only adds behaviours. While one
failure is being handled the remaining nodes of the batch may still settle, as
they do in the code.

### ConcurrencyLimit and BoundedTasks

An item removes itself from the array `executing` in its own `finally`, and the
loop resumes some microtasks after the race it awaited has settled. `SettleItem` is
an item's end, `Resume` the stretch of the loop from one await to the next, and
between the end that settles the race and `Resume` other items may end. That
window is the module's point: `awaited` (the promises given to the pending
`race` or `all`) and `Executing` differ in it. `BoundedTasks` knows nothing of
all this: a task waits, runs if fewer than `Limit` run, and is done. The
refinement mapping is `status` with both ways of settling read as "done".

### UploadLimiter

A request acquires a slot or queues; the slot's task begins some microtasks
later; `release` hands the slot of a finished task to the head of the queue
without letting anybody in between. A place of `Uploads` is used again by the
next request, so that arrivals never end, which is what makes the absence of
starvation worth checking.

### ReviewLock

A request of a reviewer is a sequence of database calls; a step is one call that
writes, with the reads it depends on. `startSession` is `BeginStart` (no active
lock found), `CreateSession`, `AcquireLock`; approve, escalate and skip are
`CloseSession`, for an approval `CompleteDocument`, then `ReleaseLock`;
`reopenSession` is `BeginReopen`, `ReopenSession`, `AcquireLock`. The calls that
write a session do not look at its status or at who it belongs to, and so
`CloseSession` is enabled for any session and any reviewer. Times are abstracted
to what is asked of them: the lock is active or has expired, the reopening
window is open or closed, and `Expire` and `CloseWindow` may happen at any
moment. `Heartbeat` is the one `updateMany` that refreshes a lock, expired or not.

### DocumentLifecycle

| Code | Model |
| --- | --- |
| the row in `documents`, and its row in `ocr_results` | `doc` (`status`, `result`, `purged`, `execution`); `NoRow` when there is none |
| blobs under the document's prefix | `files` |
| a request, between two of its calls | `request[q]`, the call it makes next |
| the workflow execution that request started | `run[q]`: its phase, whether it is cancelled, and how far each node has got |
| review sessions | `reviewing`: one is open |
| the purge job's work on this document | `janitor`: what is still to be deleted or stamped |

Requests are `uploadDocument` or a ground-truth job followed by `requestOcr`
(`CreateDocument`, `FindDocument`, `ReadFile`, `StartGraphWorkflow`,
`RecordExecution`, and `MarkFailed` for its catch), `reprocessDocument`
(`BeginReprocess`, `CheckSource`, `CheckRunning`, then the same), and
`deleteDocument` (`BeginDelete`, `DeleteRow`, `DeleteFiles`). A run is
`PreExecution`, batches of the nodes that touch the document, and either hook in
its two activities (`ReadAfterSuccess`, `Complete`; `ReadAfterFailure`,
`MarkRunFailed`). `ocr.storeResults` is `StoreResult` and `StoreStatus`, because
it writes the result and the status one after the other without a transaction.
Every write of a status is `SetStatus`: unconditional, and swallowed when the
row is gone. Temporal's rule that one running execution has a given id is part
of `StartGraphWorkflow`.

The engine appears here only as batches over a small graph. Its routing is
`GraphEngine`'s business; this module needs the order of the nodes that write the
document, and that a failing node leaves the rest of its batch in flight. In the
same way a review is here one session that may be approved; who may open it is
`ReviewLock`'s business.

### WorkflowVersions and VersionHistory

Three requests append a version: an edit (`updateWorkflow`, up to
`WORKFLOW_VERSION_APPEND_MAX_ATTEMPTS` tries), the promotion of a candidate into
the definition it was measured with, and its application to the base lineage (one
try). Each reads the number it will use inside the transaction that inserts the
version; under READ COMMITTED other transactions commit between the two, and only
the unique key on lineage and number is between them and a rewritten version. So
`ReadNumber` and `Commit` (or `Retry`, `Reject`) are two steps. `RevertHead`,
`Pin` and `DeleteWorkflow` are single statements, or transactions that read
nothing that can change in between. Configs are model values: what counts is
whether two are equal.

### Training

`startTraining` checks, numbers and creates (`BeginStart`, `TakeVersion`,
`RefuseStart`, `CreateJob`); `uploadAndTrain`, which nobody awaits, is
`BeginUpload` to `RecordFailure`. A round of the cron lists the jobs that are
UPLOADED or TRAINING and have an operation, and asks Azure about them one by one
(`Ask`); a success is `PollSucceeds` (SUCCEEDED is written), `Demote` (the statement that
finds the active versions) and `Insert` (the commit), or `SnapshotFails`. The
users' requests are `BeginCancel`/`EndCancel`, `BeginActivate`/`EndActivate` and
`BeginDelete`/`Tombstone`: a read that decides, and the write. A job creates at
most one version (`training_job_id` is unique), so a version is named by its job.
That rounds overlap is not excluded by `@Cron`, which does not wait for the round
before; `setup.polls` says how many may.

### BenchmarkRuns

| Code | Model |
| --- | --- |
| `startRun`: row, workflow, transaction that records the start and freezes | `CreateRun`, `StartWorkflow`, `RecordStart`, and a `...Fails` of each |
| `benchmarkRunWorkflow`: running, phases, completed, clean-up, catch | `SetRunning`, `Work`, `Complete`, `Clean`, `SetFailed`, and `Tidy` for the clean-up of a failed run |
| the cancellation that reaches an await | `Abandon`: the workflow goes to its catch, whose activities Temporal refuses; a write it no longer awaits is `late` and may still happen (`LateWrite`) |
| `cancelRun` | `BeginCancel`, `AskWorkflow`, `EndCancel` |
| `deleteRun` | `BeginDelete`, `DeleteRow`, `CountRuns`, `ResetImmutable`, `CountOfVersion`, `Unfreeze` |

### Classifier

A name of a group is all that ties a row to its builds and its model at Azure.
`RequestTraining` answers the user at once; `SubmitBuild`, `RecordOperation` and
`RecordFailure` are the background task (`setImmediate`) it leaves. The cron is
`BeginPoll` (rows in TRAINING with an operation), `AskOperation`, `CheckModel` for
an operation that Azure no longer knows, and `MarkReady` (conditional) or
`MarkFailed` (unconditional). `deleteClassifier` is `BeginDelete`, `DeleteRow`,
`DeleteModel`, in this order. The weekly cleaner lists the models at Azure, then
the rows (`ListModels`, `ReadRows`), and deletes what has none (`DeleteOrphan`);
the call is taken to list every model, although it reads one response only.
Azure's side, `BuildEnds`, `OperationExpires` and `AzureDeletes`, is external: a
build may or may not make the model of the build before unavailable, and a
deletion may or may not stop a build.

### GroundTruth

`startGeneration` is `BeginGeneration` to `CreateJobs`, one step for each of its
calls, and leaves a loop (`FindPendingJobs`, then `processJob` for each job:
`CreateDocument`, `LinkDocument`, `RequestOcr`, `RecordWorkflow`, or `FailJob`).
The status of a job follows its document only when somebody looks at the list (the
page asks every five seconds): `ReadJobs` reads the jobs, `WriteJobs` writes those
that moved on (awaiting review and failed together), and `AskTemporal` then asks for
one workflow after the other and has a job that ended silently written by a
`WriteJobs` of its own. A review completes a job in `BeginCompletion`,
`ReadManifest`, `WriteManifest`, `FinishCompletion`. Neither `approveSession` nor
`completeJob` asks for the status of the job; the dataset's review queue lists jobs
that await review or are completed, and `setup.direct` adds the sessions that are
opened without it, on a job of any status whose document has a result. An
upload or a deletion of a sample reads the manifest in `BeginEdit` and writes it in
`WriteEdit`, a deletion then takes the jobs along (`DeleteJobs`). What happens to a
document between its workflow and its review is a coarse view of
`DocumentLifecycle`: `WorkflowEnds` and the hook `CompleteDocument`. A job is named
by the request that created it and by its sample, a document by the loop that made
it and by its job.

## 4. The runs, their bounds and what they show

| Run | States | Question |
| --- | --- | --- |
| `GraphEngine` | 32 475 | Does the engine run what it should, once, in order, and end, on every small graph, under every mix of failures, skips, fallbacks, routes and cancel signals? |
| `ConcurrencyLimit` | 1 689 | Is the loop of a map a concurrency limit, and does it return complete results or see the failure? |
| `UploadLimiter` | 651 | Is the semaphore bounded, free of lost wake-ups and of starvation? |
| `ReviewLock` | 426 496 | What does the lock guarantee for requests one at a time, and what for requests that overlap? |
| `DocumentLifecycle` | 657 721 | Do status, result, files and run agree, whatever interleaves? |
| `WorkflowVersions` | 51 651 | Is a lineage an append-only history under racing appends, reverts and deletions, and is a request only refused with cause? |
| `Training` | 339 988 | Do jobs, trained versions and the active version agree when starts, uploads, rounds of the cron and users overlap and the backend stops? |
| `BenchmarkRuns` | 810 649 | Are outcomes kept, is no run left open, and is what a run used frozen, with two sides writing the status? |
| `Classifier` | 363 828 | Does READY mean a model, is nothing left at Azure, and does training end? |
| `GroundTruth` | 1 208 862 | Is the ground truth of a completed job in the manifest, and is there one job per sample? |
| `MapFailure`, `GroundTruthSync` | | Each shows one sentence about the program to be untrue of the code (section 7). |

**GraphEngine.** `OnlyRoutedNodesRun`: a node starts only along an edge that its
source has taken. `NoNodeOutlivesTheResult`: even an immediate cancellation waits
for the batch. `SettledForGood`: late settlers, skips, fallbacks and later
batches never settle a node twice. `NothingStartsAfterStop`: after a failure or a
cancel signal in a batch no node starts. `SourcesComeFirst`: in a graph whose
paths to a node all have the same length no node starts beside or before one of
its sources. `CompletedLeavesNothingBehind`: in a graph where a node that selects
an edge has no normal edge too, "completed" means that every node a taken edge
leads to has run, unless one of them waits for a node that nothing leads to.
`WorkflowCloses`: every execution ends. These exclusions
are not for convenience: section 7 has the graphs for which the statements
are false without them. The graphs are *all* forward graphs on four nodes in
which at most one node skips, falls back, is a switch or a gate, and a few with a
map and its join, 394 in all; among the plain ones every set of edges, so nodes
that nothing leads to and graphs in several pieces, which the validation only
warns about. Four nodes are the fewest with a join below branches of
unequal length, or below both an error edge and the normal edge it bypasses; the
look-back of `computeReadySet` reaches one edge behind a source, so a longer
chain repeats a shorter one.

**ConcurrencyLimit.** Five items, at most three at once: the window between a
race's settling and the loop's resumption can then hold no, one or several ends,
the loop can start several items at once, and the last `Promise.all` has up to
three. `ReturnsWhenAllSettled`: the results are complete although `Promise.all` is
given only what is left in the array. `FailureWhileAwaitingIsSeen`: a failure in
an await is the failure of that await. `ImplementsLimit`: refinement of
`BoundedTasks`. `LoopEnds`: the loop never awaits a race of nothing.

**UploadLimiter.** Five places for a limit of two: up to three requests queue, so
that the order of the queue matters. `SlotsAreBounded`, `QueueOnlyWhenFull` (no
request waits beside a free slot), `ServedInOrder` (who waits is not overtaken by who
comes later), `QueuedIsServed`.

**ReviewLock.** Two reviewers, three sessions (two that start at once and one
that is closed or reopened meanwhile), and every load: requests one at a time or
overlapping, with or without requests that stop half-way. `LockNamesItsReviewer`
and `OnlyOwnCloseReleases` hold under every load; `SerialStartRespectsLock` when
requests come one at a time, even if they stop half-way. That division is the
result: it says what an unserialised request breaks (section 7). Reviewers and sessions are
interchangeable in everything the run checks and the run has no liveness
property, so the symmetry of both sets is sound.

**DocumentLifecycle.** Two requests, one of which uploads: the second is a re-run
or a deletion, at any moment of the first. The setups are three graphs (the
order of the shipped templates; storing before the gate; storing beside another
node), each without and with the purge; re-runs with the latter two; and
re-runs, failing calls and the purge together with the smallest graph. Two requests are the
fewest for an overlap and for the late activities of one run to meet another run;
for three and more requests only the proofs of section 6 speak. `ExtractedHasResult`
holds in every setup: a document that counts as extracted or complete has its
result, although the two are written apart by one party and deleted, re-run,
approved and completed by four others. `ProgressIsKept` and
`PurgeSparesUndisturbed` are about a document that is not re-run, whose graph has
no parallel nodes, in a backend whose calls succeed: no hook, late activity or
catch takes back what was reached, and the purge never holds a document in
processing. Without these conditions both are false (section 7).
`GetsOutOfProcessing`: however runs and overlapping re-runs end, the
document leaves "processing", unless its run was cancelled or cut short. Under the
same conditions `ProcessingIsCarried` says it without fairness: while the status says
"processing" a request or a run is there that will still change it, so that a request
that is refused, a hook that looks away or an activity that ends late never was the
last one.

**WorkflowVersions.** Two requests of any of the three kinds, three versions, two
configs and one definition. Two attempts stand for the code's three: an attempt
that reads again and an attempt that gives up are both there, and the proofs are
for any number. `ImplementsHistory`: no version is rewritten and none skipped,
and the head is one of them. `RejectedOnlyWhenOvertaken`: an edit or a promotion
is refused only if others have meanwhile appended as many versions as it had
tries, or if an edit read a head that a revert had put back. `PinnedConfigIsKept`: what a
benchmark definition was measured with stays what it was, also when the lineage is
deleted (the database restricts that).

**Training.** Two jobs, in four setups: overlapping rounds with a user who may
cancel; overlapping starts with a user and restarts; two users; overlapping starts
and restarts without users. `OutcomeAgrees`: a job that says SUCCEEDED has its
version or is still held by the poll that will create it, and (rounds alone,
nothing cancelled) a version belongs to a job that says SUCCEEDED. `OneActive`:
exactly one active version while rounds are alone and no user intervenes.
`ActiveIsReplaced`: whatever overlaps, a template loses its last active version
only to a deletion whose check preceded the version's activation. `JobsEnd`: no
job blocks its template for ever, unless the backend stops.

**BenchmarkRuns.** Two runs, of one or of two definitions, over one version of a
dataset, in three setups: prompt calls with deletions that race starts; prompt
calls and a backend that stops; and everything at once without that race. *Prompt*
means that a call takes effect before what is decided after it: a start is recorded
before the workflow writes, a cancellation reaches the workflow before the row is
written. `OutcomeIsKept` and `NoRunIsStuck` need it, and section 7 says what
happens otherwise. `StartedRunIsFrozen` does not: it holds with faults, stops
and late writes, as long as no run is deleted while another one starts. Runs and
definitions are interchangeable and the run has no liveness property.

**Classifier.** Two trainings of a name that is created twice, with failing calls;
two polls that overlap; a backend that stops. Two builds are the fewest for a poll
that still asks for the first while the second is made. `ReadyHasModel` is the
property of the order of the calls: the row goes before the model in a deletion and
the models are listed before the rows in a clean-up. It excepts a name that is used
again while work on its former row goes on. `OrphansAreCollected`: a model without
a row does not stay. `TrainingEnds`: a row does not stay in TRAINING while the
backend lives.

**GroundTruth.** Three setups: two requests, one after the other, with failures and
stops; one request for two samples with uploads, deletions, reopened sessions and
sessions opened outside the queue; two looks at the jobs that overlap, over two
requests, with all of these but uploads and deletions, with failures and with
workflows that are not recorded. The bounds are per setup because each property says
which overlaps it excludes, and the setups hold the others together. Requests that
overlap are in no setup, they more than double the states: the theorems about
`TypeOK` and `CompletedIsListed` cover them, and `OneJobPerSample` excludes them.
`CompletedIsListed` is about the order of the manifest's write and the job's status
under one writer at a time; `OneJobPerSample` about a start that deletes, and a loop
and reviews that go on meanwhile. What `OneAtATime` excludes from it is excluded for
cause: with overlapping looks, with a reopened session, with a session opened outside
the queue and with a workflow that cannot be recorded, each of them alone, two
requests leave two jobs (section 7). A request counts as at work until its loop has
read its jobs, although its user is answered before. Requests are interchangeable,
looks are, and the run has no liveness property.

## 5. Fairness

- *GraphEngine*: weak fairness of the loop and of the settling of a node in
  flight. Temporal keeps driving a workflow; activities have a start-to-close
  timeout and bounded attempts, polls a bounded number of attempts, gates a
  timeout. Cancel signals are not fair.
- *ConcurrencyLimit*: microtasks run, and each branch settles, for the same reason.
- *UploadLimiter*: a granted task begins (a microtask) and a normalization ends.
  The latter is an assumption: the code has no timeout around it. Arrivals are
  not fair.
- *DocumentLifecycle*: weak fairness of serving a request, and of a run, each
  taken as a whole: a call that is awaited returns, and a run goes on. A gate
  passes or is rejected because it has a timeout. Users, reviewers, the purge
  job, faults, cancellation and the execution timeout are not fair.
- *Training*: weak fairness of each upload and each poll, of the cron, and of the
  clock that the limit of `TRAINING_MAX_WALL_CLOCK_HOURS` is compared with. Nothing
  is asked of Azure, of users or of starts: `JobsEnd` rests on that limit.
- *Classifier*: weak fairness of the background task, of builds (Azure ends a
  build), of the cron's rounds and writes; strong fairness of the calls to Azure
  whose answer may be an error, which says that they do not fail for ever. The
  cleaner is fair where it is switched on (`ENABLE_CLASSIFIER_ORPHAN_CLEANUP`, off
  by default): without it nothing collects a model that was left behind.
- *GroundTruth* has fairness for the run `GroundTruthSync` only: requests, loops and
  workflows go on, and so do the looks at the jobs. The result does not depend on
  it: no fairness makes a look come between the two writes.
- *ReviewLock*, *WorkflowVersions* and *BenchmarkRuns* have no liveness property:
  nothing makes a reviewer act; a request to append ends by its bounded tries; and
  that a benchmark's run ends is Temporal's timeout, which leaves the row as it was
  (section 7).

## 6. What is proved

TLAPS checks every theorem for all values of the constants, from the named
assumptions of the module only (`GraphsValid`: the engine runs graphs the
validator accepts; `LimitAssumption`, `MaxConcurrencyAssumption`: limits are
positive; `CreatorAssumption`, `SetupsAssumption`; `MaxVersions` and `MaxAttempts` are
positive; the sentinels are not elements of the sets they are added to; reviewers,
uploads, the jobs, pollers and users of `Training`, and the samples, starts and looks of
`GroundTruth` are finite).

| Theorem | Statement | Argument |
| --- | --- | --- |
| `GraphEngineProofs!RoutingSafe`, `ResultIsFinal`, `SettledSafe`, `StopSafe` | `OnlyRoutedNodesRun`, `NoNodeOutlivesTheResult`, `SettledForGood`, `NothingStartsAfterStop`, for every set of valid graphs | `IInv`: types; `BooksBalance`, which ties node statuses, completed nodes and selections together (a pending node has selected nothing and is not completed, a settled one is completed unless its failure stopped the workflow); and what each phase implies. It is needed because the ready set looks at `completedNodeIds` and the properties at `nodeStatuses`: only their agreement shows that a batch starts fresh nodes (`ReadyIsFresh`). |
| `GraphEngineProofs!JoinsWait` | `SourcesComeFirst` for every levelled graph | `JInv` adds, for every levelling, that no started node is above a running one and that a node at or below a started one that has not started itself is not ready (`AllLevelsInv`); hence the nodes that become ready together are one level above all others (`BatchIsALevel`). The one-edge look-back cannot be wrong if a batch never spans levels. |
| `GraphEngineProofs!NothingLeftBehind` | `CompletedLeavesNothingBehind`, for every set of valid graphs | `SelectInv`: only a node with routes or a fallback selects. Of the nodes a taken edge leads to and that have not completed, take one of lowest rank (`LeastNumber`, from the well-foundedness of the numbers, does for an induction). It waits for a source that has not completed and that the look-back holds to be reachable; without strays and bypasses an edge that was taken leads to that source, which has a lower rank (`NothingReadyNothingLeft`). |
| `GraphEngineProofs!LoopImplementsLimit` | the loop implements `BoundedTasks` | `LoopIInv`: items start in order (`StartedInOrder`), at an await `executing` is part of what is awaited (`AwaitInv`), and `WithinLimit`; then a step that starts `next..Last` is a step of the abstract module or, if it starts nothing, a stutter. |
| `GraphEngineProofs!RoundsAdvance` | each round of the engine closes the workflow or starts a node that had not been started, and no node goes back: the safety core of `WorkflowCloses` | `IInv`: a loop that does not close starts what is ready, and what is ready is fresh (`ReadyIsFresh`) |
| `GraphEngineProofs!BranchesAreBounded`, `LoopIsWoken` | no more branches than the limit; each await was given a promise that is still open (the safety core of `LoopEnds`) | `LoopIInv`, and for the second that the item whose end leaves nothing open settles what is awaited |
| `GraphEngineProofs!ReturnIsComplete`, `AwaitSeesFailure` | `ReturnsWhenAllSettled`, `FailureWhileAwaitingIsSeen` | from `AwaitInv`: whatever executes is among what is awaited, because items only leave between two awaits |
| `DocumentLifecycleProofs!LimitHolds`, `NoLostWakeUp` | `SlotsAreBounded`, `QueueOnlyWhenFull` | `LimiterIInv`: the queue lists each queued request once and nothing else, and the counter is the number of slots held, equal to the limit while the queue is not empty |
| `DocumentLifecycleProofs!QueueIsServedInOrder` | `ServedInOrder`, the safety core of `QueuedIsServed` | from `LimiterIInv`: an arrival is appended, and a release takes the head, so that positions only move up together |
| `ReviewLockProofs!LockReviewer`, `ReleaseIsOwn` | `LockNamesItsReviewer`, `OnlyOwnCloseReleases`, under every load | `IInv`: a request on its way to the lock carries a session of its own reviewer (`RequestInv`), and a session's reviewer never changes |
| `ReviewLockProofs!StartIsSafeWhenSerial` | `SerialStartRespectsLock` | at most one request is in flight (`Single`), and if it is past the check of a start there is no active lock (`FoundFree`); a heartbeat counts as a request |
| `ReviewLockProofs!SerialLockIsOpen`, `SerialApprovalCompletes` | `LockedSessionIsOpen`, `ApprovedIsComplete` | `OpenInv`, `CompleteInv`: a lock on a closed session, or an approved session on an incomplete document, is one the request in flight is about to repair |
| `DocumentLifecycleProofs!ExtractedIsStored` | `ExtractedHasResult`, for any number of requests and any graphs, with faults, purges, cancellations | `ResultInv`: a store between its two writes, a hook between its two activities and an open review each imply that the document, if it exists, has its result; and the upload comes before everything, so a later request never finds the row of another document |
| `DocumentLifecycleProofs!ProgressNeverLost`, `PurgeSparesProcessing` | `ProgressIsKept`, `PurgeSparesUndisturbed`, for any number of requests, any graphs without parallel nodes that report first, with reviews, deletions, cancellations, timeouts and purges | `CalmInv`: one request starts one execution (`OnlyCreatorRuns`); its nodes run in order and none is in flight outside the graph phase, except after a cut (`InOrder`); while the document is in processing nobody deletes, reviews or purges it (`ProcessedAlone`); and whatever could set it back (a start, a report under way, a failure about to be marked) is pending only while it is in processing (`Early`). The last needs the order: a store or gate starts after the report is over, so a late report cannot follow it |
| `DocumentLifecycleProofs!NobodyIsDropped` | `ProcessingIsCarried`, for any number of requests and re-runs and any acyclic graph that reports first and stores a result | `CarriedInv`: one run is open at a time (`OneRun`); a report still in flight is alone in its batch, so that no late report can follow the run's end (`ReportAlone`); a run leaves its graph by a failure or with the result stored, and then the document is out of processing (`StoreDone`, by `GraphIsDone`, which takes the lowest node that is not done); the files are there as long as the row is (`FilesStay`); and a request names a run that nobody has begun (`FreshInv`) |
| `WorkflowVersionsProofs!LineageImplementsHistory` | `ImplementsHistory`, for any number of requests, versions and attempts | `IInv`: the numbers taken have no gap (`Contiguous`), there is a head if and only if there is a version, and a request about to commit has a number whose predecessor is taken (`Informed`). A commit under a number that is not taken is then an append, one under a number that is taken a stutter, and the greatest number of a finite, gapless set exists (`HasGreatest`) |
| `WorkflowVersionsProofs!RejectionsAreEarned` | `RejectedOnlyWhenOvertaken` | `Informed` counts: each attempt but the last was overtaken, so after `attempt - 1` of them the lineage has grown by as many, unless a head was read that a revert had put back |
| `WorkflowVersionsProofs!PinnedConfigsAreKept` | `PinnedConfigIsKept` | a pin names a number that is taken, a commit takes one that is not, and a lineage that is pinned is not deleted |
| `TrainingProofs!OutcomesAgree`, `OneIsActive` | `OutcomeAgrees`, `OneActive`, for any number of jobs, starts, users and restarts | that SUCCEEDED implies a version or a poller is inductive with the types. The other half needs `SerialInv` for one round at a time: `Alone`, at most one poller is at work; `Orderly`, what it asks about is in flight and has no version yet, and a version's job says SUCCEEDED; `Unmoved`, the rows it found to demote are still the active ones |
| `TrainingProofs!ActiveVersionsAreReplaced` | `ActiveIsReplaced`, with overlapping rounds and users | with `Kin`, a version that is activated exists; a demotion and its activation are one commit |
| `TrainingProofs!JobsAreCarried` | a job that blocks its template is carried by its upload or is listed by the cron, unless the backend stops: the safety core of `JobsEnd` | inductive with `Kin`: a job on record has no upload any more |
| `BenchmarkRunsProofs!StartedRunsAreFrozen` | `StartedRunIsFrozen`, with faults, stops and late writes | `FrozenInv`: starts and deletions exclude each other, and a deletion past its count found no other run of the definition, or of the version |
| `BenchmarkRunsProofs!OutcomesAreKept`, `NothingIsStuck` | `OutcomeIsKept`, `NoRunIsStuck`, when calls are prompt | `CourseInv`: a status implies where the workflow is, so a workflow past its last write has nothing late; `CarriedInv`: a run that is pending or running is carried by a request, the workflow or a cancellation that will write it |
| `ClassifierProofs!ReadyClassifierHasModel` | `ReadyHasModel`, for any number of requests, rounds and rows, with failures and stops | `IInv`: before the first row there is no work and no model (`NothingBeforeRows`); while a row exists whose name was not used again too early nobody is about to delete the model, and whatever can still lead to READY (the status, a poll, a build that succeeded and that somebody still hears of: `Heard`) has its model (`RowKeepsModel`). That a deletion takes the row first and the cleaner reads the rows last is used exactly here |
| `ClassifierProofs!TrainingsAreCarried` | a row that says TRAINING is carried by a background task or listed by the cron, unless the backend is stopped: the safety core of `TrainingEnds` | inductive with the types: the one failure that nobody records ends the process, and then there is no row |
| `GroundTruthProofs!CompletedJobsAreListed` | `CompletedIsListed`, for any number of samples, requests, loops and looks | `ManifestInv`: there is one writer and what it has read is still the manifest (`OneWriter`); a job whose sample is not listed is deleted with it or never gets as far as a review (`AbsentIsNotBegun`); and the manifest is written before the status (`Listed`). It needs `SeenIsClosed` and `NewJobs`, which hold under every load |
| `GroundTruthProofs!SamplesHaveOneJob` | `OneJobPerSample`, for any number of requests one after the other (`OneAtATime`), whatever loops of earlier ones still do | `JobsInv`: the rows that a request neither deletes nor creates are those of completed jobs (`RestIsCompleted`), and a completed job stays so: its loop has made its last call that writes to it (`OwnLoop`, `LoopIsPast`), a look that would write to it is stale (`OneLook`, `LooksAreFresh`) and only reviews complete (`ReviewIsOpen`); hence one row per sample (`OneRow`) |
| the type theorems: `TypeCorrect` of six proof modules, `LoopTypeCorrect`, `LimiterTypeCorrect`, `ClassifierTypeCorrect`, `GroundTruthTypeCorrect` | `TypeOK`, `LoopTypeOK`, `LimiterTypeOK` | part of each invariant |

Where `TypeOK` is proved and no invariant of a run (the graph engine, the two
limits, the lock, the life cycle, the versions, training, the benchmark runs), the proof
stands for the check.

`DocumentLifecycle` deserves a remark: `ResultInv` holds because no write ever
takes a result away except the deletion of the row, so whoever has seen the
result may be late. That is the whole protection the code has, and the proof
shows that it is enough for this property. The status has no such protection:
`CalmInv` needs one execution, one node in flight and calls that succeed, and
section 7 has what happens without.

Every invariant and every action property of the runs that pass is proved. Five
theorems state more than a run does: `BranchesAreBounded`, `RoundsAdvance`, `LoopIsWoken`,
`JobsAreCarried` and `TrainingsAreCarried` are about operators that stand in the proof
modules, next to them. The last four, with `QueueIsServedInOrder` and `NobodyIsDropped`,
are what remains of a liveness property when fairness is taken away: there is always a
step to be fair to. That the step is taken, and that enough of them lead to the end, is for TLC.

Only model-checked: all liveness properties (`WorkflowCloses`, `LoopEnds`,
`QueuedIsServed`, `GetsOutOfProcessing`, `JobsEnd`, `OrphansAreCollected`,
`TrainingEnds`), since the prover does not reason about fairness of actions with
quantifiers or about `ENABLED`. Of `OrphansAreCollected` no safety core is stated: it is
that the cleaner may begin whenever there is a model, which is its guard.

## 7. Where the code does not do what is said of it

Two have a run of their own; the counterexample is TLC's output.

| Run | What is said | What happens |
| --- | --- | --- |
| `MapFailure` | `DAG_WORKFLOW_ENGINE.md:1413`: a failure propagates to the workflow | a branch that fails in the microtasks between another's success and the next await has left the array: the map completes with a hole in its results |
| `GroundTruthSync` | `ground-truth-generation.md:41-42`: the workflow stores results, then the job transitions to awaiting_review | the hook at the end of the workflow (`graph-workflow.ts:250-255`) makes the document complete; `syncJobStatuses` (`ground-truth-generation.service.ts:721`) only knows extracted and failed, and takes a workflow that completed for one that still runs: unless somebody looked in between, the job stays in processing |

The others follow from the modules' actions, and the properties of the passing
runs carry the conditions that exclude them.

*Graph engine.* With 1→2→3→4 and 1→4, node 4 starts in the batch of 2: node 3 is
taken for unreachable because nothing *directly* before it has completed
(`graph-algorithms.ts:149`, against `DAG_WORKFLOW_ENGINE.md:793`). When a node falls
back, its normal successor still looks reachable; the join below waits for it,
nothing is ready and the workflow returns "completed" without the join
(`graph-algorithms.ts:154`, against the comment at 84-88). A node that nothing leads
to, the first one of a map's body or one the validation has only warned about
(`validator.ts:703`), is taken for the entry node, which is still to come
(`graph-algorithms.ts:153`): whatever follows it *and* a node that runs is left out
of a workflow that returns "completed". Above twenty items a
branch of a map runs the whole parent graph (`node-executors.ts:287`, against
`DAG_WORKFLOW_ENGINE.md:824`). An immediate cancellation waits for its batch
(against `DAG_WORKFLOW_ENGINE.md:1764`; see `NoNodeOutlivesTheResult`).

*Reviews.* Two starts that overlap both pass the check and the second overwrites
the first's lock (`hitl.service.ts:211`, against `HITL_ARCHITECTURE.md:575`);
`reopenSession` does not look for a lock at all (against
`review-db.service.ts:291-294`); a heartbeat revives an expired lock
(`review-db.service.ts:335`, against the title of the test at
`hitl.service.spec.ts:984`); a closing request does not look at the session's
status (`hitl.service.ts:512`, against `HITL_ARCHITECTURE.md:135-137`); a skipped or
escalated document is in no pending queue again (`review-db.service.ts:142`,
against `HITL_ARCHITECTURE.md:585`). The queue asks for a stored result, which the
shipped templates store after the gate: a document that waits at the gate is shown
to nobody (`hitl.service.ts:113`, against `node-executors.ts:466-467`).

*Documents.* Of two re-runs that overlap the refused one marks the document
failed while the other starts, and the purge deletes the files under the run
(`ephemeral-document-cleanup.service.ts:139`, against the comment at 45-46). With
parallel nodes the failure hook can write "failed" over an `extracted` written
between its two activities (against `graph-workflow.ts:289-290`). A gate may wait 24
hours in a workflow that is cut off after 30 minutes
(`temporal-client.service.ts:243`).

*Workflow versions.* After `revertHeadToVersion` the number after the head is
taken, every try reads the same head and no edit is ever saved again
(`workflow.service.ts:539`, against "config change **appends** a version and updates
head", `WORKFLOW_LINEAGE_AND_VERSIONS.md:12`): the disjunct `behind` of
`RejectedOnlyWhenOvertaken`.

*Training.* Rounds or activations that overlap can leave two active versions: each
demotes what it found, and under READ COMMITTED neither finds the other's. A job
that was cancelled while its upload goes on comes back as UPLOADED and TRAINING
(`training.service.ts:537`) and may leave the active version. The deletion of a
version that was activated after the deletion's check leaves none active. A backend
that stops in an upload leaves a job that blocks the template until it is cancelled.
Any error in asking Azure fails the job.

*Benchmark runs.* A workflow that ends before its start is recorded has its
outcome overwritten with running (`benchmark-run-db.service.ts:439`). A clean-up
that fails after the run was written as completed ends in the catch, which writes
failed (`benchmark-workflow.ts:739`). A cancelled workflow cannot write that it is
cancelled, since Temporal refuses the activities of its catch; `cancelRun` writes it
instead, over whatever the run has become. A workflow that Temporal ends after 24
hours leaves its run running (`benchmark-temporal.service.ts:147`). A run that starts
while the last other one is deleted works on data that is no longer frozen
(`benchmark-run.service.ts:596`).

*Classifiers.* A name that is created again while a deletion, a clean-up, a
background task or a poll of its former row goes on: the new row may be marked READY
without a model, or lose the model it has. Training again keeps the old operation on
record, so that a poll may mark the classifier READY while the new files are still
uploaded; a new build that then fails leaves a status that speaks of the old model.
Any error that Azure answers with passes for an operation that is forgotten
(`classifier-poller.service.ts:76-79`). A backend that stops between TRAINING and
the recorded operation leaves TRAINING for ever; there is no limit in time. A
classifier that is deleted while its training is prepared makes the update in the
task's catch throw where nobody catches it (`azure.controller.ts:495-507`).
`CLASSIFIER_DELETION.md:35` has the row deleted last, the code deletes it first;
`ReadyHasModel` depends on the code's order. The weekly cleaner sees the models of
Azure's first response only (`classifier.service.ts:600-625` follows no link to the
next), so that `OrphansAreCollected` speaks of a model in it. `getTrainingResult` hands a
bare operation identifier to a check that only accepts URLs (`azure.service.spec.ts:111`).

*Ground truth.* Two writers of the manifest at once lose one of the changes
(`ground-truth-generation.service.ts:810`). A failure between the two halves of a
sample's deletion leaves its completed job, so that a sample that is uploaded again
under the name is skipped. A look that was begun early takes a completed job back to
awaiting_review (`ground-truth-generation.service.ts:730`, unconditional). Starts
that overlap leave two jobs for one sample, a job pending at two loops' look is
processed twice, and a job that is completed between `findStaleJobs` and
`deleteJobsByIds` is deleted. Nothing but the review queue asks whether a job awaits
review: a session that is opened by its document's identifier on a job in processing
(`hitl.service.ts:199`) completes it, and a look or the loop then writes over the
status. So does the catch of a loop whose `updateJob` of the workflow's identifier
fails (`ground-truth-generation.service.ts:457`, `472`), although the workflow runs
and its result may have been reviewed. Either way the next start makes a second job.
A loop whose job was deleted throws in that catch, its `Promise.all` rejects, and the
jobs of its later batches stay pending
(`ground-truth-generation.service.ts:254-264`); in `GroundTruth` the jobs of a loop
are one batch. `completeJob` does not look at `frozen`. A backend that
stops after `createDocument` leaves a document in `pre_ocr` that can be neither
deleted nor re-run (`ground-truth-generation.service.ts:437`, against
`OCR_FAILURE_HANDLING.md:22-24`).

## 8. What is not modelled

| Part | Where | Why |
| --- | --- | --- |
| `pollUntil`, map branches and their subgraphs, child workflows | `worker/graph-engine/node-executors.ts` | in the plan; to `GraphEngine` each is a node that ends |
| Retries of an activity whose earlier attempt is still running | `worker/activities/upsert-ocr-result.ts` | an activity is one attempt in `DocumentLifecycle`; a second writer per node is in the plan (`BenchmarkRuns` has late writes) |
| Context and expressions | `worker/expression-evaluator.ts`, `context-utils.ts` | a pure interpreter over JSON; the models let conditions choose freely |
| Schemas of parameters and ports | `packages/graph-workflow` | data formats; the structural rules are `ValidGraph` |
| Groups and membership requests | `backend/group` | in the plan |
| Renaming and copying workflows; candidate lineages | `backend/workflow` | they append no version to the lineage |
| What lies under a model's name at Azure; training data and its validation | `backend/training` | files and remote artifacts |
| Samples, metrics, baseline promotion and schedules of benchmarks; edits of definitions | `backend/benchmark`, `worker/benchmark-sample-workflow.ts` | a sample that fails is part of a result; the baseline is one update in a transaction |
| Upload of training documents, description and use of a classifier | `backend/azure` | single calls |
| Batches of ten, copies and conversions of files | `backend/benchmark/ground-truth-generation.service.ts` | a loop takes its jobs at once |
| The review queue's filter by confidence, corrections, audit events | `backend/hitl` | row-wise reads and appends |
| Datasets apart from their manifest and freezing, evaluators, comparison, OCR improvement | `backend/benchmark`, `worker/evaluators` | record keeping, arithmetic and pipelines around a language model |
| OCR activities and providers | `worker/activities`, `worker/ocr-providers` | remote calls and pure transformations |
| Template models, labelling, tables, confusion profiles | `backend/template-model`, `tables`, `confusion-profile` | single-row operations; a labelling document polled in memory is lost on restart (`template-model-ocr.service.ts:173`), which no model makes clearer |
| Authentication, groups' permissions, API keys, bootstrap | `backend/auth`, `actor`, `bootstrap` | stateless checks |
| Audit, logging, metrics, health, payload codec, insertion slots, blob paths | `backend/`, `packages/` | output only, or pure functions |
| Frontend, image service, CHES adapter, deployment | `apps/`, `infra/`, `deployments/` | clients of the interface, stateless services, configuration |

Temporal itself is not modelled either. Of it the models use: an activity is
retried a bounded number of times and then fails; one running execution per id;
cancellation by signal; termination when an execution is deleted; the execution
timeout; and that workflow code is deterministic, so that its state survives a
restart of the worker.

## 9. Plan

In order of importance; each item names what it composes, the properties to aim at
and the theorems.

1. **DocumentLifecycle, attempts**: a late attempt of an activity that has timed
   out as a second writer beside its retry. Property: a result is not overwritten
   by that of an attempt that was given up; `CalmInv` says which of its parts fail.
2. **Conditions of the theorems**: `SerialStartRespectsLock` as the refinement of an
   abstract lock; `ProcessingIsCarried` with a purge at work; `OutcomeIsKept` and
   `NoRunIsStuck` for calls of which only some are prompt; `CompletedIsListed` with
   failures beside edits, for samples whose deletion did not stop half-way.
3. **NodeExecutors**: `pollUntil` with attempts, deadline and delays; two gates
   with one signal name; a child's cancellation; branches of a map above and below
   the limit of twenty.
4. **Membership** (`backend/group/group.service.ts`): requests that are read as
   pending and written later, by the user who cancels and the admins who decide.
   Property: membership only by a request that says approved.
5. **Baseline promotion** of benchmark runs: one baseline per definition.

## 10. Running the tools

In this directory, `tlc -workers 2 -config GraphEngine.cfg MCGraphEngine` checks a
run (`PROJECT.json` lists module and configuration of each), and
`tlapm GraphEngineProofs.tla` a proof module. No run takes longer than a few minutes
on two cores, and no proof module does. Deadlock checking is off where a system may
rightly stop (a workflow that has closed, a loop that has returned, requests, names,
sessions or versions used up), and on for `UploadLimiter`, where arrivals never end.
