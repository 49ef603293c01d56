# Verification of K8s Adaptive Workflows

TLA+ models of the AdaptiveWorkflow operator, checked with TLC on small
instances. Every safety property of the passing runs is also proved with TLAPS,
for every value of the constants.
Source paths below are relative to the repository root.

## The system

| Component | Source | State it keeps | Operations | Model |
|---|---|---|---|---|
| Controller | `internal/controller` | none of its own: a pass works on an in-memory copy of the workflow object | `Reconcile`, `syncPodsToStatus`, `createTaskPod`, `computeResourceUsage` | `AdaptiveWorkflow` (one workflow, step by step), `Cluster` (several, pass by pass) |
| API types | `api/v1` | spec, task statuses, workflow phase, usage | – | `Scheduling`, `AdaptiveWorkflow` |
| Go optimizer | `internal/optimizer` | none | `Plan`, `resolveResources` | `Scheduling` (result), `Optimizers` (loop) |
| Optimizer client | `internal/grpcclient/optimizer_client.go` | connection | `Plan` with conversions | `Optimizers` |
| Optimizer services | `cmd/optimizer` (Go), `optimizer-service` (C++) | none | `Plan` with conversions | `Optimizers` |
| Baseline inference | `internal/inference` | none | `Predict` | `Scheduling` |
| Inference client and engine | `internal/grpcclient/inference_client.go`, `inference-engine/server.py` | model, database connection | `Predict`, `ReportMetrics` | `Feedback`; a set of forecasts in `AdaptiveWorkflow` |
| State database | `internal/statedb` | execution rows | `RecordExecution`, `GetHistoryByImage` | `Feedback`; `records` in `AdaptiveWorkflow` |
| Manager | `cmd/main.go` | choice of the components above | – | `Predictions`, `View`, `Connected` |
| CLI and UI backend | `cmd/kwf` | none | submit, delete, status, list | `Kwf`; `UserCreate`, `UserUpdate`, `UserDelete` in `AdaptiveWorkflow` |
| Web UI, training, generated code | `ui`, `inference-engine/train_model.py`, `proto/gen` | – | – | not modelled |

How they interact: users write the spec of a workflow object; watch events
put its key into the controller's queue; one worker runs `Reconcile`, which
reads the object and the pods from informer caches, asks the inference engine
and the optimizer, creates pods and writes the status; the kubelet runs the
pods, the garbage collector removes those whose owner is gone. Everything the
controller knows after a restart is in the stored object and the pods.

What is hard here: every decision is made on caches that lag behind the
controller's own writes; pods are created before the status write that records
them, and that write may be rejected or its reply lost; a restart may fall in
between; the workflow may be edited, deleted and created again under the same
name meanwhile; quantities are rounded between the controller and a remote
optimizer; two optimizers in two languages should decide alike; clients read
and then write; workflows may come to the same pod name; the engine and the
manager decide once, when they start, whether they have a database. `PROJECT.json`
lists these hazards at their lines.

## Modules

* `Scheduling` – data shared by all: resources, manifests, task statuses, and
  the greedy schedule as a predicate (`IsGreedyPlan`: a ready task is chosen
  exactly when it fits next to what runs and what was chosen before it). Which
  tasks of a manifest can never start is `Unstartable`: the largest set of tasks
  that are too big by themselves, wait for an unknown name, or wait for one
  another.
* `AdaptiveWorkflow` – the controller reconciling one workflow name, with the
  API server, both informers, kubelet, garbage collector, user, state database
  and restarts.
* `WorkflowContract` – the abstract specification: what someone who watches
  the stored object may see (`Submit`, `Edit`, `Remove`, `Admit`, `Advance`,
  `Conclude`), without caches, pods, passes or crashes.
* `AdaptiveWorkflowInvariants` – the inductive invariants: `Inductive` (versions,
  order, ownership, verdicts) and `Accounts` (resources, records, pods).
* `AdaptiveWorkflowProofs`, `StatusProofs` – the theorems that rest on the first
  and on the second.
* `Kwf` – the users: `kwf submit` and the dashboard's POST as a read and a later
  create or update, deletion, and what `kwf status` and `kwf list` print as
  functions of the stored object.
* `Cluster` – `Kwf` composed with one controller worker, its queue and one name
  space of pods for several workflows; `EachKeepsContract` instantiates
  `WorkflowContract` for each of them.
* `ClusterProofs` – the theorems about `Cluster` and their inductive invariants.
* `SchedulingProofs` – sums over finite sets, and what a greedy plan guarantees.
* `Quantities` – resource lists of the Go code and of the wire format.
* `Feedback` – the learning loop of controller, inference engine and state
  database, with outages and restarts of each.
* `Optimizers` – the in-process optimizer, the Go service and the C++ service
  answering the same call side by side, with the wire conversions.
* `QuantitiesProofs`, `OptimizersProofs`, `FeedbackProofs` – the theorems about
  these three.
* `MCAdaptiveWorkflow`, `MCCluster`, `MCFeedback`, `MCOptimizers` – instances for
  TLC.

### The controller model

`Reconcile` is sequential, so its program counter `pc` and its local variables
(`wf`, `plan`, `todo`, `toRecord`) are variables, and each call that another
party can observe or disturb is a step: `Get`, `RemoveFinalizer` /
`AddFinalizer`, `InitStatus`, `SyncPods` (the cached listing) with one
`RecordExecution` per finished task, then `MarkFailed`, `MarkCompleted`, or
`Plan` followed by one pod creation per planned task (`AdoptTaskPod` when the
cache shows a pod of that name, `TaskPodExists` when only the API server knows
it, `CreateTaskPod`, `CreateTaskPodError`) and `SaveStatus`. The error returns
of the code are the failing alternatives of `UpdateAndReturn`,
`AddFinalizerError` and `PlanError`.

* `api` is the stored object with its `resourceVersion`, `stream` the stored
  versions the informer may still deliver, `cache` what it shows. The informer
  may skip versions and never goes back. A write that carries an outdated
  version is rejected; one that changes nothing stores no new version.
* `pods` and `podCache` are the stored and the cached pods. Each pod is cached
  on its own, which allows more orders of delivery than one watch stream.
* A lost reply is a write that took effect and is reported as an error.
* `succeeded` and a pod's `needs` are ghosts: which pods ran to success, and
  which dependencies a pod's task had when the pod was created.
* A stored usage is kept as its summands; its `Total` is the stored quantity.

Left out: durations and the ten-second requeue (a requeue is a requeue),
conditions and events (functions of the rest), images, commands and limits.
Task names within a spec are assumed to be distinct. One workflow name is
modelled here; what workflows do to each other is in `Cluster`.

### The cluster model

A pass of `Reconcile` is one step (`PassNothing`, `PassDeleted`, `PassInit`,
`PassFailed`, `PassCompleted`, `PassPlan`, one per way it returns), on any name
that waits in `queue`; priorities, back-off and requeue delays only choose among
them. That coarsening, and caches that are up to date, are what
`AdaptiveWorkflow` is there to do without. A client's submit stays two steps, so
that passes, other submits and deletions fall between its read and its write. A
create carries no version and fails if the name is taken; an update carries the
version that was read; an update never touches the status, which is a
subresource. `PodName` is any naming: across workflows names may be equal, as
`a` + `b-c` and `a-b` + `c` are, and within one, as lowercased task names may be;
of two tasks started in one pass under one name the first gets the pod.

A task that finds another workflow's pod under its name counts as started and
then waits for a pod with its own labels, which nobody creates: it never ends
and is never taken for done (`OwnResults`). `EachDecided` names that as one of the
ways in which a workflow may wait for ever (see "Where progress ends"). Garbage
collection removes the pod in the way only with its owner, and the task stays
Running after that too, as in `v_lost_pod`.

### The feedback model

Of a pass only the calls of the loop are left: `StartPredicted` and
`StartUnpredicted` (the forecast call fails and the pass goes on with empty
predictions), `Sync` (record, then save the status or be rejected and repeat).
`Forecasts(t)` is what the engine may answer for a task: the model's answer, any
of `Estimates` with headroom and floor, where there is history and a model;
nothing where there is history and no model (the multiplication raises, which
fails the call for all tasks); the hint with its zero parts filled in; or the
default. `rows` holds the rows younger than 30 days; `Expire` and the bound
`MaxRows` let the oldest leave. `engine.db` is `lost` from a refused connection
or a broken one until the engine is restarted; `stateDB` is `noop` from a failed
ping until the manager is; a manager that did connect has a pool that connects
again by itself. `ReportMetrics` is called by nobody in the repository; in the
model somebody calls it with runs that ended and a usage from `Measured`.
What a run really used is in no variable, because the controller reads no
metrics: `syncPodsToStatus` records the request the pod was given ("a proxy", as
its comment says). The ghost `granted` is therefore the requests of the pods that
succeeded, in the Go quantities before any conversion, and what was reported of
them; `HistoryOfGrants` compares the averages the engine reads with those.
External and taken from how `server.py` uses it: psycopg2 returns `AVG` of a
`BIGINT` column as a `Decimal`, which does not multiply with a float.

### The optimizer model

`Unit` fractions make one milli-CPU and one MiB; the code's values are 10^6
(nano-CPU) and 1024 * 1024. A quantity the wire cannot hold is rounded up (CPU)
or down (memory) by `Wire`; `Quantity` is the way back. Each server's loop is a
sequence of `Skip` and `Take` steps over the tasks of its `view`; `Answer`
converts what was scheduled for the controller, `CallError` is the call that
fails or times out.

## Runs

| Run | Instance | What it shows |
|---|---|---|
| `core` | fork of three tasks, tight budget; failing pods, unreliable API, one restart | dependency order, justified and final verdicts, the stored status within the budget, allocations equal to the pods' requests, history before success, no second start, no regression, the contract, both inductive invariants |
| `lifecycle` | chain of two, two incarnations; deletion, garbage collection, lost pods; fair | no pod without its owner, the contract across incarnations; each incarnation reaches a verdict or waits for ever for a task without a pod of its own |
| `respec` | chain edited to a wider spec, with two tasks that share a pod name; changing forecasts, failing optimizer and database, one restart | order, justified verdicts, contract and single start while spec and status disagree; a task is not declared done by another task's pod |
| `liveness` | two tasks that exclude each other, and manifests with a cycle, an unknown dependency, a task too big for the budget and no task at all, each edited to any other; failing pods, deletion, one restart; fair | a workflow that can be carried out reaches a verdict or waits for ever for a task that the edit dropped; in the others the startable tasks are done, and without an edit Completed is never shown; every deletion finishes |
| `cluster` | two workflows that meet on a pod name, one without tasks at first; two clients, two submits, two incarnations; failing pods and API calls; fair | no result of another workflow is taken, no manifest is overwritten unseen, each status keeps the contract, status and list agree, workflows that can finish do or wait for ever for a task without a pod of its own, deletions finish |
| `feedback` | two tasks with an image each and one repeated run; outages and restarts of database, engine and manager, failing calls | forecasts ask for something and stay below their limits, averages are, up to rounding, within what successful runs of the image were given or reported with, and without the model's word requests equal the baseline's |
| `optimizers` | 1080 inputs with fractional, missing and zero quantities | each loop keeps its invariant and ends with the greedy schedule, rounding keeps the budget, implementations agree on plain input, limits cover requests |

Bounds: three tasks are the fewest with a dependency, a parallel task and a
budget that excludes a pair (`fork`); one restart can fall between any two
steps of any pass, which every property of these runs is about (the theorems
hold for any number of them, and for `lifecycle`, which has none, too); two incarnations (`MaxUid`) and two specs (`MaxGen`) are the fewest that
differ; `records` counts 0, 1 and "more than one". In `cluster` two submits are the
fewest that race; the workflow that is there from the start (`Installed`) saves a
third. In `feedback` two rows (`MaxRows`) are the fewest with a duplicate and an
average, one repeated run (`MaxRuns`) is what history needs to be used, and the
usage in `Measured` is above every forecast so that a foreign row would show. `Unit = 2` makes odd
quantities those that need rounding. `CHECK_DEADLOCK FALSE` is set because a
workflow that reached its verdict, or an answered call, rests.

Fairness (`Fairness`): the controller's step, delivery by each informer and the
end of each started pod are weakly fair. The work queue retries failed passes
and watches are re-established, which justifies the first two; the third is an
assumption about the tasks. Failures, users, losses and restarts owe nothing.
`liveness` and `lifecycle` leave API failures out: a call that fails for ever
justifies no progress, and that a call which fails now and then is repeated until
it succeeds is not checked. In `cluster` (`FairSpec`) each waiting name gets its pass and each
started pod ends; a name that queues itself again, as a workflow without tasks
does, is held back by the rate limiter or the requeue interval, so it cannot
keep the worker to itself. That is assumed of controller-runtime, not shown. Users and the garbage collector owe nothing, and the
failing calls there are the clients'.

### Where documents and code disagree

Each `v_` run finds a counterexample to a sentence of the repository
(quoted under `findings` in `PROJECT.json`):

* `v_pod_budget` – a pass on a stale cache creates pods next to ones it does not
  see; together they exceed `MaxResources`. The stored status never shows it
  (`StatusBudget` holds), because the write of that pass is rejected.
* `v_respec_completes` – a task added by an edit can be missing from the
  statuses when the others finish; the workflow is Completed without it.
* `v_adopted_pods` – pods are found by label, so a workflow created again takes
  over results of its predecessor.
* `v_lost_pod` – a task whose pod was deleted stays Running for ever. The run gets
  there without any fault: a workflow is deleted and submitted again, adopts the
  pod of its predecessor, and the garbage collector removes it. A pod deleted by
  somebody else has the same effect.
* `v_history` – with history and no model, forecasting raises and the call fails,
  for every task of the workflow; tasks get their hints or the default.

Seen while modelling, and visible in the model, but not kept as runs because
one reading of the code shows them: a Failed workflow keeps the usage of an
earlier pass (step 6 does not recompute it); failed tasks leave no row in the
state database; what is recorded as `ActualCPU` and `ActualMemMiB` is the allocated
request (`adaptiveworkflow_controller.go` 320–334), where `documentation.md` 221
and 403 and `schema.sql` 10 say actual usage, so the history the engine averages is
the history of its own forecasts and of the hints; a success is recorded twice
when the status write after the insert is rejected, and not at all when the insert
fails; nothing calls `ReportMetrics`; an adopted pod is stored with the resources of the new plan
(`AllocationMatchesPod` holds in `core` because the baseline engine's forecast
never changes); a workflow without tasks is initialised again by every pass and
never ends; `submit` creates on any read error where `documentation.md` says "if
not found" (the create then fails, `NoBlindOverwrite` holds); the engine fills in
the missing half of a hint where `documentation.md` says "verbatim"; the C++
server replaces a hint that arrives as zero by the default, the Go server takes
it (`ImplementationsAgree` is for plain input); the Go service drops the limits
of a hint and the client then sets them to zero, below the requests (exempted in
`LimitsCoverRequests`).

### Where progress ends

`EventuallyTerminal` and `EachDecided` hold for every incarnation and every edit the
runs make, and name the cases in which the code waits for ever. Besides manifests
that cannot be carried out there are two:

* a Running task that has no pod of its own and never gets one. `createTaskPod`
  counts any pod of that name as the task's (lines 377–378), also one of the
  deleted predecessor, of another workflow or of another task, and
  `syncPodsToStatus` only looks at pods that are listed. If the predecessor's pod
  ends before it is collected its result is taken (`v_adopted_pods`); if it is
  collected first the task stays Running (`Unattended`, reached in `lifecycle` and
  `cluster`);
* a Pending task that an edit dropped from the spec. Its key stays in
  `TaskStatuses`, no plan has it, and Completed needs every key to be Succeeded
  (lines 178–185) (`Dropped`, reached in `liveness`).

Each exception is needed: without `Unattended` the property fails in `lifecycle`,
without `Dropped` in `liveness`.

### Properties with a condition

Where the code makes no promise, the property says so:

* `StatusBudget` and `ViewsAgree` are for a spec that was not replaced;
  `CompletedCoversSpec` is false otherwise (`v_respec_completes`), and after an edit
  `kwf status` and `kwf list` do count differently.
* `AllocationMatchesPod` and `StuckNeverCompletes` are for the in-process baseline
  (`Forecasts = {}`): a remote engine may change its mind between a pass that is
  lost and the next. `StuckNeverCompletes` is also for the first spec.
* `RunsOnce` is without foreign pod deletions.
* `RecordedBeforeSucceeded` is while inserts succeed, and says nothing of rows
  that are inserted twice.
* `PlanKeepsBudget` is for maxima that arrive at the server as such: one below a MiB
  is truncated to zero, which means none.
* `ImplementationsAgree` is for plain input; a hint of zero is decided differently.
* `LimitsCoverRequests` exempts the limits that the Go service drops.
* `HistoryOfGrants` bounds averages; it does not count rows.

## Proofs

`AdaptiveWorkflowProofs` proves, from `ManifestAssumption` and
`ControllerAssumption` only (finitely many task names, well-formed manifests,
any pod naming, any forecasts, any disturbances, any bounds):

| Theorem | Property |
|---|---|
| `TypeCorrect` | `TypeOK` |
| `Invariance` | `Inductive` |
| `DependenciesFirst` | `DependencyOrder` |
| `VerdictsJustified` | `VerdictJustified` |
| `VerdictsAreFinal` | `TerminalIsFinal` |
| `PodsHaveOwners` | `NoOrphanPods` |
| `PhasesAdvance` | `PhaseNeverRegresses` |
| `Refinement` | `KeepsContract` (implements `WorkflowContract`) |

The argument. None of these is inductive alone, because a pass acts on what it
read and not on what is stored. `Inductive` has five parts:

1. `Versions` – the cache and everything the informer may still deliver are
   stored versions, and the resourceVersion tells the latest apart. So a write
   that is accepted was computed from the object that is stored.
2. `InMemory` – as long as that is the case, the pass has changed the object only
   in ways the contract allows: finished Running tasks, and begun tasks whose
   dependencies it sees as Succeeded. This gives the refinement, finality and
   monotonicity.
3. `Evidence` – whatever says Succeeded, stored, cached or in memory, has a pod
   that ran to success. This gives dependency order, for stale passes too.
4. `Ownership` – a version with the finalizer and no deletion mark that can still
   be read, and a pass that acts on one, belong to the stored object. Only the
   controller removes the finalizer, and only after it has seen the deletion, and
   caches do not go back. This gives `NoOrphanPods`.
5. `Verdicts` – a stored verdict fits the stored task phases.

`StatusProofs` proves, from the same two assumptions:

| Theorem | Property |
|---|---|
| `AccountsHold` | `Accounts` |
| `BudgetKept` | `StatusBudget` |
| `RecordsFirst` | `RecordedBeforeSucceeded` |
| `AllocationsMatch` | `AllocationMatchesPod` |
| `StuckStaysOpen` | `StuckNeverCompletes` |
| `StartedOnce` | `RunsOnce` |
| `CompletionCovers` | `CompletedCoversSpec`, for `MaxGen = 1` |

`Accounts` is about every version of the object that a pass may still read, not
only the stored one, because a pass plans from any of them; and about the middle
of a pass, because pods are created one by one. Its parts:

1. `AllSound` – while a version has its first spec, its running tasks and its
   usage are within `MaxResources` and its statuses are empty or have exactly the
   tasks as keys; with the baseline, running tasks hold what the baseline says
   and no task is started that never can be.
2. `Affordable` – what the pass has yet to start fits next to what runs in its
   copy. It comes from `GreedyKeepsBudget` when the plan is made, and each `Start`
   moves one summand from the plan to the statuses.
3. `Recorded` – every version's successes are in the database; those of the pass
   are there or about to be.
4. `Incarnations`, `PodsAccounted` – no version and no pod is of a later object than
   the stored one; a pod of the stored object requests what the baseline says; a
   pod that succeeded stays while its owner does, so the create that would start
   its task again is refused.

`SchedulingProofs` is the arithmetic under this. `Total` is a fold over a set, so
what it computes needs induction over finite sets. That is done by minimal
counterexample (`SubsetInduction`: strict inclusion on the subsets of a finite set is
well-founded, and `WFMin` takes a set, not an operator): sums exist and are unique
(`SumExists`, `SumUnique`), and the lemmas on adding, removing, comparing, scaling
and bounding sums follow. `GreedyKeepsBudget` – a greedy plan next to running tasks
within the budget stays within it: consider the last task taken. `GreedyUnique` – two
greedy plans over the same order with the same answers to "is it ready" and "does it
fit" are equal: consider the first task they differ on.

`OptimizersProofs` proves, from `UnitAssumption` and `OptimizersAssumption` (any unit,
any set of well-formed inputs of any size):

| Theorem | Property |
|---|---|
| `TypeCorrect` | `Optimizers.TypeOK` |
| `LoopsKeep` | `LoopInvariant` |
| `LoopsAreGreedy` | `LoopIsGreedy` |
| `PlansKeepBudget` | `PlanKeepsBudget` |
| `OptimizersAgree` | `ImplementationsAgree` |
| `LimitsCover` | `LimitsCoverRequests` |

`LoopInvariant` is what each loop keeps on its way: the running total is the sum of
what runs and what was taken, and of the tasks looked at a ready one was taken
exactly if it fitted next to those before it. At the end of the loop that is
`IsGreedyPlan`, which is also what links the loops to the controller's model. For
the budget, `QuantitiesProofs` bounds what rounding does to one quantity and
`SchedulingProofs` carries it through the sums; agreement is `GreedyUnique` applied to
the views of two servers, which on plain input differ by a factor only. Limits are
covered if those of the input are: a hint whose own limit is below its request is
passed on as it is.

`FeedbackProofs` proves, from `UnitAssumption` and `FeedbackAssumption` (any tasks,
images, hints, model answers, outages and bounds):

| Theorem | Property |
|---|---|
| `TypeCorrect` | `Feedback.TypeOK` |
| `ForecastsAreUsable` | `ForecastsUsable` |
| `ColdStarts` | `ColdStartIsBaseline` |
| `LearnsGrants` | `HistoryOfGrants` |

`RowsKept` is the strengthening that `HistoryOfGrants` needs: each row of a success
differs by less than a unit from the requests of a pod of that image that succeeded,
or from what was reported of one, and the requests of each ended pod that a repeated
`Sync` will record are among them. `ConversionsNear` says what `MilliValue` and the
division by a MiB do to one quantity; an average of the rows, rounded down, lies
between the least and the most of them (`TotalBetween`), and these are near what was
given. What the runs used does not appear in it. `ForecastsUsable` and
`ColdStartIsBaseline` are about the allocation that a task was started with, so they
are invariants by themselves once the priority chain of `Predict` is taken apart.

`ClusterProofs` proves, from `ManifestAssumption`, `KwfAssumption` and
`ClusterAssumption` (any number of workflows, clients, submits and re-creations,
any pod names, shared by workflows or by tasks of one, failing calls or none):

| Theorem | Property |
|---|---|
| `ClusterTypeCorrect` | `Cluster.TypeOK` |
| `OwnResultsHolds` | `OwnResults` |
| `NoBlindOverwriteHolds` | `NoBlindOverwrite` |
| `EachRefines` | `EachKeepsContract` |
| `ViewsAgreeHolds` | `ViewsAgree` |

The invariant `Inv` adds two facts to `TypeOK` and `OwnResults`. `ReadsAreStored`:
what a client read is not newer than the stored object, and under the same
resourceVersion it is the same incarnation and generation; it is kept because
every write goes through `Stored`, which raises the version of what it changes.
With it the version check of an update says what `NoBlindOverwrite` says.
`PodsVouch`: a pod that succeeded is recorded under the labels it carries, and
`syncPodsToStatus` selects pods by those labels, never by name. Each pass is shown
once to have `PassEffect` and each client's call to have `UserEffect`; the
invariant and `NoBlindOverwrite` follow from these alone. `Keeps(w)` says for each
action which step of the contract it is for its workflow (a create is `Submit`, an
update `Edit`, the end of a deletion `Remove`, a pass `Admit`, `Advance` or `Conclude`)
and that others take none, and that `Standing` is kept: while the first spec stands
the object is blank or its status keys are the tasks of the spec. `ViewsAgree` is
`Standing` seen through the two commands.

Only model-checked: `EventuallyTerminal`, `DeletionCompletes`, `EachDecided` and
`EachDeletionCompletes`, because fairness and `ENABLED` are outside the prover's
reach; and the five `v_` runs, which are counterexamples.

## Not modelled, and the plan

Every component with state is modelled and every safety property of the passing
runs is proved. What could follow, in order of importance:

1. The budget of the pods themselves: `PodBudget` is violated with a stale cache;
   how far it can be exceeded (by what one pass starts) is not stated yet.
2. `CompletedCoversSpec` for replaced specs that add no task, which is when the code
   does keep it.
3. What `Unstartable` promises in the other direction, that everything outside of it
   does start, without fairness: a state in which nothing runs, all results are in
   and a startable task is left lets the greedy plan choose one.

Out of scope: the ONNX model and its training (numerical), the web UI
(presentation with a simulation of its own), generated code, server start-up,
flags, certificates, metrics endpoints and leader election (controller-runtime's
own), static files and CORS headers of the UI backend, and specs with repeated
task names, which the API types do not exclude but every map of the code merges.
