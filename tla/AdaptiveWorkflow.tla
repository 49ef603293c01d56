-------------------------- MODULE AdaptiveWorkflow --------------------------
(***************************************************************************)
(* The AdaptiveWorkflow controller (src/internal/controller) reconciling   *)
(* one workflow name against the Kubernetes API server, the kubelet, the   *)
(* user and the state database.                                            *)
(*                                                                         *)
(* Reconcile is one pass of a sequential program, but each of its calls to *)
(* another party is a step of its own, so the world changes between them:  *)
(*  - reads come from informer caches, which show some earlier state of    *)
(*    the API server and only move forward;                                *)
(*  - writes to the workflow carry the resourceVersion that was read and   *)
(*    are rejected when the stored object has moved on;                    *)
(*  - the process may crash between any two steps.                         *)
(* Time is abstracted: a requeue after ten seconds, an immediate requeue   *)
(* and the retry of a failed pass all put the key back into the queue.     *)
(***************************************************************************)
EXTENDS Scheduling

CONSTANTS
    PodNames,        \* names of pod objects
    PodName,         \* task name -> pod name (podName; it need not be injective)
    Forecasts,       \* what a remote inference engine may answer; {} when none
    Disturbances,    \* which of the disturbances below happen
    MaxUid,          \* how often the workflow is created under its name
    MaxGen,          \* specs stored per incarnation (metadata.generation)
    MaxCrashes       \* restarts of the controller process

\* delete: users delete the workflow; podfail: a pod fails; podloss: a pod is
\* deleted by someone else; api: API calls fail or lose their reply;
\* db: state database inserts fail; optimizer: the remote optimizer call fails.
DisturbanceKinds == {"delete", "podfail", "podloss", "api", "db", "optimizer"}

ASSUME ControllerAssumption ==
    /\ ManifestIds # {} /\ TaskNames # {}
    /\ PodName \in [TaskNames -> PodNames]
    /\ \A f \in Forecasts : IsResourceMap(f)
    /\ Disturbances \subseteq DisturbanceKinds
    /\ MaxUid \in Nat \ {0}
    /\ MaxGen \in Nat \ {0}
    /\ MaxCrashes \in Nat

VARIABLES
    api,        \* the stored workflow object
    stream,     \* stored versions the informer has yet to deliver, and its own
    cache,      \* the informer's copy of the workflow
    pods,       \* the stored pods of this workflow name
    podCache,   \* the informer's copy of each pod
    queued,     \* the workflow's key is in the work queue
    pc,         \* where Reconcile is
    wf,         \* its in-memory workflow object
    plan,       \* allocation of each task of the optimizer's answer
    todo,       \* planned tasks createTaskPod has yet to be called for
    toRecord,   \* finished tasks RecordExecution has yet to be called for
    records,    \* rows per task in the state database (2: more than one)
    succeeded,  \* ghost: <<uid, task>> of every pod that ran to success
    crashes     \* restarts so far

world  == <<api, stream, cache, pods, podCache>>
locals == <<pc, wf, plan, todo, toRecord>>
vars   == <<api, stream, cache, pods, podCache, queued, pc, wf, plan, todo,
            toRecord, records, succeeded, crashes>>

WorkflowPhases == {"None", "Pending", "Running", "Completed", "Failed"}

\* A version of the workflow object.  Conditions and pod names in the status
\* are functions of the rest and left out.  usage, CurrentResourceUsage, keeps
\* the summands computeResourceUsage adds up: the stored quantity is its Total.
Object ==
    [live : BOOLEAN, uid : 0..MaxUid, rv : Nat, gen : 0..MaxGen,
     spec : ManifestIds, deleting : BOOLEAN, finalizer : BOOLEAN,
     phase : WorkflowPhases, ts : [TaskNames -> TaskStatus], usage : [TaskNames -> Resource]]

\* No object under the workflow's name; uid is that of the last one.
Gone(uid, rv) ==
    [live |-> FALSE, uid |-> uid, rv |-> rv, gen |-> 0,
     spec |-> CHOOSE id \in ManifestIds : TRUE,
     deleting |-> FALSE, finalizer |-> FALSE,
     phase |-> "None", ts |-> NoStatuses, usage |-> NoAllocations]

NoWf == Gone(0, 0)

\* needs is a ghost: the dependencies of the task when the pod was created.
Pod == [phase : {"None", "Active", "Succeeded", "Failed"}, uid : 0..MaxUid,
        task : TaskNames, req : Resource, needs : SUBSET TaskNames]

NoPod == [phase |-> "None", uid |-> 0, task |-> CHOOSE t \in TaskNames : TRUE,
          req |-> NoResource, needs |-> {}]

Steps == {"idle", "unfinalize", "finalize", "init", "sync", "record",
          "fail", "complete", "plan", "spawn"}

TypeOK ==
    /\ api \in Object
    /\ stream \subseteq Object
    /\ cache \in Object
    /\ pods \in [PodNames -> Pod]
    /\ podCache \in [PodNames -> Pod]
    /\ queued \in BOOLEAN
    /\ pc \in Steps
    /\ wf \in Object
    /\ plan \in [TaskNames -> Resource]
    /\ todo \subseteq TaskNames
    /\ toRecord \subseteq TaskNames
    /\ records \in [TaskNames -> 0..2]
    /\ succeeded \subseteq ((0..MaxUid) \X TaskNames)
    /\ crashes \in 0..MaxCrashes

Init ==
    /\ api = NoWf
    /\ stream = {NoWf}
    /\ cache = NoWf
    /\ pods = [p \in PodNames |-> NoPod]
    /\ podCache = pods
    /\ queued = FALSE
    /\ pc = "idle"
    /\ wf = NoWf
    /\ plan = NoAllocations
    /\ todo = {}
    /\ toRecord = {}
    /\ records = [t \in TaskNames |-> 0]
    /\ succeeded = {}
    /\ crashes = 0

-----------------------------------------------------------------------------
(***************************************************************************)
(* The API server.                                                         *)
(***************************************************************************)

\* A write that changes the object gives it a new resourceVersion; one that
\* leaves it as it is does not.
Persist(new) ==
    /\ api' = IF new = api THEN api ELSE [new EXCEPT !.rv = api.rv + 1]
    /\ stream' = stream \cup {api'}

\* The object is still the version the controller read.
CanWrite == api.live /\ wf.rv = api.rv

\* A call to the API server may fail without the controller or the object
\* being the cause.
Unreliable == "api" \in Disturbances

-----------------------------------------------------------------------------
(***************************************************************************)
(* Reconcile.                                                              *)
(***************************************************************************)

\* Reconcile returns; a result or an error that asks for it requeues the key.
Return(requeue) ==
    /\ pc' = "idle"
    /\ wf' = NoWf
    /\ plan' = NoAllocations
    /\ todo' = {}
    /\ toRecord' = {}
    /\ queued' = (requeue \/ queued)

\* Status().Update or Update as the last call of the pass.  On an error
\* Reconcile returns it, and the key is requeued; the write may have taken
\* effect although the reply was lost.
UpdateAndReturn(new, requeue) ==
    /\ \/ /\ CanWrite
          /\ Persist(new)
          /\ \/ Return(requeue)
             \/ Unreliable /\ Return(TRUE)
       \/ /\ ~CanWrite \/ Unreliable
          /\ UNCHANGED <<api, stream>>
          /\ Return(TRUE)
    /\ UNCHANGED <<cache, pods, podCache, records, succeeded, crashes>>

Terminal(o) == o.phase \in {"Completed", "Failed"}

\* Status.TaskStatuses is nil; the empty map is stored as nil (omitempty).
NilStatuses(o) == InPhase(o.ts, "Absent") = TaskNames

\* Mutant: no check for a terminal phase.
AfterFinalizerNoTerminal(o) == IF NilStatuses(o) THEN "init" ELSE "sync"

\* Steps 3 and 4 of Reconcile: where it goes with a finalizer in place.
AfterFinalizer(o) ==
    IF NilStatuses(o) THEN "init" ELSE IF Terminal(o) THEN "idle" ELSE "sync"

\* Mutant: a workflow is processed without the finalizer.
AfterGetNoFinalizer(o) ==
    IF ~o.live \/ o.deleting THEN "idle" ELSE AfterFinalizer(o)

\* Mutant: a deleted workflow is skipped before its finalizer is removed.
AfterGetSkipDeleted(o) ==
    IF ~o.live \/ o.deleting THEN "idle"
    ELSE IF ~o.finalizer THEN "finalize" ELSE AfterFinalizer(o)

\* Step 2 of Reconcile, on the object that was read.  "idle" means return.
AfterGet(o) ==
    IF ~o.live THEN "idle"
    ELSE IF o.deleting THEN IF o.finalizer THEN "unfinalize" ELSE "idle"
    ELSE IF ~o.finalizer THEN "finalize"
    ELSE AfterFinalizer(o)

\* Step 1: the key is taken from the queue and the workflow read from the cache.
Get ==
    /\ pc = "idle"
    /\ queued
    /\ queued' = FALSE
    /\ pc' = AfterGet(cache)
    /\ wf' = IF pc' = "idle" THEN NoWf ELSE cache
    /\ UNCHANGED <<api, stream, cache, pods, podCache, plan, todo, toRecord,
                   records, succeeded, crashes>>

\* Step 2, deletion: removing the last finalizer of an object that is being
\* deleted makes the API server remove the object.
RemoveFinalizer ==
    /\ pc = "unfinalize"
    /\ UpdateAndReturn(Gone(wf.uid, wf.rv), FALSE)

\* Step 2: Update answers with the stored object, and Reconcile goes on with it.
AddFinalizer ==
    /\ pc = "finalize"
    /\ CanWrite
    /\ Persist([api EXCEPT !.finalizer = TRUE])
    /\ pc' = AfterFinalizer(api')
    /\ wf' = IF pc' = "idle" THEN NoWf ELSE api'
    /\ UNCHANGED <<cache, pods, podCache, queued, plan, todo, toRecord,
                   records, succeeded, crashes>>

AddFinalizerError ==
    /\ pc = "finalize"
    /\ \/ /\ ~CanWrite \/ Unreliable
          /\ UNCHANGED <<api, stream>>
       \/ /\ CanWrite /\ Unreliable
          /\ Persist([api EXCEPT !.finalizer = TRUE])
    /\ Return(TRUE)
    /\ UNCHANGED <<cache, pods, podCache, records, succeeded, crashes>>

\* Mutant: TaskStatus{} without its Phase.
InitialStatusesNoPhase(m) ==
    [t \in TaskNames |->
        IF t \in Tasks(m) THEN [phase |-> "", alloc |-> NoResource] ELSE NoTask]

\* Step 3: every task of the spec starts as Pending, and the pass is repeated.
InitialStatuses(m) ==
    [t \in TaskNames |->
        IF t \in Tasks(m) THEN [phase |-> "Pending", alloc |-> NoResource] ELSE NoTask]

InitStatus ==
    /\ pc = "init"
    /\ UpdateAndReturn([wf EXCEPT !.phase = "Pending",
                                  !.ts = InitialStatuses(Manifest[wf.spec])],
                       TRUE)

\* Mutant: a task that was started counts as done.
DecideStartedIsDone(ts) ==
    IF InPhase(ts, "Failed") # {} THEN "fail"
    ELSE IF /\ InPhase(ts, "Succeeded") # {}
            /\ InPhase(ts, "Pending") = {}
         THEN "complete"
    ELSE "plan"

\* Steps 6 and 7: the first that applies.
Decide(ts) ==
    IF InPhase(ts, "Failed") # {} THEN "fail"
    ELSE IF /\ InPhase(ts, "Succeeded") # {}
            /\ TaskNames = InPhase(ts, "Succeeded") \cup InPhase(ts, "Absent")
         THEN "complete"
    ELSE "plan"

\* Mutant: pods are matched by name, not by their task label.
ListedPhaseByName(t) == podCache[PodName[t]].phase

\* The phase of the cached pod labelled with this workflow and task t.  The
\* label is the workflow's NAME: the listing by owner uid has no field index
\* and always falls back to it, so pods of an earlier incarnation are seen.
ListedPhase(t) ==
    IF podCache[PodName[t]].task = t THEN podCache[PodName[t]].phase ELSE "None"

\* Mutant: a Pending task follows its pod too.
SyncedStatusesAnyPhase(ts) ==
    [t \in TaskNames |->
        IF ts[t].phase # "Absent" /\ ListedPhase(t) \in {"Succeeded", "Failed"}
        THEN [ts[t] EXCEPT !.phase = ListedPhase(t)]
        ELSE ts[t]]

\* Mutant: a Running task whose pod is not listed is taken for not started.
SyncedStatusesLostIsPending(ts) ==
    [t \in TaskNames |->
        IF ts[t].phase # "Running" \/ ListedPhase(t) = "Active" THEN ts[t]
        ELSE [ts[t] EXCEPT !.phase = IF ListedPhase(t) = "None" THEN "Pending" ELSE ListedPhase(t)]]

\* Step 5, syncPodsToStatus: only a Running task follows its pod.
SyncedStatuses(ts) ==
    [t \in TaskNames |->
        IF ts[t].phase = "Running" /\ ListedPhase(t) \in {"Succeeded", "Failed"}
        THEN [ts[t] EXCEPT !.phase = ListedPhase(t)]
        ELSE ts[t]]

\* Mutant: the results are taken over but not recorded.
SyncPodsUnrecorded ==
    /\ pc = "sync"
    /\ wf' = [wf EXCEPT !.ts = SyncedStatuses(wf.ts)]
    /\ pc' = Decide(wf'.ts)
    /\ UNCHANGED <<api, stream, cache, pods, podCache, queued, plan, todo, toRecord,
                   records, succeeded, crashes>>

SyncPods ==
    /\ pc = "sync"
    /\ wf' = [wf EXCEPT !.ts = SyncedStatuses(wf.ts)]
    /\ toRecord' = InPhase(wf'.ts, "Succeeded") \ InPhase(wf.ts, "Succeeded")
    /\ pc' = IF toRecord' = {} THEN Decide(wf'.ts) ELSE "record"
    /\ UNCHANGED <<api, stream, cache, pods, podCache, queued, plan, todo,
                   records, succeeded, crashes>>

\* The insert of one finished task; a failed one is logged and forgotten.
RecordExecution(t) ==
    /\ pc = "record"
    /\ t \in toRecord
    /\ toRecord' = toRecord \ {t}
    /\ pc' = IF toRecord' = {} THEN Decide(wf.ts) ELSE "record"
    /\ \/ records' = [records EXCEPT ![t] = IF @ = 2 THEN 2 ELSE @ + 1]
       \/ "db" \in Disturbances /\ UNCHANGED records
    /\ UNCHANGED <<api, stream, cache, pods, podCache, queued, wf, plan, todo,
                   succeeded, crashes>>

\* Step 6: the first failed task fails the workflow; nothing is stopped.
MarkFailed ==
    /\ pc = "fail"
    /\ UpdateAndReturn([wf EXCEPT !.phase = "Failed"], FALSE)

\* Step 7.
MarkCompleted ==
    /\ pc = "complete"
    /\ UpdateAndReturn([wf EXCEPT !.phase = "Completed", !.usage = NoAllocations], FALSE)

\* Step 8a: the in-process baseline, or a remote engine's answer; an error
\* of the remote engine leaves the predictions empty.
Predictions(m) ==
    IF Forecasts = {} THEN {BaselinePredict(m)}
    ELSE Forecasts \cup {[t \in {} |-> NoResource]}

\* Steps 8a and 8b.
Plan ==
    /\ pc = "plan"
    /\ LET m == Manifest[wf.spec]
       IN  \E predictions \in Predictions(m), chosen \in SUBSET TaskNames :
              /\ IsGreedyPlan(m, wf.ts, predictions, chosen)
              /\ todo' = chosen
              /\ plan' = [t \in TaskNames |->
                            IF t \in chosen THEN resolveResources(m, predictions, t)
                            ELSE NoResource]
    /\ wf' = [wf EXCEPT !.phase = "Running"]
    /\ pc' = "spawn"
    /\ UNCHANGED <<api, stream, cache, pods, podCache, queued, toRecord,
                   records, succeeded, crashes>>

PlanError ==
    /\ pc = "plan"
    /\ "optimizer" \in Disturbances
    /\ Return(TRUE)
    /\ UNCHANGED <<api, stream, cache, pods, podCache, records, succeeded, crashes>>

\* Step 8c.  Tasks are started in the order of the plan.
IsNext(t) ==
    /\ pc = "spawn"
    /\ t \in todo
    /\ \A s \in todo : ~Before(Manifest[wf.spec], s, t)

\* Mutant: the allocation is not stored.
StartNoAllocation(t) == wf' = [wf EXCEPT !.ts[t].phase = "Running"]

Start(t) == wf' = [wf EXCEPT !.ts[t] = [phase |-> "Running", alloc |-> plan[t]]]

NewPod(t) ==
    [phase |-> "Active", uid |-> wf.uid, task |-> t, req |-> plan[t],
     needs |-> Manifest[wf.spec].deps[t]]

\* Mutant: a task whose pod exists is passed over, not taken for started.
AdoptTaskPodSkipped(t) ==
    /\ IsNext(t)
    /\ podCache[PodName[t]].phase # "None"
    /\ todo' = todo \ {t}
    /\ UNCHANGED <<api, stream, cache, pods, podCache, queued, pc, wf, plan, toRecord,
                   records, succeeded, crashes>>

\* createTaskPod finds a pod of that name in the cache, whoever owns it.
AdoptTaskPod(t) ==
    /\ IsNext(t)
    /\ podCache[PodName[t]].phase # "None"
    /\ Start(t)
    /\ todo' = todo \ {t}
    /\ UNCHANGED <<api, stream, cache, pods, podCache, queued, pc, plan, toRecord,
                   records, succeeded, crashes>>

\* Mutant: on AlreadyExists the pod is deleted and created anew.
TaskPodRecreated(t) ==
    /\ IsNext(t)
    /\ podCache[PodName[t]].phase = "None"
    /\ pods[PodName[t]].phase # "None"
    /\ pods' = [pods EXCEPT ![PodName[t]] = NewPod(t)]
    /\ Start(t)
    /\ todo' = todo \ {t}
    /\ UNCHANGED <<api, stream, cache, podCache, queued, pc, plan, toRecord,
                   records, succeeded, crashes>>

\* createTaskPod does not, but the API server does: AlreadyExists is no error.
TaskPodExists(t) ==
    /\ IsNext(t)
    /\ podCache[PodName[t]].phase = "None"
    /\ pods[PodName[t]].phase # "None"
    /\ Start(t)
    /\ todo' = todo \ {t}
    /\ UNCHANGED <<api, stream, cache, pods, podCache, queued, pc, plan, toRecord,
                   records, succeeded, crashes>>

\* The pod is created; if the reply is lost the task stays Pending.
CreateTaskPod(t) ==
    /\ IsNext(t)
    /\ podCache[PodName[t]].phase = "None"
    /\ pods[PodName[t]].phase = "None"
    /\ pods' = [pods EXCEPT ![PodName[t]] = NewPod(t)]
    /\ \/ Start(t)
       \/ Unreliable /\ UNCHANGED wf
    /\ todo' = todo \ {t}
    /\ UNCHANGED <<api, stream, cache, podCache, queued, pc, plan, toRecord,
                   records, succeeded, crashes>>

\* The call fails: the error is logged and the loop goes on.
CreateTaskPodError(t) ==
    /\ IsNext(t)
    /\ podCache[PodName[t]].phase = "None"
    /\ Unreliable
    /\ todo' = todo \ {t}
    /\ UNCHANGED <<api, stream, cache, pods, podCache, queued, pc, wf, plan,
                   toRecord, records, succeeded, crashes>>

\* Steps 9 and 10.
SaveStatus ==
    /\ pc = "spawn"
    /\ todo = {}
    /\ UpdateAndReturn([wf EXCEPT !.usage = RunningAllocations(wf.ts)], TRUE)

Reconcile ==
    \/ Get
    \/ RemoveFinalizer
    \/ AddFinalizer
    \/ AddFinalizerError
    \/ InitStatus
    \/ SyncPods
    \/ \E t \in TaskNames : RecordExecution(t)
    \/ MarkFailed
    \/ MarkCompleted
    \/ Plan
    \/ PlanError
    \/ \E t \in TaskNames :
          \/ AdoptTaskPod(t)
          \/ TaskPodExists(t)
          \/ CreateTaskPod(t)
          \/ CreateTaskPodError(t)
    \/ SaveStatus

-----------------------------------------------------------------------------
(***************************************************************************)
(* Everyone else.                                                          *)
(***************************************************************************)

\* Only the stored workflow changes.
OnlyWorkflow ==
    UNCHANGED <<cache, pods, podCache, queued, pc, wf, plan, todo, toRecord,
                records, succeeded, crashes>>

UserCreate(id) ==
    /\ ~api.live
    /\ api.uid < MaxUid
    /\ Persist([Gone(api.uid + 1, api.rv) EXCEPT !.live = TRUE, !.gen = 1, !.spec = id])
    /\ OnlyWorkflow

\* A new manifest replaces the spec and leaves the status alone.
UserUpdate(id) ==
    /\ api.live
    /\ api.gen < MaxGen
    /\ id # api.spec
    /\ Persist([api EXCEPT !.spec = id, !.gen = @ + 1])
    /\ OnlyWorkflow

\* An object with a finalizer is only marked; without one it is removed.
UserDelete ==
    /\ "delete" \in Disturbances
    /\ api.live
    /\ ~api.deleting
    /\ Persist(IF api.finalizer THEN [api EXCEPT !.deleting = TRUE]
                                ELSE Gone(api.uid, api.rv))
    /\ OnlyWorkflow

\* The informer catches up with a later version and enqueues the key.
CacheAdvance ==
    \E o \in stream :
        /\ o.rv > cache.rv
        /\ cache' = o
        /\ stream' = {v \in stream : v.rv >= o.rv}
        /\ queued' = TRUE
        /\ UNCHANGED <<api, pods, podCache, pc, wf, plan, todo, toRecord,
                       records, succeeded, crashes>>

\* The pod informer does, and enqueues the owner by name.
PodCacheSync(p) ==
    /\ podCache[p] # pods[p]
    /\ podCache' = [podCache EXCEPT ![p] = pods[p]]
    /\ queued' = TRUE
    /\ UNCHANGED <<api, stream, cache, pods, pc, wf, plan, todo, toRecord,
                   records, succeeded, crashes>>

OnlyPods ==
    UNCHANGED <<api, stream, cache, podCache, queued, pc, wf, plan, todo,
                toRecord, records, crashes>>

PodSucceeds(p) ==
    /\ pods[p].phase = "Active"
    /\ pods' = [pods EXCEPT ![p].phase = "Succeeded"]
    /\ succeeded' = succeeded \cup {<<pods[p].uid, pods[p].task>>}
    /\ OnlyPods

PodFails(p) ==
    /\ "podfail" \in Disturbances
    /\ pods[p].phase = "Active"
    /\ pods' = [pods EXCEPT ![p].phase = "Failed"]
    /\ UNCHANGED succeeded
    /\ OnlyPods

\* Someone deletes a pod: a user, an eviction, the cleanup of finished pods.
PodLoss(p) ==
    /\ "podloss" \in Disturbances
    /\ pods[p].phase # "None"
    /\ pods' = [pods EXCEPT ![p] = NoPod]
    /\ UNCHANGED succeeded
    /\ OnlyPods

\* The garbage collector deletes the pods of an owner that is gone.
Collect(p) ==
    /\ pods[p].phase # "None"
    /\ ~(api.live /\ api.uid = pods[p].uid)
    /\ pods' = [pods EXCEPT ![p] = NoPod]
    /\ UNCHANGED succeeded
    /\ OnlyPods

\* The process restarts: memory is lost, the caches are filled anew and every
\* listed workflow is enqueued.
Crash ==
    /\ crashes < MaxCrashes
    /\ crashes' = crashes + 1
    /\ pc' = "idle"
    /\ wf' = NoWf
    /\ plan' = NoAllocations
    /\ todo' = {}
    /\ toRecord' = {}
    /\ queued' = api.live
    /\ cache' = api
    /\ stream' = {api}
    /\ podCache' = pods
    /\ UNCHANGED <<api, pods, records, succeeded>>

Environment ==
    \/ \E id \in ManifestIds : UserCreate(id) \/ UserUpdate(id)
    \/ UserDelete
    \/ CacheAdvance
    \/ \E p \in PodNames :
          \/ PodCacheSync(p)
          \/ PodSucceeds(p)
          \/ PodFails(p)
          \/ PodLoss(p)
          \/ Collect(p)
    \/ Crash

Next == Reconcile \/ Environment

Spec == Init /\ [][Next]_vars

\* The controller retries and its queue is served, both informers deliver, and
\* a started pod ends; users, failures and crashes owe nothing.
Fairness ==
    /\ WF_vars(Reconcile)
    /\ WF_vars(CacheAdvance)
    /\ \A p \in PodNames :
          /\ WF_vars(PodCacheSync(p))
          /\ WF_vars(PodSucceeds(p) \/ PodFails(p))

FairSpec == Spec /\ Fairness

-----------------------------------------------------------------------------
(***************************************************************************)
(* Safety.                                                                 *)
(***************************************************************************)

\* The tasks of which some pod of this workflow name ran to success.
Finished == {t \in TaskNames : \E u \in 0..MaxUid : <<u, t>> \in succeeded}

\* A pod exists only for a task whose dependencies, as the spec named them
\* when createTaskPod ran, had all run to success before, however stale the
\* caches were and wherever the process crashed.
DependencyOrder ==
    \A p \in PodNames : pods[p].phase # "None" => pods[p].needs \subseteq Finished

\* A verdict has a cause: a Failed workflow holds a Failed task; a Completed
\* one holds tasks, all of them Succeeded, and a pod of each ran to success.
VerdictJustified ==
    /\ api.phase = "Failed" => InPhase(api.ts, "Failed") # {}
    /\ api.phase = "Completed" =>
          /\ ~NilStatuses(api)
          /\ TaskNames = InPhase(api.ts, "Succeeded") \cup InPhase(api.ts, "Absent")
          /\ InPhase(api.ts, "Succeeded") \subseteq Finished

PhaseRank(ph) ==
    CASE ph = "Absent" -> 0 [] ph = "Pending" -> 1 [] ph = "Running" -> 2
      [] ph \in {"Succeeded", "Failed"} -> 3

\* No write of the controller takes a task of the same workflow object back
\* to an earlier phase or from one result to the other, although each pass
\* computes its status from a cached, possibly outdated object.
PhaseNeverRegresses ==
    [][api.live /\ api'.live /\ api.uid = api'.uid =>
          \A t \in TaskNames :
             \/ api'.ts[t].phase = api.ts[t].phase
             \/ PhaseRank(api.ts[t].phase) < PhaseRank(api'.ts[t].phase)]_vars

\* Once Completed or Failed is stored, the status of that object is final.
TerminalIsFinal ==
    [][api.live /\ api'.live /\ api.uid = api'.uid /\ Terminal(api) =>
          api'.phase = api.phase /\ api'.ts = api.ts /\ api'.usage = api.usage]_vars

\* The running tasks of the stored status stay within MaxResources, and so
\* does the stored usage, as long as the spec is not replaced.
StatusBudget ==
    api.live /\ api.gen = 1 =>
        /\ Within(Manifest[api.spec].max, ResourceUsage(api.ts))
        /\ Within(Manifest[api.spec].max, Total(api.usage, TaskNames))

\* A task is stored as Succeeded only after its execution was recorded in the
\* state database, unless an insert failed.
RecordedBeforeSucceeded ==
    "db" \notin Disturbances =>
        \A t \in InPhase(api.ts, "Succeeded") : records[t] > 0

\* A pod is only created for a workflow object that is stored and still holds
\* the controller's finalizer, so the owner outlives every createTaskPod and
\* none is left behind by a deletion that overtakes a pass.
NoOrphanPods ==
    [][\A p \in PodNames :
          pods'[p] # pods[p] /\ pods'[p].phase = "Active" =>
             api.live /\ api.finalizer /\ api.uid = pods'[p].uid]_vars

\* No task is started again for the workflow object it already succeeded for,
\* unless someone deletes its pod.
RunsOnce ==
    [][\A p \in PodNames :
          "podloss" \notin Disturbances /\ pods'[p] # pods[p] /\ pods'[p].phase = "Active" =>
             <<pods'[p].uid, pods'[p].task>> \notin succeeded]_vars

\* The allocation stored for a running task is what its pod requests, also
\* when the pod was created by an earlier pass whose status was not saved, if
\* the forecasts are the baseline's and the spec is not replaced.
AllocationMatchesPod ==
    Forecasts = {} /\ api.live /\ api.gen = 1 =>
        \A t \in InPhase(api.ts, "Running") :
            LET pod == pods[PodName[t]]
            IN  pod.phase # "None" /\ pod.task = t /\ pod.uid = api.uid
                   => pod.req = api.ts[t].alloc

\* The write that completes a workflow does so for every task of its spec.
CompletedCoversSpec ==
    [][api.phase # "Completed" /\ api'.phase = "Completed" =>
          Tasks(Manifest[api'.spec]) \subseteq InPhase(api'.ts, "Succeeded")]_vars

\* A task in a dependency cycle, behind an unknown name, too big for the budget
\* or behind such a task gets no pod, and a workflow with such a task, or with
\* no task at all, is not shown as Completed, if the forecasts are the
\* baseline's and the spec is not replaced.
StuckNeverCompletes ==
    Forecasts = {} /\ api.live /\ api.gen = 1 =>
        /\ \A p \in PodNames : pods[p].phase # "None" /\ pods[p].uid = api.uid =>
              pods[p].task \notin Unstartable(Manifest[api.spec])
        /\ api.phase = "Completed" => CanFinish(Manifest[api.spec])

\* The pods that are running at once stay within MaxResources.
PodBudget ==
    api.live /\ api.gen = 1 =>
        LET active == {p \in PodNames : pods[p].phase = "Active" /\ pods[p].uid = api.uid}
        IN  Within(Manifest[api.spec].max, Total([p \in PodNames |-> pods[p].req], active))

\* A task stored as Succeeded has run to success for this workflow object, not
\* for an earlier one of the same name.
OwnPodsOnly == \A t \in InPhase(api.ts, "Succeeded") : <<api.uid, t>> \in succeeded

-----------------------------------------------------------------------------
(***************************************************************************)
(* The contract: the stored status, seen without allocations and versions, *)
(* only changes as WorkflowContract says.                                  *)
(***************************************************************************)
Board(o) == [t \in TaskNames |-> o.ts[t].phase]

Abstract == INSTANCE WorkflowContract
    WITH live <- api.live, uid <- api.uid, spec <- api.spec,
         board <- Board(api), verdict <- api.phase

\* Whatever the interleaving, the stored status moves by the contract's steps:
\* no lost update, no invented result, no start before the dependencies, no
\* verdict without its cause and none taken back.
KeepsContract == Abstract!Contract

-----------------------------------------------------------------------------
(***************************************************************************)
(* Liveness, under FairSpec.                                               *)
(***************************************************************************)

\* A task that is shown as Running although no pod of this object works for it:
\* its pod was deleted, or createTaskPod found one under its name that belongs
\* to an earlier object or to another task.
Unattended(t) ==
    LET pod == pods[PodName[t]]
    IN  /\ api.ts[t].phase = "Running"
        /\ ~(pod.phase # "None" /\ pod.task = t /\ pod.uid = api.uid)

\* A task that an edit dropped from the spec before it was started: its key
\* stays in TaskStatuses, and no plan has it any more.
Dropped(t) == api.ts[t].phase = "Pending" /\ t \notin Tasks(Manifest[api.spec])

\* A workflow that can be carried out reaches a verdict, unless it is deleted.
\* In one that cannot, tasks that can never start do not keep the others from
\* running: whatever can be done is done.  The code waits for ever in two
\* other cases, and in these alone: for a Running task that is and stays
\* without a pod of its own (syncPodsToStatus never looks at it again), and for
\* a Pending task that is no longer in the spec (Completed needs all keys).
EventuallyTerminal ==
    (api.live /\ ~api.deleting)
      ~> (\/ Terminal(api)
          \/ api.deleting
          \/ ~api.live
          \/ /\ ~CanFinish(Manifest[api.spec])
             /\ Tasks(Manifest[api.spec]) \ Unstartable(Manifest[api.spec])
                   \subseteq InPhase(api.ts, "Succeeded") \cup InPhase(api.ts, "Failed")
          \/ [](\E t \in TaskNames : Unattended(t) \/ Dropped(t)))

\* A deletion that was requested finishes, and the name is free again.
DeletionCompletes == api.deleting ~> ~api.live

\* A task shown as Running without a pod does not stay so.
LostPodNoticed ==
    \A t \in TaskNames :
        (api.live /\ api.ts[t].phase = "Running" /\ pods[PodName[t]].phase = "None")
          ~> (~api.live \/ api.ts[t].phase # "Running" \/ pods[PodName[t]].phase # "None")
=============================================================================
