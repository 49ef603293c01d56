----------------------- MODULE AdaptiveWorkflowProofs -----------------------
(***************************************************************************)
(* Theorems about AdaptiveWorkflow for every value of its constants.       *)
(***************************************************************************)
EXTENDS AdaptiveWorkflowInvariants, TLAPS

-----------------------------------------------------------------------------
(***************************************************************************)
(* Type correctness.                                                       *)
(***************************************************************************)

\* The bounds leave room for the first values.
LEMMA BoundFacts ==
    /\ MaxUid \in Nat /\ MaxGen \in Nat /\ MaxCrashes \in Nat
    /\ 0 \in 0..MaxUid /\ 1 \in 0..MaxGen /\ 0 \in 0..MaxGen /\ 0 \in 0..MaxCrashes
BY ControllerAssumption

\* The neutral values have their types.
LEMMA NeutralTypes ==
    /\ NoResource \in Resource
    /\ NoAllocations \in [TaskNames -> Resource]
    /\ NoStatuses \in [TaskNames -> TaskStatus]
    /\ NoPod \in Pod
    /\ \A u \in 0..MaxUid, v \in Nat : Gone(u, v) \in Object
    /\ NoWf \in Object
<1>1. NoResource \in Resource
  BY DEF NoResource, Resource
<1>2. NoAllocations \in [TaskNames -> Resource]
  BY <1>1 DEF NoAllocations
<1>3. NoStatuses \in [TaskNames -> TaskStatus]
  BY <1>1 DEF NoStatuses, NoTask, TaskStatus, TaskPhases
<1>4. (CHOOSE t \in TaskNames : TRUE) \in TaskNames
  BY ControllerAssumption
<1>5. NoPod \in Pod
  BY <1>1, <1>4, ControllerAssumption DEF NoPod, Pod
<1>6. (CHOOSE id \in ManifestIds : TRUE) \in ManifestIds
  BY ControllerAssumption
<1>7. ASSUME NEW u \in 0..MaxUid, NEW v \in Nat
      PROVE  Gone(u, v) \in Object
  BY <1>2, <1>3, <1>6, ControllerAssumption DEF Gone, Object, WorkflowPhases
<1>8. NoWf \in Object
  BY <1>7, ControllerAssumption DEF NoWf
<1>9. QED
  BY <1>1, <1>2, <1>3, <1>5, <1>7, <1>8

\* Storing an object keeps the stored versions well-typed.
LEMMA PersistType ==
    ASSUME TypeOK, NEW new \in Object, Persist(new)
    PROVE  api' \in Object /\ stream' \subseteq Object
BY DEF TypeOK, Persist, Object

\* So does returning from a pass for its local state.
LEMMA ReturnType ==
    ASSUME TypeOK, NEW requeue \in BOOLEAN, Return(requeue)
    PROVE  /\ pc' \in Steps /\ wf' \in Object /\ plan' \in [TaskNames -> Resource]
           /\ todo' \subseteq TaskNames /\ toRecord' \subseteq TaskNames
           /\ queued' \in BOOLEAN
BY NeutralTypes DEF TypeOK, Return, Steps

\* And the write that ends a pass, for everything.
LEMMA UpdateAndReturnType ==
    ASSUME TypeOK, NEW new \in Object, NEW requeue \in BOOLEAN,
           UpdateAndReturn(new, requeue)
    PROVE  TypeOK'
<1>1. /\ api' \in Object
      /\ stream' \subseteq Object
  BY PersistType DEF UpdateAndReturn, TypeOK
<1>2. /\ pc' \in Steps /\ wf' \in Object /\ plan' \in [TaskNames -> Resource]
      /\ todo' \subseteq TaskNames /\ toRecord' \subseteq TaskNames
      /\ queued' \in BOOLEAN
  <2>1. Return(requeue) \/ Return(TRUE)
    BY DEF UpdateAndReturn
  <2>2. QED
    BY <2>1, ReturnType
<1>3. QED
  BY <1>1, <1>2 DEF TypeOK, UpdateAndReturn

\* What the optimizer allocates is a resource quantity.
LEMMA ResolveType ==
    ASSUME NEW id \in ManifestIds, NEW predictions \in Predictions(Manifest[id]),
           NEW t \in TaskNames
    PROVE  resolveResources(Manifest[id], predictions, t) \in Resource
<1> DEFINE m == Manifest[id]
<1>1. IsManifest(m)
  BY ManifestAssumption
<1>2. IsResourceMap(predictions)
  <2>1. CASE Forecasts = {}
    BY <1>1, <2>1 DEF Predictions, BaselinePredict, IsManifest, IsResourceMap
  <2>2. CASE Forecasts # {}
    BY <2>2, ControllerAssumption DEF Predictions, IsResourceMap
  <2>3. QED
    BY <2>1, <2>2
<1>3. DefaultResources \in Resource
  BY DEF DefaultResources, Resource
<1>4. QED
  BY <1>1, <1>2, <1>3 DEF resolveResources, IsManifest, IsResourceMap

\* The objects the controller and the users write.
LEMMA WrittenObjects ==
    ASSUME TypeOK
    PROVE  /\ Gone(wf.uid, wf.rv) \in Object
           /\ [api EXCEPT !.finalizer = TRUE] \in Object
           /\ [wf EXCEPT !.phase = "Pending",
                         !.ts = InitialStatuses(Manifest[wf.spec])] \in Object
           /\ [wf EXCEPT !.phase = "Failed"] \in Object
           /\ [wf EXCEPT !.phase = "Completed", !.usage = NoAllocations] \in Object
           /\ [wf EXCEPT !.usage = RunningAllocations(wf.ts)] \in Object
           /\ \A id \in ManifestIds : api.uid < MaxUid =>
                 [Gone(api.uid + 1, api.rv) EXCEPT !.live = TRUE, !.gen = 1, !.spec = id] \in Object
           /\ \A id \in ManifestIds : api.gen < MaxGen =>
                 [api EXCEPT !.spec = id, !.gen = @ + 1] \in Object
           /\ (IF api.finalizer THEN [api EXCEPT !.deleting = TRUE]
                                ELSE Gone(api.uid, api.rv)) \in Object
<1>1. Gone(wf.uid, wf.rv) \in Object
  BY NeutralTypes DEF TypeOK, Object
<1>2. [api EXCEPT !.finalizer = TRUE] \in Object
  BY DEF TypeOK, Object
<1>3. [wf EXCEPT !.phase = "Pending",
                 !.ts = InitialStatuses(Manifest[wf.spec])] \in Object
  <2>1. InitialStatuses(Manifest[wf.spec]) \in [TaskNames -> TaskStatus]
    BY NeutralTypes DEF InitialStatuses, TaskStatus, TaskPhases, NoTask
  <2>2. QED
    BY <2>1 DEF TypeOK, Object, WorkflowPhases
<1>4. [wf EXCEPT !.phase = "Failed"] \in Object
  BY DEF TypeOK, Object, WorkflowPhases
<1>5. [wf EXCEPT !.phase = "Completed", !.usage = NoAllocations] \in Object
  BY NeutralTypes DEF TypeOK, Object, WorkflowPhases
<1>6. [wf EXCEPT !.usage = RunningAllocations(wf.ts)] \in Object
  <2>1. RunningAllocations(wf.ts) \in [TaskNames -> Resource]
    BY NeutralTypes DEF RunningAllocations, TypeOK, Object, TaskStatus
  <2>2. QED
    BY <2>1 DEF TypeOK, Object
<1>7. ASSUME NEW id \in ManifestIds, api.uid < MaxUid
      PROVE  [Gone(api.uid + 1, api.rv) EXCEPT !.live = TRUE, !.gen = 1, !.spec = id] \in Object
  <2>1. api.uid + 1 \in 0..MaxUid /\ api.rv \in Nat
    BY <1>7, BoundFacts DEF TypeOK, Object
  <2>2. Gone(api.uid + 1, api.rv) \in Object
    BY <2>1, NeutralTypes
  <2>3. QED
    BY <2>2, BoundFacts DEF Object
<1>8. ASSUME NEW id \in ManifestIds, api.gen < MaxGen
      PROVE  [api EXCEPT !.spec = id, !.gen = @ + 1] \in Object
  <2>1. api.gen + 1 \in 0..MaxGen
    BY <1>8, BoundFacts DEF TypeOK, Object
  <2>2. QED
    BY <2>1 DEF TypeOK, Object
<1>9. (IF api.finalizer THEN [api EXCEPT !.deleting = TRUE]
                        ELSE Gone(api.uid, api.rv)) \in Object
  BY NeutralTypes DEF TypeOK, Object
<1>10. QED
  BY <1>1, <1>2, <1>3, <1>4, <1>5, <1>6, <1>7, <1>8, <1>9

\* Every step keeps the types.
LEMMA TypeInvariance == TypeOK /\ [Next]_vars => TypeOK'
<1> SUFFICES ASSUME TypeOK, [Next]_vars
             PROVE  TypeOK'
  OBVIOUS
<1>1. CASE Get
  BY <1>1, NeutralTypes DEF Get, TypeOK, AfterGet, AfterFinalizer, Steps
<1>2. CASE RemoveFinalizer \/ InitStatus \/ MarkFailed \/ MarkCompleted \/ SaveStatus
  BY <1>2, WrittenObjects, UpdateAndReturnType
     DEF RemoveFinalizer, InitStatus, MarkFailed, MarkCompleted, SaveStatus
<1>3. CASE AddFinalizer
  <2>1. api' \in Object /\ stream' \subseteq Object
    BY <1>3, WrittenObjects, PersistType DEF AddFinalizer
  <2>2. QED
    BY <1>3, <2>1, NeutralTypes DEF AddFinalizer, TypeOK, AfterFinalizer, Steps
<1>4. CASE AddFinalizerError
  <2>1. api' \in Object /\ stream' \subseteq Object
    BY <1>4, WrittenObjects, PersistType DEF AddFinalizerError, TypeOK
  <2>2. QED
    BY <1>4, <2>1, ReturnType DEF AddFinalizerError, TypeOK
<1>5. CASE SyncPods
  <2>1. SyncedStatuses(wf.ts) \in [TaskNames -> TaskStatus]
    <3>1. wf.ts \in [TaskNames -> TaskStatus]
      BY DEF TypeOK, Object
    <3>2. ASSUME NEW t \in TaskNames, NEW p \in {"Succeeded", "Failed"}
          PROVE  [wf.ts[t] EXCEPT !.phase = p] \in TaskStatus
      <4>1. wf.ts[t] \in TaskStatus
        BY <3>1
      <4>2. QED
        BY <4>1 DEF TaskStatus, TaskPhases
    <3>3. QED
      BY <3>1, <3>2 DEF SyncedStatuses
  <2>2. wf' \in Object
    BY <1>5, <2>1 DEF SyncPods, TypeOK, Object
  <2>3. toRecord' \subseteq TaskNames
    BY <1>5 DEF SyncPods, InPhase
  <2>4. pc' \in Steps
    BY <1>5 DEF SyncPods, Decide, Steps
  <2>5. QED
    BY <1>5, <2>2, <2>3, <2>4 DEF SyncPods, TypeOK
<1>6. ASSUME NEW t \in TaskNames, RecordExecution(t)
      PROVE  TypeOK'
  <2>1. records' \in [TaskNames -> 0..2]
    BY <1>6 DEF RecordExecution, TypeOK
  <2>2. pc' \in Steps
    BY <1>6 DEF RecordExecution, Decide, Steps
  <2>3. QED
    BY <1>6, <2>1, <2>2 DEF RecordExecution, TypeOK
<1>7. CASE Plan
  <2>1. plan' \in [TaskNames -> Resource] /\ todo' \subseteq TaskNames
    <3>1. wf.spec \in ManifestIds
      BY DEF TypeOK, Object
    <3>2. PICK predictions \in Predictions(Manifest[wf.spec]), chosen \in SUBSET TaskNames :
             /\ todo' = chosen
             /\ plan' = [t \in TaskNames |->
                           IF t \in chosen
                           THEN resolveResources(Manifest[wf.spec], predictions, t)
                           ELSE NoResource]
      BY <1>7 DEF Plan
    <3>3. QED
      BY <3>1, <3>2, ResolveType, NeutralTypes
  <2>2. wf' \in Object
    BY <1>7 DEF Plan, TypeOK, Object, WorkflowPhases
  <2>3. QED
    BY <1>7, <2>1, <2>2 DEF Plan, TypeOK, Steps
<1>8. CASE PlanError
  BY <1>8, ReturnType DEF PlanError, TypeOK
<1>9. ASSUME NEW t \in TaskNames,
              AdoptTaskPod(t) \/ TaskPodExists(t) \/ CreateTaskPod(t) \/ CreateTaskPodError(t)
       PROVE  TypeOK'
  <2>1. wf' \in Object
    <3>1. [wf EXCEPT !.ts[t] = [phase |-> "Running", alloc |-> plan[t]]] \in Object
      BY DEF TypeOK, Object, TaskStatus, TaskPhases
    <3>2. QED
      BY <1>9, <3>1 DEF AdoptTaskPod, TaskPodExists, CreateTaskPod, CreateTaskPodError,
                         Start, TypeOK
  <2>2. pods' \in [PodNames -> Pod]
    <3>1. NewPod(t) \in Pod
      <4>1. Manifest[wf.spec].deps[t] \in SUBSET TaskNames
        BY ManifestAssumption DEF TypeOK, Object, IsManifest
      <4>2. QED
        BY <4>1 DEF NewPod, Pod, TypeOK, Object
    <3>2. QED
      BY <1>9, <3>1 DEF AdoptTaskPod, TaskPodExists, CreateTaskPod, CreateTaskPodError, TypeOK
  <2>3. QED
    BY <1>9, <2>1, <2>2 DEF AdoptTaskPod, TaskPodExists, CreateTaskPod,
                             CreateTaskPodError, TypeOK
<1>10. ASSUME NEW id \in ManifestIds, UserCreate(id) \/ UserUpdate(id)
       PROVE  TypeOK'
  BY <1>10, WrittenObjects, PersistType DEF UserCreate, UserUpdate, OnlyWorkflow, TypeOK
<1>11. CASE UserDelete
  BY <1>11, WrittenObjects, PersistType DEF UserDelete, OnlyWorkflow, TypeOK
<1>12. CASE CacheAdvance
  BY <1>12 DEF CacheAdvance, TypeOK
<1>13. ASSUME NEW p \in PodNames,
              \/ PodCacheSync(p) \/ PodSucceeds(p) \/ PodFails(p)
              \/ PodLoss(p) \/ Collect(p)
       PROVE  TypeOK'
  <2>1. CASE PodCacheSync(p)
    BY <2>1 DEF PodCacheSync, TypeOK
  <2>2. CASE PodSucceeds(p)
    BY <2>2 DEF PodSucceeds, OnlyPods, TypeOK, Pod
  <2>3. CASE PodFails(p)
    BY <2>3 DEF PodFails, OnlyPods, TypeOK, Pod
  <2>4. CASE PodLoss(p) \/ Collect(p)
    BY <2>4, NeutralTypes DEF PodLoss, Collect, OnlyPods, TypeOK
  <2>5. QED
    BY <1>13, <2>1, <2>2, <2>3, <2>4
<1>14. CASE Crash
  <2>1. crashes' \in 0..MaxCrashes
    BY <1>14, BoundFacts DEF Crash, TypeOK
  <2>2. queued' \in BOOLEAN
    BY <1>14 DEF Crash, TypeOK, Object
  <2>3. QED
    BY <1>14, <2>1, <2>2, NeutralTypes DEF Crash, TypeOK, Steps
<1>15. CASE UNCHANGED vars
  BY <1>15 DEF vars, TypeOK
<1>16. QED
  BY <1>1, <1>2, <1>3, <1>4, <1>5, <1>6, <1>7, <1>8, <1>9, <1>10, <1>11, <1>12, <1>13, <1>14, <1>15
     DEF Next, Reconcile, Environment

\* The controller's state, the stored objects and the caches always have their
\* types, for every workflow, every set of disturbances and every bound.
THEOREM TypeCorrect == Spec => []TypeOK
<1>1. ASSUME Init
      PROVE  TypeOK
  <2>1. api \in Object /\ stream \subseteq Object /\ cache \in Object /\ wf \in Object
    BY <1>1, NeutralTypes DEF Init
  <2>2. pods \in [PodNames -> Pod] /\ podCache \in [PodNames -> Pod]
    BY <1>1, NeutralTypes DEF Init
  <2>3. records \in [TaskNames -> 0..2]
    BY <1>1 DEF Init
  <2>4. crashes \in 0..MaxCrashes /\ succeeded \subseteq ((0..MaxUid) \X TaskNames)
    BY <1>1, BoundFacts DEF Init
  <2>5. QED
    BY <1>1, <2>1, <2>2, <2>3, <2>4, NeutralTypes DEF Init, TypeOK, Steps
<1>2. QED
  BY <1>1, TypeInvariance, PTL DEF Spec

-----------------------------------------------------------------------------
(***************************************************************************)
(* Stored versions.                                                        *)
(***************************************************************************)

\* What a write that is accepted does to the stored object.
LEMMA PersistEffect ==
    ASSUME TypeOK, NEW new \in Object, Persist(new)
    PROVE  /\ \/ api' = api /\ new = api
              \/ /\ api'.rv = api.rv + 1
                 /\ SameMeta(api', new)
                 /\ api'.ts = new.ts
                 /\ api'.phase = new.phase
           /\ stream' = stream \cup {api'}
BY DEF Persist, TypeOK, Object, SameMeta

\* The empty cluster has one version, that of no object.
LEMMA VersionsInit == Init => Versions
BY DEF Init, Versions, NoWf, Gone

\* An accepted write is the new latest version.
LEMMA PersistVersions ==
    ASSUME TypeOK, Versions, NEW new \in Object, Persist(new), UNCHANGED cache
    PROVE  Versions'
<1>1. api.rv \in Nat /\ cache.rv \in Nat /\ \A o \in stream : o.rv \in Nat
  BY DEF TypeOK, Object
<1>2. QED
  BY <1>1, PersistEffect DEF Versions

\* Every step keeps the informer behind the API server and in its order.
LEMMA VersionsStep == TypeOK /\ Versions /\ [Next]_vars => Versions'
<1> SUFFICES ASSUME TypeOK, Versions, [Next]_vars
             PROVE  Versions'
  OBVIOUS
<1>0. UNCHANGED <<api, stream, cache>> => Versions'
  BY DEF Versions
<1>1. ASSUME NEW new \in Object, NEW requeue, UpdateAndReturn(new, requeue)
      PROVE  Versions'
  BY <1>0, <1>1, PersistVersions DEF UpdateAndReturn
<1>2. CASE RemoveFinalizer \/ InitStatus \/ MarkFailed \/ MarkCompleted \/ SaveStatus
  BY <1>1, <1>2, WrittenObjects
     DEF RemoveFinalizer, InitStatus, MarkFailed, MarkCompleted, SaveStatus
<1>3. CASE AddFinalizer \/ AddFinalizerError
  BY <1>0, <1>3, WrittenObjects, PersistVersions DEF AddFinalizer, AddFinalizerError
<1>4. ASSUME NEW id \in ManifestIds, UserCreate(id) \/ UserUpdate(id)
      PROVE  Versions'
  BY <1>4, WrittenObjects, PersistVersions DEF UserCreate, UserUpdate, OnlyWorkflow
<1>5. CASE UserDelete
  BY <1>5, WrittenObjects, PersistVersions DEF UserDelete, OnlyWorkflow
<1>6. CASE CacheAdvance
  <2>1. api.rv \in Nat /\ \A o \in stream : o.rv \in Nat
    BY DEF TypeOK, Object
  <2>2. QED
    BY <1>6, <2>1 DEF CacheAdvance, Versions
<1>7. CASE Crash
  <2>1. api.rv \in Nat
    BY DEF TypeOK, Object
  <2>2. QED
    BY <1>7, <2>1 DEF Crash, Versions
<1>8. CASE Get \/ SyncPods \/ Plan \/ PlanError
  BY <1>0, <1>8 DEF Get, SyncPods, Plan, PlanError
<1>9. ASSUME NEW t \in TaskNames,
             \/ RecordExecution(t) \/ AdoptTaskPod(t) \/ TaskPodExists(t)
             \/ CreateTaskPod(t) \/ CreateTaskPodError(t)
      PROVE  Versions'
  BY <1>0, <1>9 DEF RecordExecution, AdoptTaskPod, TaskPodExists, CreateTaskPod,
                    CreateTaskPodError
<1>10. ASSUME NEW p \in PodNames,
              \/ PodCacheSync(p) \/ PodSucceeds(p) \/ PodFails(p)
              \/ PodLoss(p) \/ Collect(p)
       PROVE  Versions'
  BY <1>0, <1>10 DEF PodCacheSync, PodSucceeds, PodFails, PodLoss, Collect, OnlyPods
<1>11. CASE UNCHANGED vars
  BY <1>0, <1>11 DEF vars
<1>12. QED
  BY <1>2, <1>3, <1>4, <1>5, <1>6, <1>7, <1>8, <1>9, <1>10, <1>11
     DEF Next, Reconcile, Environment

-----------------------------------------------------------------------------
(***************************************************************************)
(* The pass in memory.                                                     *)
(***************************************************************************)

\* No pass is in flight at the start.
LEMMA InMemoryInit == Init => InMemory
BY DEF Init, InMemory, Current

\* Between passes there is nothing in memory.
LEMMA ReturnInMemory ==
    ASSUME NEW requeue, Return(requeue)
    PROVE  InMemory'
BY DEF Return, InMemory, Current

\* A write of someone else outdates the pass.
LEMMA PersistInMemory ==
    ASSUME TypeOK, InMemory, NEW new \in Object, Persist(new), new # api,
           UNCHANGED <<pc, wf, todo>>
    PROVE  InMemory'
<1>1. api.rv \in Nat /\ wf.rv \in Nat /\ api'.rv = api.rv + 1
  BY PersistEffect DEF TypeOK, Object
<1>2. pc # "idle" => wf.rv < api'.rv
  BY <1>1 DEF InMemory
<1>3. ~Current'
  BY <1>1, <1>2 DEF Current
<1>4. QED
  BY <1>1, <1>2, <1>3 DEF InMemory

\* After the write that ends a pass there is nothing in memory.
LEMMA UpdateInMemory ==
    ASSUME NEW new, NEW requeue, UpdateAndReturn(new, requeue)
    PROVE  InMemory'
BY ReturnInMemory DEF UpdateAndReturn

\* Where a pass goes on from the object it read.
LEMMA ReadInMemory ==
    ASSUME TypeOK, TypeOK', NEW o \in Object,
           wf' = o, pc' = AfterGet(o) \/ (pc' = AfterFinalizer(o) /\ o.live), pc' # "idle",
           o.rv <= api'.rv, o.rv = api'.rv => o = api'
    PROVE  InMemory'
<1>1. pc' \in {"unfinalize", "finalize", "init", "sync"} /\ wf'.live
  BY DEF AfterGet, AfterFinalizer
<1>2. pc' = "sync" => ~Terminal(wf')
  BY DEF AfterGet, AfterFinalizer
<1>3. pc' = "init" => NilStatuses(wf')
  BY DEF AfterGet, AfterFinalizer
<1>4. QED
  BY <1>1, <1>2, <1>3 DEF InMemory, Current, SameMeta

\* A pod started for a task that was ready.
LEMMA StartInMemory ==
    ASSUME TypeOK, TypeOK', InMemory, NEW t \in TaskNames, IsNext(t), Start(t),
           todo' = todo \ {t}, UNCHANGED <<api, pc>>
    PROVE  InMemory'
<1> DEFINE m == Manifest[wf.spec]
<1>1. pc = "spawn" /\ t \in todo
  BY DEF IsNext
<1>2. t \in Ready(m, wf.ts)
  BY <1>1 DEF InMemory
<1>3. /\ t \in Tasks(m)
      /\ wf.ts[t].phase \in {"Absent", "Pending"}
      /\ m.deps[t] \subseteq InPhase(wf.ts, "Succeeded")
  BY <1>2 DEF Ready
<1>4. /\ wf'.ts = [wf.ts EXCEPT ![t] = [phase |-> "Running", alloc |-> plan[t]]]
      /\ wf'.live = wf.live /\ wf'.uid = wf.uid /\ wf'.rv = wf.rv /\ wf'.gen = wf.gen
      /\ wf'.spec = wf.spec /\ wf'.deleting = wf.deleting
      /\ wf'.finalizer = wf.finalizer /\ wf'.phase = wf.phase
  BY DEF Start, TypeOK, Object
<1>5. /\ wf'.ts[t].phase = "Running"
      /\ \A s \in TaskNames \ {t} : wf'.ts[s] = wf.ts[s]
  BY <1>4 DEF TypeOK, Object
<1>6. /\ InPhase(wf'.ts, "Succeeded") = InPhase(wf.ts, "Succeeded")
      /\ InPhase(wf'.ts, "Failed") = InPhase(wf.ts, "Failed")
  BY <1>3, <1>5 DEF InPhase
<1>7. todo' \subseteq Ready(m, wf'.ts)
  <2>1. \A s \in todo' : s \in TaskNames /\ s # t /\ s \in Ready(m, wf.ts)
    BY <1>1 DEF InMemory, TypeOK
  <2>2. QED
    BY <2>1, <1>5, <1>6 DEF Ready
<1>8. ASSUME Current', NEW s \in TaskNames
      PROVE  Follows(api', wf', s) \/ Begun(api', wf', s)
  <2>1. Current
    BY <1>4, <1>8 DEF Current
  <2>2. Follows(api, wf, s) \/ Begun(api, wf, s)
    BY <2>1, <1>1 DEF InMemory
  <2>3. CASE s = t
    <3>1. api.ts[t].phase \in {"Absent", "Pending"}
      BY <2>2, <2>3, <1>3 DEF Follows, Begun
    <3>2. QED
      BY <3>1, <2>3, <1>3, <1>4, <1>5, <1>6 DEF Begun
  <2>4. CASE s # t
    BY <2>2, <2>4, <1>4, <1>5, <1>6 DEF Follows, Begun
  <2>5. QED
    BY <2>3, <2>4
<1>9. Current' => SameMeta(wf', api') /\ ~Terminal(api')
  <2>1. Current' => Current
    BY <1>4 DEF Current
  <2>2. QED
    BY <2>1, <1>1, <1>4 DEF InMemory, SameMeta
<1>10. QED
  BY <1>1, <1>4, <1>6, <1>7, <1>8, <1>9 DEF InMemory

\* Every step keeps what a pass holds within what its write may store.
LEMMA InMemoryStep ==
    TypeOK /\ TypeOK' /\ Versions /\ InMemory /\ [Next]_vars => InMemory'
<1> SUFFICES ASSUME TypeOK, TypeOK', Versions, InMemory, [Next]_vars
             PROVE  InMemory'
  OBVIOUS
<1>0. UNCHANGED <<api, pc, wf, todo>> => InMemory'
  BY DEF InMemory, Current
<1>1. CASE Get
  <2>1. CASE pc' = "idle"
    BY <2>1 DEF InMemory, Current
  <2>2. CASE pc' # "idle"
    <3>1. /\ wf' = cache /\ pc' = AfterGet(cache) /\ cache \in Object
          /\ cache.rv <= api'.rv /\ (cache.rv = api'.rv => cache = api')
      BY <1>1, <2>2 DEF Get, Versions, TypeOK
    <3>2. QED
      BY <2>2, <3>1, ReadInMemory
  <2>3. QED
    BY <2>1, <2>2
<1>2. CASE RemoveFinalizer \/ InitStatus \/ MarkFailed \/ MarkCompleted \/ SaveStatus
  BY <1>2, UpdateInMemory
     DEF RemoveFinalizer, InitStatus, MarkFailed, MarkCompleted, SaveStatus
<1>3. CASE AddFinalizer
  <2>1. CASE pc' = "idle"
    BY <2>1 DEF InMemory, Current
  <2>2. CASE pc' # "idle"
    <3>1. wf' = api' /\ pc' = AfterFinalizer(api')
      BY <1>3, <2>2 DEF AddFinalizer
    <3>2. api'.live
      BY <1>3 DEF AddFinalizer, CanWrite, Persist, TypeOK, Object
    <3>3. api' \in Object /\ api'.rv \in Nat
      BY DEF TypeOK, Object
    <3>4. QED
      BY <2>2, <3>1, <3>2, <3>3, ReadInMemory
  <2>3. QED
    BY <2>1, <2>2
<1>4. CASE AddFinalizerError \/ PlanError
  BY <1>4, ReturnInMemory DEF AddFinalizerError, PlanError
<1>5. CASE SyncPods
  <2>1. /\ wf'.ts = SyncedStatuses(wf.ts)
        /\ wf'.live = wf.live /\ wf'.uid = wf.uid /\ wf'.rv = wf.rv /\ wf'.gen = wf.gen
        /\ wf'.spec = wf.spec /\ wf'.deleting = wf.deleting
        /\ wf'.finalizer = wf.finalizer /\ wf'.phase = wf.phase
        /\ pc = "sync" /\ api' = api
    BY <1>5 DEF SyncPods, TypeOK, Object
  <2>2. pc' = "record" \/ pc' = Decide(wf'.ts)
    BY <1>5 DEF SyncPods
  <2>3. \A t \in TaskNames : Follows(wf, wf', t)
    BY <2>1 DEF SyncedStatuses, Follows, TypeOK, Object, TaskStatus
  <2>4. Current' => Current /\ wf.ts = api.ts
    BY <2>1 DEF Current, InMemory
  <2>5. Current' => \A t \in TaskNames : Follows(api', wf', t)
    BY <2>1, <2>3, <2>4 DEF Follows
  <2>6. Current' => SameMeta(wf', api') /\ ~Terminal(api')
    BY <2>1, <2>4 DEF InMemory, SameMeta
  <2>7. QED
    BY <2>1, <2>2, <2>5, <2>6 DEF InMemory, Decide
<1>6. ASSUME NEW t \in TaskNames, RecordExecution(t)
      PROVE  InMemory'
  <2>1. pc = "record" /\ (pc' = "record" \/ pc' = Decide(wf.ts)) /\ UNCHANGED <<api, wf, todo>>
    BY <1>6 DEF RecordExecution
  <2>2. Current' => Current
    BY <2>1 DEF Current
  <2>3. QED
    BY <2>1, <2>2 DEF InMemory, Decide
<1>7. CASE Plan
  <2>1. /\ pc = "plan" /\ pc' = "spawn" /\ api' = api
        /\ wf'.ts = wf.ts /\ wf'.phase = "Running"
        /\ wf'.live = wf.live /\ wf'.uid = wf.uid /\ wf'.rv = wf.rv /\ wf'.gen = wf.gen
        /\ wf'.spec = wf.spec /\ wf'.deleting = wf.deleting
        /\ wf'.finalizer = wf.finalizer
    BY <1>7 DEF Plan, TypeOK, Object
  <2>2. todo' \subseteq Ready(Manifest[wf.spec], wf.ts)
    BY <1>7 DEF Plan, IsGreedyPlan
  <2>3. Current' => Current
    BY <2>1 DEF Current
  <2>4. Current' => /\ SameMeta(wf', api') /\ ~Terminal(api')
                    /\ \A t \in TaskNames : Follows(api', wf', t)
    BY <2>1, <2>3 DEF InMemory, SameMeta, Follows
  <2>5. QED
    BY <2>1, <2>2, <2>4 DEF InMemory
<1>8. ASSUME NEW t \in TaskNames,
             AdoptTaskPod(t) \/ TaskPodExists(t) \/ CreateTaskPod(t) \/ CreateTaskPodError(t)
      PROVE  InMemory'
  <2>1. IsNext(t) /\ todo' = todo \ {t} /\ UNCHANGED <<api, pc>> /\ (Start(t) \/ UNCHANGED wf)
    BY <1>8 DEF AdoptTaskPod, TaskPodExists, CreateTaskPod, CreateTaskPodError
  <2>2. CASE Start(t)
    BY <2>1, <2>2, StartInMemory
  <2>3. CASE UNCHANGED wf
    BY <2>1, <2>3 DEF InMemory, Current
  <2>4. QED
    BY <2>1, <2>2, <2>3
<1>9. ASSUME NEW id \in ManifestIds, UserCreate(id)
      PROVE  InMemory'
  <2> DEFINE new == [Gone(api.uid + 1, api.rv) EXCEPT !.live = TRUE, !.gen = 1, !.spec = id]
  <2>1. new \in Object /\ Persist(new) /\ UNCHANGED <<pc, wf, todo>>
    BY <1>9, WrittenObjects DEF UserCreate, OnlyWorkflow
  <2>2. new # api
    BY <1>9 DEF UserCreate, Gone
  <2>3. QED
    BY <2>1, <2>2, PersistInMemory
<1>10. ASSUME NEW id \in ManifestIds, UserUpdate(id)
       PROVE  InMemory'
  <2> DEFINE new == [api EXCEPT !.spec = id, !.gen = @ + 1]
  <2>1. new \in Object /\ Persist(new) /\ UNCHANGED <<pc, wf, todo>>
    BY <1>10, WrittenObjects DEF UserUpdate, OnlyWorkflow
  <2>2. new # api
    BY <1>10 DEF UserUpdate, TypeOK, Object
  <2>3. QED
    BY <2>1, <2>2, PersistInMemory
<1>11. CASE UserDelete
  <2> DEFINE new == IF api.finalizer THEN [api EXCEPT !.deleting = TRUE]
                                     ELSE Gone(api.uid, api.rv)
  <2>1. new \in Object /\ Persist(new) /\ UNCHANGED <<pc, wf, todo>>
    BY <1>11, WrittenObjects DEF UserDelete, OnlyWorkflow
  <2>2. new # api
    BY <1>11 DEF UserDelete, Gone, TypeOK, Object
  <2>3. QED
    BY <2>1, <2>2, PersistInMemory
<1>12. CASE CacheAdvance
  BY <1>0, <1>12 DEF CacheAdvance
<1>13. ASSUME NEW p \in PodNames,
              \/ PodCacheSync(p) \/ PodSucceeds(p) \/ PodFails(p)
              \/ PodLoss(p) \/ Collect(p)
       PROVE  InMemory'
  BY <1>0, <1>13 DEF PodCacheSync, PodSucceeds, PodFails, PodLoss, Collect, OnlyPods
<1>14. CASE Crash
  BY <1>14 DEF Crash, InMemory, Current
<1>15. CASE UNCHANGED vars
  BY <1>0, <1>15 DEF vars
<1>16. QED
  BY <1>1, <1>2, <1>3, <1>4, <1>5, <1>6, <1>7, <1>8, <1>9, <1>10, <1>11, <1>12, <1>13,
     <1>14, <1>15
     DEF Next, Reconcile, Environment

-----------------------------------------------------------------------------
(***************************************************************************)
(* Evidence: nothing is called Succeeded without a pod that succeeded.     *)
(***************************************************************************)

\* Finished only grows with succeeded.
LEMMA FinishedGrows ==
    ASSUME succeeded \subseteq succeeded'
    PROVE  Finished \subseteq Finished'
BY DEF Finished

\* A status without entries claims no success.
LEMMA NothingSucceededYet ==
    /\ InPhase(NoStatuses, "Succeeded") = {}
    /\ \A u, v : Gone(u, v).ts = NoStatuses
    /\ NoWf.ts = NoStatuses
    /\ \A m : InPhase(InitialStatuses(m), "Succeeded") = {}
BY DEF InPhase, NoStatuses, NoTask, Gone, NoWf, InitialStatuses

\* Nothing claims success at the start.
LEMMA EvidenceInit == Init => Evidence
<1> SUFFICES ASSUME Init PROVE Evidence
  OBVIOUS
<1>1. \A o \in stream \cup {api, cache, wf} : o.ts = NoStatuses
  BY NothingSucceededYet DEF Init
<1>2. \A p \in PodNames : pods[p].phase = "None" /\ podCache[p].phase = "None"
  BY DEF Init, NoPod
<1>3. QED
  BY <1>1, <1>2, NothingSucceededYet DEF Evidence, DependencyOrder

\* The part of Evidence about pods is kept when the pods are.
LEMMA PersistEvidence ==
    ASSUME TypeOK, Evidence, NEW new \in Object, Persist(new),
           InPhase(new.ts, "Succeeded") \subseteq Finished,
           InPhase(wf'.ts, "Succeeded") \subseteq Finished,
           UNCHANGED <<cache, pods, podCache, succeeded>>
    PROVE  Evidence'
<1>1. Finished' = Finished
  BY DEF Finished
<1>2. InPhase(api'.ts, "Succeeded") \subseteq Finished
  BY PersistEffect DEF Evidence
<1>3. stream' = stream \cup {api'}
  BY DEF Persist
<1>4. \A o \in (stream \cup {api, cache, wf})' : InPhase(o.ts, "Succeeded") \subseteq Finished'
  BY <1>1, <1>2, <1>3 DEF Evidence
<1>5. DependencyOrder'
  BY <1>1 DEF Evidence, DependencyOrder
<1>6. QED
  BY <1>1, <1>4, <1>5 DEF Evidence

\* The write that ends a pass stores only successes the pass had evidence of.
LEMMA UpdateEvidence ==
    ASSUME TypeOK, Evidence, NEW new \in Object, NEW requeue, UpdateAndReturn(new, requeue),
           InPhase(new.ts, "Succeeded") \subseteq Finished
    PROVE  Evidence'
<1>1. wf' = NoWf /\ UNCHANGED <<cache, pods, podCache, succeeded>>
  BY DEF UpdateAndReturn, Return
<1>2. InPhase(wf'.ts, "Succeeded") \subseteq Finished
  BY <1>1, NothingSucceededYet
<1>3. CASE Persist(new)
  BY <1>1, <1>2, <1>3, PersistEvidence
<1>4. CASE UNCHANGED <<api, stream>>
  <2>1. Finished' = Finished
    BY <1>1 DEF Finished
  <2>2. QED
    BY <1>1, <1>2, <1>4, <2>1 DEF Evidence, DependencyOrder
<1>5. QED
  BY <1>3, <1>4 DEF UpdateAndReturn

\* The pods, the database and the stored objects are left alone.
LEMMA LocalEvidence ==
    ASSUME Evidence, UNCHANGED <<api, stream, cache, pods, podCache, succeeded>>,
           InPhase(wf'.ts, "Succeeded") \subseteq Finished
    PROVE  Evidence'
<1>1. Finished' = Finished
  BY DEF Finished
<1>2. QED
  BY <1>1 DEF Evidence, DependencyOrder

\* Every step keeps a pod behind every claimed success.
LEMMA EvidenceStep ==
    TypeOK /\ TypeOK' /\ InMemory /\ Evidence /\ [Next]_vars => Evidence'
<1> SUFFICES ASSUME TypeOK, TypeOK', InMemory, Evidence, [Next]_vars
             PROVE  Evidence'
  OBVIOUS
<1>0. /\ InPhase(wf.ts, "Succeeded") \subseteq Finished
      /\ InPhase(api.ts, "Succeeded") \subseteq Finished
      /\ InPhase(cache.ts, "Succeeded") \subseteq Finished
      /\ InPhase(NoWf.ts, "Succeeded") \subseteq Finished
  BY NothingSucceededYet DEF Evidence
<1>1. CASE Get
  BY <1>0, <1>1, LocalEvidence DEF Get
<1>2. CASE RemoveFinalizer
  <2>1. InPhase(Gone(wf.uid, wf.rv).ts, "Succeeded") \subseteq Finished
    BY NothingSucceededYet
  <2>2. QED
    BY <1>2, <2>1, WrittenObjects, UpdateEvidence DEF RemoveFinalizer
<1>3. CASE AddFinalizer
  <2>1. [api EXCEPT !.finalizer = TRUE].ts = api.ts
    BY DEF TypeOK, Object
  <2>2. api'.ts = api.ts
    BY <1>3 DEF AddFinalizer, Persist, TypeOK, Object
  <2>3. InPhase(wf'.ts, "Succeeded") \subseteq Finished
    BY <1>0, <1>3, <2>2 DEF AddFinalizer
  <2>4. QED
    BY <1>0, <1>3, <2>1, <2>3, WrittenObjects, PersistEvidence DEF AddFinalizer
<1>4. CASE AddFinalizerError
  <2>1. [api EXCEPT !.finalizer = TRUE].ts = api.ts
    BY DEF TypeOK, Object
  <2>2. InPhase(wf'.ts, "Succeeded") \subseteq Finished
    BY <1>0, <1>4 DEF AddFinalizerError, Return
  <2>3. CASE UNCHANGED <<api, stream>>
    BY <1>4, <2>2, <2>3, LocalEvidence DEF AddFinalizerError
  <2>4. CASE Persist([api EXCEPT !.finalizer = TRUE])
    BY <1>0, <1>4, <2>1, <2>2, <2>4, WrittenObjects, PersistEvidence DEF AddFinalizerError
  <2>5. QED
    BY <1>4, <2>3, <2>4 DEF AddFinalizerError
<1>5. CASE InitStatus
  <2> DEFINE new == [wf EXCEPT !.phase = "Pending",
                               !.ts = InitialStatuses(Manifest[wf.spec])]
  <2>1. new.ts = InitialStatuses(Manifest[wf.spec])
    BY DEF TypeOK, Object
  <2>2. new \in Object /\ UpdateAndReturn(new, TRUE)
    BY <1>5, WrittenObjects DEF InitStatus
  <2>3. InPhase(new.ts, "Succeeded") \subseteq Finished
    BY <2>1, NothingSucceededYet
  <2>4. QED
    BY <2>2, <2>3, UpdateEvidence
<1>6. CASE SyncPods
  <2>1. wf'.ts = SyncedStatuses(wf.ts)
    BY <1>6 DEF SyncPods, TypeOK, Object
  <2>2. ASSUME NEW t \in InPhase(wf'.ts, "Succeeded")
        PROVE  t \in Finished
    <3>1. t \in TaskNames /\ SyncedStatuses(wf.ts)[t].phase = "Succeeded"
      BY <2>1 DEF InPhase
    <3>2. wf.ts[t].phase = "Succeeded" \/ ListedPhase(t) = "Succeeded"
      BY <3>1 DEF SyncedStatuses, TypeOK, Object, TaskStatus
    <3>3. CASE wf.ts[t].phase = "Succeeded"
      BY <1>0, <3>1, <3>3 DEF InPhase
    <3>4. CASE ListedPhase(t) = "Succeeded"
      BY <3>1, <3>4, ControllerAssumption DEF ListedPhase, Evidence
    <3>5. QED
      BY <3>2, <3>3, <3>4
  <2>3. QED
    BY <1>6, <2>2, LocalEvidence DEF SyncPods
<1>7. ASSUME NEW t \in TaskNames, RecordExecution(t)
      PROVE  Evidence'
  BY <1>0, <1>7, LocalEvidence DEF RecordExecution
<1>8. CASE MarkFailed \/ MarkCompleted \/ SaveStatus
  <2>1. /\ [wf EXCEPT !.phase = "Failed"].ts = wf.ts
        /\ [wf EXCEPT !.phase = "Completed", !.usage = NoAllocations].ts = wf.ts
        /\ [wf EXCEPT !.usage = RunningAllocations(wf.ts)].ts = wf.ts
    BY DEF TypeOK, Object
  <2>2. QED
    BY <1>0, <1>8, <2>1, WrittenObjects, UpdateEvidence DEF MarkFailed, MarkCompleted, SaveStatus
<1>9. CASE Plan
  <2>1. wf'.ts = wf.ts
    BY <1>9 DEF Plan, TypeOK, Object
  <2>2. QED
    BY <1>0, <1>9, <2>1, LocalEvidence DEF Plan
<1>10. CASE PlanError
  BY <1>0, <1>10, LocalEvidence DEF PlanError, Return
<1>11. ASSUME NEW t \in TaskNames,
              AdoptTaskPod(t) \/ TaskPodExists(t) \/ CreateTaskPod(t) \/ CreateTaskPodError(t)
       PROVE  Evidence'
  <2>1. InPhase(wf'.ts, "Succeeded") \subseteq Finished
    <3>1. CASE UNCHANGED wf
      BY <1>0, <3>1
    <3>2. CASE Start(t)
      <4>1. wf'.ts = [wf.ts EXCEPT ![t] = [phase |-> "Running", alloc |-> plan[t]]]
        BY <3>2 DEF Start, TypeOK, Object
      <4>2. InPhase(wf'.ts, "Succeeded") \subseteq InPhase(wf.ts, "Succeeded")
        BY <4>1 DEF InPhase, TypeOK, Object
      <4>3. QED
        BY <1>0, <4>2
    <3>3. QED
      BY <1>11, <3>1, <3>2
         DEF AdoptTaskPod, TaskPodExists, CreateTaskPod, CreateTaskPodError
  <2>2. CASE UNCHANGED pods
    BY <1>11, <2>1, <2>2, LocalEvidence
       DEF AdoptTaskPod, TaskPodExists, CreateTaskPod, CreateTaskPodError
  <2>3. CASE CreateTaskPod(t)
    <3>1. pods' = [pods EXCEPT ![PodName[t]] = NewPod(t)] /\ PodName[t] \in PodNames
      BY <2>3, ControllerAssumption DEF CreateTaskPod
    <3>2. UNCHANGED <<api, stream, cache, podCache, succeeded>>
      BY <2>3 DEF CreateTaskPod
    <3>3. NewPod(t).needs \subseteq Finished
      <4>1. Manifest[wf.spec].deps[t] \subseteq InPhase(wf.ts, "Succeeded")
        BY <2>3 DEF CreateTaskPod, IsNext, InMemory, Ready
      <4>2. QED
        BY <1>0, <4>1 DEF NewPod
    <3>4. Finished' = Finished
      BY <3>2 DEF Finished
    <3>5. \A p \in PodNames : pods'[p] = pods[p] \/ pods'[p] = NewPod(t)
      BY <3>1 DEF TypeOK
    <3>6. DependencyOrder'
      BY <3>3, <3>4, <3>5 DEF Evidence, DependencyOrder
    <3>7. \A p \in PodNames : pods'[p].phase = "Succeeded" => pods'[p].task \in Finished'
      BY <3>4, <3>5 DEF Evidence, NewPod
    <3>8. QED
      BY <2>1, <3>2, <3>4, <3>6, <3>7 DEF Evidence
  <2>4. QED
    BY <1>11, <2>2, <2>3 DEF AdoptTaskPod, TaskPodExists, CreateTaskPodError
<1>12. ASSUME NEW id \in ManifestIds, UserCreate(id) \/ UserUpdate(id)
       PROVE  Evidence'
  <2>1. CASE UserCreate(id)
    <3> DEFINE new == [Gone(api.uid + 1, api.rv) EXCEPT !.live = TRUE, !.gen = 1, !.spec = id]
    <3>1. new.ts = NoStatuses
      BY DEF Gone
    <3>2. new \in Object /\ Persist(new) /\ UNCHANGED <<wf, cache, pods, podCache, succeeded>>
      BY <2>1, WrittenObjects DEF UserCreate, OnlyWorkflow
    <3>3. InPhase(new.ts, "Succeeded") \subseteq Finished
      BY <3>1, NothingSucceededYet
    <3>4. QED
      BY <1>0, <3>2, <3>3, PersistEvidence
  <2>2. CASE UserUpdate(id)
    <3> DEFINE new == [api EXCEPT !.spec = id, !.gen = @ + 1]
    <3>1. new.ts = api.ts
      BY DEF TypeOK, Object
    <3>2. new \in Object /\ Persist(new) /\ UNCHANGED <<wf, cache, pods, podCache, succeeded>>
      BY <2>2, WrittenObjects DEF UserUpdate, OnlyWorkflow
    <3>3. QED
      BY <1>0, <3>1, <3>2, PersistEvidence
  <2>3. QED
    BY <1>12, <2>1, <2>2
<1>13. CASE UserDelete
  <2> DEFINE new == IF api.finalizer THEN [api EXCEPT !.deleting = TRUE]
                                     ELSE Gone(api.uid, api.rv)
  <2>1. new.ts = api.ts \/ new.ts = NoStatuses
    BY NothingSucceededYet DEF TypeOK, Object
  <2>2. new \in Object /\ Persist(new) /\ UNCHANGED <<wf, cache, pods, podCache, succeeded>>
    BY <1>13, WrittenObjects DEF UserDelete, OnlyWorkflow
  <2>3. InPhase(new.ts, "Succeeded") \subseteq Finished
    BY <1>0, <2>1, NothingSucceededYet
  <2>4. QED
    BY <1>0, <2>2, <2>3, PersistEvidence
<1>14. CASE CacheAdvance
  <2>1. Finished' = Finished
    BY <1>14 DEF CacheAdvance, Finished
  <2>2. cache' \in stream /\ stream' \subseteq stream /\ UNCHANGED <<api, wf, pods, podCache>>
    BY <1>14 DEF CacheAdvance
  <2>3. QED
    BY <2>1, <2>2 DEF Evidence, DependencyOrder
<1>15. ASSUME NEW p \in PodNames, PodCacheSync(p)
       PROVE  Evidence'
  <2>1. Finished' = Finished
    BY <1>15 DEF PodCacheSync, Finished
  <2>2. UNCHANGED <<api, stream, cache, wf, pods>>
    BY <1>15 DEF PodCacheSync
  <2>3. \A q \in PodNames : podCache'[q] = podCache[q] \/ podCache'[q] = pods[q]
    BY <1>15 DEF PodCacheSync, TypeOK
  <2>4. QED
    BY <2>1, <2>2, <2>3 DEF Evidence, DependencyOrder
<1>16. ASSUME NEW p \in PodNames,
              PodSucceeds(p) \/ PodFails(p) \/ PodLoss(p) \/ Collect(p)
       PROVE  Evidence'
  <2>1. succeeded \subseteq succeeded' /\ UNCHANGED <<api, stream, cache, wf, podCache>>
    BY <1>16 DEF PodSucceeds, PodFails, PodLoss, Collect, OnlyPods
  <2>2. Finished \subseteq Finished'
    BY <2>1, FinishedGrows
  <2>3. \A q \in PodNames \ {p} : pods'[q] = pods[q]
    BY <1>16 DEF PodSucceeds, PodFails, PodLoss, Collect, TypeOK
  <2>4. \/ pods'[p].phase = "None"
        \/ /\ pods[p].phase = "Active"
           /\ pods'[p].needs = pods[p].needs
           /\ pods'[p].phase = "Succeeded" => pods'[p].task \in Finished'
    <3>1. CASE PodSucceeds(p)
      <4>1. /\ pods[p].phase = "Active" /\ pods'[p].needs = pods[p].needs
            /\ pods'[p].task = pods[p].task
        BY <3>1 DEF PodSucceeds, TypeOK, Pod
      <4>2. pods[p].task \in TaskNames /\ pods[p].uid \in 0..MaxUid
        BY DEF TypeOK, Pod
      <4>3. <<pods[p].uid, pods[p].task>> \in succeeded'
        BY <3>1 DEF PodSucceeds
      <4>4. QED
        BY <4>1, <4>2, <4>3 DEF Finished
    <3>2. CASE PodFails(p)
      BY <3>2 DEF PodFails, TypeOK, Pod
    <3>3. CASE PodLoss(p) \/ Collect(p)
      BY <3>3 DEF PodLoss, Collect, NoPod, TypeOK
    <3>4. QED
      BY <1>16, <3>1, <3>2, <3>3
  <2>5. DependencyOrder'
    BY <2>2, <2>3, <2>4 DEF Evidence, DependencyOrder
  <2>6. QED
    BY <2>1, <2>2, <2>3, <2>4, <2>5 DEF Evidence
<1>17. CASE Crash
  <2>1. Finished' = Finished
    BY <1>17 DEF Crash, Finished
  <2>2. cache' = api /\ stream' = {api} /\ wf' = NoWf /\ podCache' = pods /\ UNCHANGED <<api, pods>>
    BY <1>17 DEF Crash
  <2>3. QED
    BY <1>0, <2>1, <2>2 DEF Evidence, DependencyOrder
<1>18. CASE UNCHANGED vars
  BY <1>0, <1>18, LocalEvidence DEF vars
<1>19. QED
  BY <1>1, <1>2, <1>3, <1>4, <1>5, <1>6, <1>7, <1>8, <1>9, <1>10, <1>11, <1>12, <1>13,
     <1>14, <1>15, <1>16, <1>17, <1>18
     DEF Next, Reconcile, Environment

-----------------------------------------------------------------------------
(***************************************************************************)
(* Ownership: the finalizer holds the object while pods may be created.    *)
(***************************************************************************)

\* No version holds the finalizer at the start.
LEMMA OwnershipInit == Init => Ownership
BY DEF Init, Ownership, NoWf, Gone

\* A write that keeps the object, its identity and its finalizer.
LEMMA PersistOwnership ==
    ASSUME TypeOK, Ownership, NEW new \in Object, Persist(new),
           new.live = api.live, new.uid = api.uid, api.finalizer => new.finalizer,
           UNCHANGED cache,
           UNCHANGED <<pc, wf>> \/ pc' = "idle" \/ (pc' \in {"init", "sync"} /\ wf' = api'
                                                    /\ new.live /\ new.finalizer)
    PROVE  Ownership'
<1>1. api'.live = api.live /\ api'.uid = api.uid /\ (api.finalizer => api'.finalizer)
  BY PersistEffect DEF SameMeta
<1>2. stream' = stream \cup {api'}
  BY DEF Persist
<1>3. \A o \in stream' : o.live /\ o.finalizer /\ ~o.deleting =>
                            api'.live /\ api'.finalizer /\ api'.uid = o.uid
  BY <1>1, <1>2 DEF Ownership
<1>4. new.finalizer => api'.finalizer
  BY PersistEffect DEF SameMeta
<1>5. QED
  BY <1>1, <1>3, <1>4 DEF Ownership

\* A write that removes the object, or puts a new one in its place, when no
\* version with the finalizer is left to act on.
LEMMA ReplaceOwnership ==
    ASSUME TypeOK, NEW new \in Object, Persist(new), new # api,
           ~(new.live /\ new.finalizer),
           \A o \in stream : ~(o.live /\ o.finalizer /\ ~o.deleting),
           UNCHANGED cache,
           pc' = "idle" \/ (Ownership /\ UNCHANGED <<pc, wf>>
                            /\ pc \in {"idle", "unfinalize", "finalize"})
    PROVE  Ownership'
<1>1. api'.live = new.live /\ api'.finalizer = new.finalizer /\ stream' = stream \cup {api'}
  BY PersistEffect DEF SameMeta
<1>2. QED
  BY <1>1 DEF Ownership

\* Every step keeps the finalizer on the object a pass may create pods for.
LEMMA OwnershipStep ==
    TypeOK /\ TypeOK' /\ Versions /\ InMemory /\ Ownership /\ [Next]_vars => Ownership'
<1> SUFFICES ASSUME TypeOK, TypeOK', Versions, InMemory, Ownership, [Next]_vars
             PROVE  Ownership'
  OBVIOUS
<1>0. UNCHANGED <<api, stream, cache>> /\ (pc' = "idle" \/ UNCHANGED <<pc, wf>>) => Ownership'
  BY DEF Ownership
<1>1. CASE Get
  <2>1. /\ UNCHANGED <<api, stream, cache>> /\ pc' = AfterGet(cache)
        /\ pc' # "idle" => wf' = cache
    BY <1>1 DEF Get
  <2>2. cache.rv \in Nat /\ cache \in stream
    BY DEF TypeOK, Object, Versions
  <2>3. pc' = "unfinalize" => cache.deleting
    BY <2>1 DEF AfterGet, AfterFinalizer
  <2>4. pc' # "idle" /\ pc' # "unfinalize" => cache.live /\ ~cache.deleting
    BY <2>1 DEF AfterGet, AfterFinalizer
  <2>5. pc' \notin {"idle", "unfinalize", "finalize"} => cache.finalizer
    BY <2>1 DEF AfterGet, AfterFinalizer
  <2>6. QED
    BY <2>1, <2>2, <2>3, <2>4, <2>5 DEF Ownership
<1>2. CASE RemoveFinalizer
  <2> DEFINE new == Gone(wf.uid, wf.rv)
  <2>1. pc = "unfinalize" /\ UpdateAndReturn(new, FALSE) /\ new \in Object
    BY <1>2, WrittenObjects DEF RemoveFinalizer
  <2>2. pc' = "idle" /\ UNCHANGED cache
    BY <2>1 DEF UpdateAndReturn, Return
  <2>3. CASE UNCHANGED <<api, stream>>
    BY <1>0, <2>2, <2>3
  <2>4. CASE CanWrite /\ Persist(new)
    <3>1. wf.rv = api.rv /\ api.live /\ wf.deleting /\ wf.rv <= cache.rv
      BY <2>1, <2>4 DEF CanWrite, Ownership
    <3>2. api.deleting
      BY <2>1, <3>1 DEF InMemory, Current, SameMeta
    <3>3. \A o \in stream : o.rv = api.rv
      <4>1. cache.rv \in Nat /\ api.rv \in Nat /\ \A o \in stream : o.rv \in Nat
        BY DEF TypeOK, Object
      <4>2. QED
        BY <3>1, <4>1 DEF Versions
    <3>4. \A o \in stream : o = api
      BY <3>3 DEF Versions
    <3>5. new # api /\ ~new.live
      BY <3>1 DEF Gone
    <3>6. QED
      BY <2>1, <2>2, <2>4, <3>2, <3>4, <3>5, ReplaceOwnership
  <2>5. QED
    BY <2>1, <2>3, <2>4 DEF UpdateAndReturn
<1>3. CASE AddFinalizer
  <2> DEFINE new == [api EXCEPT !.finalizer = TRUE]
  <2>1. new \in Object /\ Persist(new) /\ UNCHANGED cache
    BY <1>3, WrittenObjects DEF AddFinalizer
  <2>2. new.live = api.live /\ new.uid = api.uid /\ new.finalizer /\ new.live
    BY <1>3 DEF AddFinalizer, CanWrite, TypeOK, Object
  <2>3. pc' = "idle" \/ (pc' \in {"init", "sync"} /\ wf' = api')
    BY <1>3 DEF AddFinalizer, AfterFinalizer
  <2>4. QED
    BY <2>1, <2>2, <2>3, PersistOwnership
<1>4. CASE AddFinalizerError
  <2> DEFINE new == [api EXCEPT !.finalizer = TRUE]
  <2>1. pc' = "idle" /\ UNCHANGED cache /\ new \in Object
    BY <1>4, WrittenObjects DEF AddFinalizerError, Return
  <2>2. new.live = api.live /\ new.uid = api.uid /\ new.finalizer
    BY DEF TypeOK, Object
  <2>3. CASE UNCHANGED <<api, stream>>
    BY <1>0, <2>1, <2>3
  <2>4. CASE Persist(new)
    BY <2>1, <2>2, <2>4, PersistOwnership
  <2>5. QED
    BY <1>4, <2>3, <2>4 DEF AddFinalizerError
<1>5. ASSUME NEW new \in Object, NEW requeue, UpdateAndReturn(new, requeue),
             SameMeta(new, wf), pc # "idle"
      PROVE  Ownership'
  <2>1. pc' = "idle" /\ UNCHANGED cache
    BY <1>5 DEF UpdateAndReturn, Return
  <2>2. CASE UNCHANGED <<api, stream>>
    BY <1>0, <2>1, <2>2
  <2>3. CASE CanWrite /\ Persist(new)
    <3>1. SameMeta(wf, api)
      BY <1>5, <2>3 DEF CanWrite, InMemory, Current
    <3>2. new.live = api.live /\ new.uid = api.uid /\ (api.finalizer => new.finalizer)
      BY <1>5, <3>1 DEF SameMeta
    <3>3. QED
      BY <2>1, <2>3, <3>2, PersistOwnership
  <2>4. QED
    BY <1>5, <2>2, <2>3 DEF UpdateAndReturn
<1>6. CASE InitStatus \/ MarkFailed \/ MarkCompleted \/ SaveStatus
  <2>1. /\ SameMeta([wf EXCEPT !.phase = "Pending",
                               !.ts = InitialStatuses(Manifest[wf.spec])], wf)
        /\ SameMeta([wf EXCEPT !.phase = "Failed"], wf)
        /\ SameMeta([wf EXCEPT !.phase = "Completed", !.usage = NoAllocations], wf)
        /\ SameMeta([wf EXCEPT !.usage = RunningAllocations(wf.ts)], wf)
    BY DEF SameMeta, TypeOK, Object
  <2>2. QED
    BY <1>5, <1>6, <2>1, WrittenObjects DEF InitStatus, MarkFailed, MarkCompleted, SaveStatus
<1>7. CASE SyncPods \/ Plan
  <2>1. UNCHANGED <<api, stream, cache>> /\ pc \in {"sync", "plan"} /\ wf'.uid = wf.uid
    BY <1>7 DEF SyncPods, Plan, TypeOK, Object
  <2>2. pc' \notin {"unfinalize", "finalize"}
    BY <1>7 DEF SyncPods, Plan, Decide
  <2>3. QED
    BY <2>1, <2>2 DEF Ownership
<1>8. ASSUME NEW t \in TaskNames, RecordExecution(t)
      PROVE  Ownership'
  <2>1. UNCHANGED <<api, stream, cache, wf>> /\ pc = "record"
    BY <1>8 DEF RecordExecution
  <2>2. pc' \notin {"unfinalize", "finalize"}
    BY <1>8 DEF RecordExecution, Decide
  <2>3. QED
    BY <2>1, <2>2 DEF Ownership
<1>9. ASSUME NEW t \in TaskNames,
             AdoptTaskPod(t) \/ TaskPodExists(t) \/ CreateTaskPod(t) \/ CreateTaskPodError(t)
      PROVE  Ownership'
  <2>1. UNCHANGED <<api, stream, cache, pc>> /\ pc = "spawn" /\ (Start(t) \/ UNCHANGED wf)
    BY <1>9 DEF AdoptTaskPod, TaskPodExists, CreateTaskPod, CreateTaskPodError, IsNext
  <2>2. wf'.uid = wf.uid
    BY <2>1 DEF Start, TypeOK, Object
  <2>3. QED
    BY <2>1, <2>2 DEF Ownership
<1>10. CASE PlanError
  BY <1>0, <1>10 DEF PlanError, Return
<1>11. ASSUME NEW id \in ManifestIds, UserCreate(id)
       PROVE  Ownership'
  <2> DEFINE new == [Gone(api.uid + 1, api.rv) EXCEPT !.live = TRUE, !.gen = 1, !.spec = id]
  <2>1. new \in Object /\ Persist(new) /\ UNCHANGED <<cache, pc, wf>> /\ ~api.live
    BY <1>11, WrittenObjects DEF UserCreate, OnlyWorkflow
  <2>2. new.live /\ ~new.finalizer /\ new # api
    BY <2>1 DEF Gone
  <2>3. QED
    BY <2>1, <2>2, ReplaceOwnership DEF Ownership, TypeOK, Steps
<1>12. ASSUME NEW id \in ManifestIds, UserUpdate(id)
       PROVE  Ownership'
  <2> DEFINE new == [api EXCEPT !.spec = id, !.gen = @ + 1]
  <2>1. new \in Object /\ Persist(new) /\ UNCHANGED <<cache, pc, wf>>
    BY <1>12, WrittenObjects DEF UserUpdate, OnlyWorkflow
  <2>2. new.live = api.live /\ new.uid = api.uid /\ (api.finalizer => new.finalizer)
    BY DEF TypeOK, Object
  <2>3. QED
    BY <2>1, <2>2, PersistOwnership
<1>13. CASE UserDelete
  <2>1. CASE api.finalizer
    <3> DEFINE new == [api EXCEPT !.deleting = TRUE]
    <3>1. new \in Object /\ Persist(new) /\ UNCHANGED <<cache, pc, wf>>
      BY <1>13, <2>1, WrittenObjects DEF UserDelete, OnlyWorkflow
    <3>2. new.live = api.live /\ new.uid = api.uid /\ (api.finalizer => new.finalizer)
      BY DEF TypeOK, Object
    <3>3. QED
      BY <3>1, <3>2, PersistOwnership
  <2>2. CASE ~api.finalizer
    <3> DEFINE new == Gone(api.uid, api.rv)
    <3>1. new \in Object /\ Persist(new) /\ UNCHANGED <<cache, pc, wf>> /\ api.live
      BY <1>13, <2>2, WrittenObjects DEF UserDelete, OnlyWorkflow
    <3>2. ~new.live /\ new # api
      BY <3>1 DEF Gone
    <3>3. QED
      BY <2>2, <3>1, <3>2, ReplaceOwnership DEF Ownership, TypeOK, Steps
  <2>3. QED
    BY <2>1, <2>2
<1>14. CASE CacheAdvance
  <2>1. /\ UNCHANGED <<api, pc, wf>> /\ stream' \subseteq stream
        /\ cache'.rv \in Nat /\ cache.rv \in Nat /\ wf.rv \in Nat /\ cache'.rv > cache.rv
    BY <1>14 DEF CacheAdvance, TypeOK, Object
  <2>2. QED
    BY <2>1 DEF Ownership
<1>15. CASE Crash
  BY <1>15 DEF Crash, Ownership
<1>16. ASSUME NEW p \in PodNames,
              \/ PodCacheSync(p) \/ PodSucceeds(p) \/ PodFails(p)
              \/ PodLoss(p) \/ Collect(p)
       PROVE  Ownership'
  BY <1>0, <1>16 DEF PodCacheSync, PodSucceeds, PodFails, PodLoss, Collect, OnlyPods
<1>17. CASE UNCHANGED vars
  BY <1>0, <1>17 DEF vars
<1>18. QED
  BY <1>1, <1>2, <1>3, <1>4, <1>6, <1>7, <1>8, <1>9, <1>10, <1>11, <1>12, <1>13,
     <1>14, <1>15, <1>16, <1>17
     DEF Next, Reconcile, Environment

-----------------------------------------------------------------------------
(***************************************************************************)
(* Verdicts.                                                               *)
(***************************************************************************)

\* There is no verdict at the start.
LEMMA VerdictsInit == Init => Verdicts
BY DEF Init, Verdicts, NoWf, Gone

\* What each kind of write does to the stored phase and statuses.
LEMMA StatusWrites ==
    ASSUME TypeOK, [Next]_vars
    PROVE  \/ /\ api'.live = api.live /\ api'.uid = api.uid /\ api'.phase = api.phase
              /\ api'.ts = api.ts /\ api'.usage = api.usage
           \/ api'.phase = "None" /\ (~api.live \/ ~api'.live)
           \/ /\ CanWrite /\ api'.ts = wf.ts
              /\ \/ pc = "fail" /\ api'.phase = "Failed"
                 \/ pc = "complete" /\ api'.phase = "Completed"
                 \/ pc = "spawn" /\ api'.phase = wf.phase
           \/ CanWrite /\ pc = "init" /\ api'.phase = "Pending"
<1> DEFINE Goal ==
      \/ /\ api'.live = api.live /\ api'.uid = api.uid /\ api'.phase = api.phase
         /\ api'.ts = api.ts /\ api'.usage = api.usage
      \/ api'.phase = "None" /\ (~api.live \/ ~api'.live)
      \/ /\ CanWrite /\ api'.ts = wf.ts
         /\ \/ pc = "fail" /\ api'.phase = "Failed"
            \/ pc = "complete" /\ api'.phase = "Completed"
            \/ pc = "spawn" /\ api'.phase = wf.phase
      \/ CanWrite /\ pc = "init" /\ api'.phase = "Pending"
<1> SUFFICES Goal
  OBVIOUS
<1> HIDE DEF Goal
<1>0. UNCHANGED api => Goal
  BY DEF Goal
<1>1. CASE RemoveFinalizer
  BY <1>1 DEF RemoveFinalizer, UpdateAndReturn, Persist, Gone, Goal
<1>2. CASE InitStatus
  BY <1>2 DEF InitStatus, UpdateAndReturn, Persist, TypeOK, Object, Goal
<1>3. CASE MarkFailed \/ MarkCompleted \/ SaveStatus
  BY <1>3 DEF MarkFailed, MarkCompleted, SaveStatus, UpdateAndReturn, Persist, TypeOK, Object, Goal
<1>4. CASE AddFinalizer \/ AddFinalizerError
  BY <1>4 DEF AddFinalizer, AddFinalizerError, Persist, TypeOK, Object, Goal
<1>5. ASSUME NEW id \in ManifestIds, UserCreate(id) \/ UserUpdate(id)
      PROVE  Goal
  BY <1>5 DEF UserCreate, UserUpdate, Persist, Gone, TypeOK, Object, Goal
<1>6. CASE UserDelete
  BY <1>6 DEF UserDelete, Persist, Gone, TypeOK, Object, Goal
<1>7. CASE Get \/ SyncPods \/ Plan \/ PlanError \/ CacheAdvance \/ Crash
  BY <1>0, <1>7 DEF Get, SyncPods, Plan, PlanError, CacheAdvance, Crash
<1>8. ASSUME NEW t \in TaskNames,
             \/ RecordExecution(t) \/ AdoptTaskPod(t) \/ TaskPodExists(t)
             \/ CreateTaskPod(t) \/ CreateTaskPodError(t)
      PROVE  Goal
  BY <1>0, <1>8 DEF RecordExecution, AdoptTaskPod, TaskPodExists, CreateTaskPod,
                    CreateTaskPodError
<1>9. ASSUME NEW p \in PodNames,
             \/ PodCacheSync(p) \/ PodSucceeds(p) \/ PodFails(p)
             \/ PodLoss(p) \/ Collect(p)
      PROVE  Goal
  BY <1>0, <1>9 DEF PodCacheSync, PodSucceeds, PodFails, PodLoss, Collect, OnlyPods
<1>10. CASE UNCHANGED vars
  BY <1>0, <1>10 DEF vars
<1>11. QED
  BY <1>1, <1>2, <1>3, <1>4, <1>5, <1>6, <1>7, <1>8, <1>9, <1>10
     DEF Next, Reconcile, Environment

\* Every step keeps the stored verdict in line with the stored task statuses.
LEMMA VerdictsStep == TypeOK /\ InMemory /\ Verdicts /\ [Next]_vars => Verdicts'
BY StatusWrites DEF Verdicts, InMemory

-----------------------------------------------------------------------------
(***************************************************************************)
(* The theorems.                                                           *)
(***************************************************************************)

\* The invariant holds in every reachable state.
THEOREM Invariance == Spec => []Inductive
<1>1. Init => Inductive
  BY VersionsInit, InMemoryInit, EvidenceInit, OwnershipInit, VerdictsInit DEF Inductive
<1>2. TypeOK /\ TypeOK' /\ Inductive /\ [Next]_vars => Inductive'
  BY VersionsStep, InMemoryStep, EvidenceStep, OwnershipStep, VerdictsStep DEF Inductive
<1>3. QED
  BY <1>1, <1>2, TypeCorrect, PTL DEF Spec

\* No pod exists whose dependencies had not run to success when createTaskPod
\* was called for it: for every workflow, cyclic ones included, with colliding
\* pod names, changing specs, stale caches, lost replies and crashes.
THEOREM DependenciesFirst == Spec => []DependencyOrder
<1>1. Inductive => DependencyOrder
  BY DEF Inductive, Evidence
<1>2. QED
  BY <1>1, Invariance, PTL

\* A workflow is stored as Failed only with a Failed task, and as Completed only
\* when every task the status knows has Succeeded and a pod of it really did.
THEOREM VerdictsJustified == Spec => []VerdictJustified
<1>1. Inductive => VerdictJustified
  <2> SUFFICES ASSUME Inductive
               PROVE  VerdictJustified
    OBVIOUS
  <2>1. InPhase(api.ts, "Succeeded") \subseteq Finished
    BY DEF Inductive, Evidence
  <2>2. InPhase(api.ts, "Succeeded") # {} => ~NilStatuses(api)
    BY DEF NilStatuses, InPhase
  <2>3. QED
    BY <2>1, <2>2 DEF Inductive, Verdicts, VerdictJustified
<1>2. QED
  BY <1>1, Invariance, PTL

\* A stored verdict, with the statuses it was stored with, is never changed.
THEOREM VerdictsAreFinal == Spec => TerminalIsFinal
<1>1. TypeOK /\ Inductive /\ [Next]_vars =>
         [api.live /\ api'.live /\ api.uid = api'.uid /\ Terminal(api) =>
             api'.phase = api.phase /\ api'.ts = api.ts /\ api'.usage = api.usage]_vars
  <2> SUFFICES ASSUME TypeOK, Inductive, [Next]_vars, api.live, api'.live, Terminal(api)
               PROVE  api'.phase = api.phase /\ api'.ts = api.ts /\ api'.usage = api.usage
    OBVIOUS
  <2>1. ~(CanWrite /\ pc \in {"fail", "complete", "spawn"})
    BY DEF CanWrite, Inductive, InMemory, Current
  <2>2. ~(CanWrite /\ pc = "init")
    <3>1. CanWrite /\ pc = "init" => NilStatuses(api)
      BY DEF CanWrite, Inductive, InMemory, Current, NilStatuses
    <3>2. ~NilStatuses(api)
      BY DEF Inductive, Verdicts, Terminal, NilStatuses, InPhase
    <3>3. QED
      BY <3>1, <3>2
  <2>3. QED
    BY <2>1, <2>2, StatusWrites
<1>2. QED
  BY <1>1, TypeCorrect, Invariance, PTL DEF Spec, TerminalIsFinal

\* createTaskPod only ever creates pods for a stored workflow object that the
\* finalizer still holds, so no deletion leaves a pod without an owner.
THEOREM PodsHaveOwners == Spec => NoOrphanPods
<1>1. ASSUME TypeOK, Inductive, [Next]_vars, NEW p \in PodNames,
             pods'[p] # pods[p], pods'[p].phase = "Active"
      PROVE  api.live /\ api.finalizer /\ api.uid = pods'[p].uid
  <2>1. PICK t \in TaskNames : CreateTaskPod(t)
    <3>1. ASSUME NEW q \in PodNames,
                 PodSucceeds(q) \/ PodFails(q) \/ PodLoss(q) \/ Collect(q)
          PROVE  FALSE
      <4>1. \A r \in PodNames \ {q} : pods'[r] = pods[r]
        BY <1>1, <3>1 DEF PodSucceeds, PodFails, PodLoss, Collect, TypeOK
      <4>2. pods'[q].phase \in {"Succeeded", "Failed", "None"}
        BY <1>1, <3>1 DEF PodSucceeds, PodFails, PodLoss, Collect, NoPod, TypeOK, Pod
      <4>3. QED
        BY <1>1, <4>1, <4>2
    <3>2. ~UNCHANGED pods
      BY <1>1
    <3>3. QED
      BY <1>1, <3>1, <3>2
         DEF Next, Reconcile, Environment, vars, Get, RemoveFinalizer, AddFinalizer,
             AddFinalizerError, InitStatus, SyncPods, RecordExecution, MarkFailed,
             MarkCompleted, Plan, PlanError, AdoptTaskPod, TaskPodExists,
             CreateTaskPodError, SaveStatus, UpdateAndReturn, UserCreate, UserUpdate,
             UserDelete, OnlyWorkflow, CacheAdvance, PodCacheSync, Crash
  <2>2. pods'[p] = NewPod(t)
    BY <1>1, <2>1 DEF CreateTaskPod, TypeOK
  <2>3. pc = "spawn"
    BY <2>1 DEF CreateTaskPod, IsNext
  <2>4. QED
    BY <1>1, <2>2, <2>3 DEF NewPod, Inductive, Ownership
<1>2. TypeOK /\ Inductive /\ [Next]_vars =>
         [\A p \in PodNames :
             pods'[p] # pods[p] /\ pods'[p].phase = "Active" =>
                api.live /\ api.finalizer /\ api.uid = pods'[p].uid]_vars
  BY <1>1
<1>3. QED
  BY <1>2, TypeCorrect, Invariance, PTL DEF Spec, NoOrphanPods

-----------------------------------------------------------------------------
(***************************************************************************)
(* The contract.                                                           *)
(***************************************************************************)

\* Reading the abstract board off the stored object.
LEMMA BoardFacts ==
    ASSUME NEW o \in Object
    PROVE  /\ Board(o) \in [TaskNames -> TaskPhases]
           /\ \A t \in TaskNames : Board(o)[t] = o.ts[t].phase
           /\ \A p : Abstract!At(Board(o), p) = InPhase(o.ts, p)
           /\ NilStatuses(o) => Board(o) = Abstract!Blank
           /\ o.ts = NoStatuses => Board(o) = Abstract!Blank
<1>1. Board(o) \in [TaskNames -> TaskPhases] /\ \A t \in TaskNames : Board(o)[t] = o.ts[t].phase
  BY DEF Board, Object, TaskStatus
<1>2. \A p : Abstract!At(Board(o), p) = InPhase(o.ts, p)
  BY <1>1 DEF Abstract!At, InPhase
<1>3. NilStatuses(o) => Board(o) = Abstract!Blank
  BY DEF NilStatuses, InPhase, Board, Abstract!Blank
<1>4. o.ts = NoStatuses => Board(o) = Abstract!Blank
  BY DEF NoStatuses, NoTask, Board, Abstract!Blank
<1>5. QED
  BY <1>1, <1>2, <1>3, <1>4

\* A step that leaves what the contract shows alone.
LEMMA SameBoard ==
    ASSUME api'.live = api.live, api'.uid = api.uid, api'.spec = api.spec,
           api'.ts = api.ts, api'.phase = api.phase
    PROVE  UNCHANGED Abstract!board_vars
BY DEF Abstract!board_vars, Board

\* The five writes that end a pass are steps of the contract.
LEMMA WritesKeepContract ==
    ASSUME TypeOK, TypeOK', InMemory,
           RemoveFinalizer \/ InitStatus \/ MarkFailed \/ MarkCompleted \/ SaveStatus
    PROVE  [Abstract!Change]_(Abstract!board_vars)
<1>1. CASE UNCHANGED api
  BY <1>1, SameBoard
<1> SUFFICES ASSUME api' # api
             PROVE  Abstract!Change
  BY <1>1
<1>2. ASSUME NEW new \in Object, NEW requeue, UpdateAndReturn(new, requeue)
      PROVE  /\ CanWrite
             /\ SameMeta(api', new) /\ api'.ts = new.ts /\ api'.phase = new.phase
  BY <1>2, PersistEffect DEF UpdateAndReturn
<1>3. CanWrite => api.live /\ wf.rv = api.rv
  BY DEF CanWrite
<1>4. api \in Object /\ api' \in Object /\ wf \in Object
  BY DEF TypeOK
<1>5. CASE RemoveFinalizer
  <2>1. CanWrite /\ SameMeta(api', Gone(wf.uid, wf.rv)) /\ api'.ts = NoStatuses
        /\ api'.phase = "None"
    BY <1>2, <1>5, WrittenObjects DEF RemoveFinalizer, Gone
  <2>2. wf.uid = api.uid /\ api.live
    BY <1>3, <1>5, <2>1 DEF RemoveFinalizer, InMemory, Current, SameMeta
  <2>3. ~api'.live /\ api'.uid = api.uid
    BY <2>1, <2>2 DEF SameMeta, Gone
  <2>4. api'.live = FALSE /\ api'.spec \in ManifestIds /\ Board(api') = Abstract!Blank
    BY <1>4, <2>1, <2>3, BoardFacts DEF Object
  <2>5. Abstract!Remove
    BY <2>1, <2>2, <2>3, <2>4 DEF Abstract!Remove, Abstract!Blank
  <2>6. QED
    BY <2>5 DEF Abstract!Change
<1>6. ASSUME CanWrite, pc # "idle", SameMeta(api', wf)
      PROVE  /\ api.live /\ Current
             /\ api'.live = api.live /\ api'.uid = api.uid /\ api'.spec = api.spec
             /\ wf.spec = api.spec
  BY <1>3, <1>6 DEF InMemory, Current, SameMeta
<1>7. CASE InitStatus
  <2> DEFINE new == [wf EXCEPT !.phase = "Pending",
                               !.ts = InitialStatuses(Manifest[wf.spec])]
  <2>1. new \in Object /\ UpdateAndReturn(new, TRUE) /\ pc = "init"
    BY <1>7, WrittenObjects DEF InitStatus
  <2>2. SameMeta(new, wf) /\ new.ts = InitialStatuses(Manifest[wf.spec]) /\ new.phase = "Pending"
    BY <1>4 DEF SameMeta, Object
  <2>3. CanWrite /\ SameMeta(api', wf) /\ api'.ts = InitialStatuses(Manifest[wf.spec])
        /\ api'.phase = "Pending"
    BY <1>2, <2>1, <2>2 DEF SameMeta
  <2>4. /\ api.live /\ Current
        /\ api'.live = api.live /\ api'.uid = api.uid /\ api'.spec = api.spec
        /\ wf.spec = api.spec
    BY <1>6, <2>1, <2>3
  <2>5. NilStatuses(api)
    BY <2>1, <2>4 DEF InMemory, NilStatuses
  <2>6. Board(api) = Abstract!Blank
    BY <1>4, <2>5, BoardFacts
  <2>7. Board(api') = [t \in TaskNames |->
                          IF t \in Tasks(Manifest[api.spec]) THEN "Pending" ELSE "Absent"]
    BY <2>3, <2>4 DEF Board, InitialStatuses, NoTask
  <2>8. Abstract!Admit
    BY <2>3, <2>4, <2>6, <2>7 DEF Abstract!Admit, Abstract!Blank, Abstract!Tasks, Tasks
  <2>9. QED
    BY <2>8 DEF Abstract!Change
<1>8. CASE MarkFailed \/ MarkCompleted
  <2>1. /\ [wf EXCEPT !.phase = "Failed"].ts = wf.ts
        /\ [wf EXCEPT !.phase = "Failed"].phase = "Failed"
        /\ SameMeta([wf EXCEPT !.phase = "Failed"], wf)
        /\ [wf EXCEPT !.phase = "Completed", !.usage = NoAllocations].ts = wf.ts
        /\ [wf EXCEPT !.phase = "Completed", !.usage = NoAllocations].phase = "Completed"
        /\ SameMeta([wf EXCEPT !.phase = "Completed", !.usage = NoAllocations], wf)
    BY <1>4 DEF SameMeta, Object
  <2>2. /\ CanWrite /\ SameMeta(api', wf) /\ api'.ts = wf.ts
        /\ \/ pc = "fail" /\ api'.phase = "Failed"
           \/ pc = "complete" /\ api'.phase = "Completed"
    BY <1>2, <1>8, <2>1, WrittenObjects DEF MarkFailed, MarkCompleted, SameMeta
  <2>3. /\ api.live /\ Current
        /\ api'.live = api.live /\ api'.uid = api.uid /\ api'.spec = api.spec
    BY <1>6, <2>2
  <2>4. ~Terminal(api) /\ \A t \in TaskNames : Follows(api, wf, t)
    BY <2>2, <2>3 DEF InMemory
  <2>5. \A t \in TaskNames :
           \/ Board(api')[t] = Board(api)[t]
           \/ Board(api)[t] = "Running" /\ Board(api')[t] \in {"Succeeded", "Failed"}
    BY <1>4, <2>2, <2>4, BoardFacts DEF Follows
  <2>6. Abstract!Open
    BY <2>4 DEF Abstract!Open, Terminal
  <2>7. \/ Abstract!At(Board(api'), "Failed") # {} /\ api'.phase = "Failed"
        \/ /\ Abstract!At(Board(api'), "Succeeded") # {}
           /\ TaskNames = Abstract!At(Board(api'), "Succeeded") \cup Abstract!At(Board(api'), "Absent")
           /\ api'.phase = "Completed"
    BY <1>4, <2>2, BoardFacts DEF InMemory
  <2>8. Abstract!Conclude
    BY <1>4, <2>3, <2>5, <2>6, <2>7, BoardFacts
       DEF Abstract!Conclude, Abstract!Finish, Abstract!TaskPhases, TaskPhases
  <2>9. QED
    BY <2>8 DEF Abstract!Change
<1>9. CASE SaveStatus
  <2> DEFINE new == [wf EXCEPT !.usage = RunningAllocations(wf.ts)]
  <2>1. new \in Object /\ UpdateAndReturn(new, TRUE) /\ pc = "spawn"
    BY <1>9, WrittenObjects DEF SaveStatus
  <2>2. SameMeta(new, wf) /\ new.ts = wf.ts /\ new.phase = wf.phase
    BY <1>4 DEF SameMeta, Object
  <2>3. CanWrite /\ SameMeta(api', wf) /\ api'.ts = wf.ts /\ api'.phase = wf.phase
    BY <1>2, <2>1, <2>2 DEF SameMeta
  <2>4. /\ api.live /\ Current
        /\ api'.live = api.live /\ api'.uid = api.uid /\ api'.spec = api.spec
        /\ wf.spec = api.spec
    BY <1>6, <2>1, <2>3
  <2>5. /\ ~Terminal(api) /\ InPhase(wf.ts, "Failed") = {} /\ wf.phase = "Running"
        /\ \A t \in TaskNames : Follows(api, wf, t) \/ Begun(api, wf, t)
    BY <2>1, <2>4 DEF InMemory
  <2>6. \A t \in TaskNames :
           \/ Board(api')[t] = Board(api)[t]
           \/ Board(api)[t] = "Running" /\ Board(api')[t] \in {"Succeeded", "Failed"}
           \/ /\ Board(api)[t] \in {"Absent", "Pending"}
              /\ Board(api')[t] = "Running"
              /\ t \in Tasks(Manifest[api.spec])
              /\ Manifest[api.spec].deps[t] \subseteq Abstract!At(Board(api'), "Succeeded")
    BY <1>4, <2>3, <2>4, <2>5, BoardFacts DEF Follows, Begun
  <2>7. Abstract!Open
    BY <2>5 DEF Abstract!Open, Terminal
  <2>8. Abstract!At(Board(api'), "Failed") = {}
    BY <1>4, <2>3, <2>5, BoardFacts
  <2>9. Abstract!Advance
    BY <1>4, <2>3, <2>4, <2>5, <2>6, <2>7, <2>8, BoardFacts
       DEF Abstract!Advance, Abstract!Finish, Abstract!Begin, Abstract!Tasks, Tasks,
           Abstract!TaskPhases, TaskPhases
  <2>10. QED
    BY <2>9 DEF Abstract!Change
<1>10. QED
  BY <1>5, <1>7, <1>8, <1>9

\* Every step of the system is a step of the contract or none.
LEMMA ContractStep ==
    TypeOK /\ TypeOK' /\ InMemory /\ [Next]_vars =>
        [Abstract!Change]_(Abstract!board_vars)
<1> SUFFICES ASSUME TypeOK, TypeOK', InMemory, [Next]_vars
             PROVE  [Abstract!Change]_(Abstract!board_vars)
  OBVIOUS
<1>0. UNCHANGED api => UNCHANGED Abstract!board_vars
  BY SameBoard
<1>1. CASE RemoveFinalizer \/ InitStatus \/ MarkFailed \/ MarkCompleted \/ SaveStatus
  BY <1>1, WritesKeepContract
<1>2. CASE AddFinalizer \/ AddFinalizerError
  <2>1. /\ api'.live = api.live /\ api'.uid = api.uid /\ api'.spec = api.spec
        /\ api'.ts = api.ts /\ api'.phase = api.phase
    BY <1>2 DEF AddFinalizer, AddFinalizerError, Persist, TypeOK, Object
  <2>2. QED
    BY <2>1, SameBoard
<1>3. ASSUME NEW id \in ManifestIds, UserCreate(id)
      PROVE  Abstract!Change
  <2>1. /\ ~api.live /\ api.uid < MaxUid
        /\ api'.live = TRUE /\ api'.uid = api.uid + 1 /\ api'.spec = id
        /\ api'.ts = NoStatuses /\ api'.phase = "None"
    BY <1>3 DEF UserCreate, Persist, Gone
  <2>2. Board(api') = Abstract!Blank
    BY <2>1, BoardFacts DEF TypeOK
  <2>3. Abstract!Submit
    BY <2>1, <2>2 DEF Abstract!Submit, Abstract!Blank
  <2>4. QED
    BY <2>3 DEF Abstract!Change
<1>4. ASSUME NEW id \in ManifestIds, UserUpdate(id)
      PROVE  Abstract!Change
  <2>1. /\ api.live /\ api'.live = api.live /\ api'.uid = api.uid /\ api'.spec = id
        /\ api'.ts = api.ts /\ api'.phase = api.phase
    BY <1>4 DEF UserUpdate, Persist, TypeOK, Object
  <2>2. Board(api') = Board(api)
    BY <2>1 DEF Board
  <2>3. Abstract!Edit
    BY <2>1, <2>2 DEF Abstract!Edit
  <2>4. QED
    BY <2>3 DEF Abstract!Change
<1>5. CASE UserDelete
  <2>1. CASE api.finalizer
    <3>1. /\ api'.live = api.live /\ api'.uid = api.uid /\ api'.spec = api.spec
          /\ api'.ts = api.ts /\ api'.phase = api.phase
      BY <1>5, <2>1 DEF UserDelete, Persist, TypeOK, Object
    <3>2. QED
      BY <3>1, SameBoard
  <2>2. CASE ~api.finalizer
    <3>1. /\ api.live /\ api'.live = FALSE /\ api'.uid = api.uid
          /\ api'.ts = NoStatuses /\ api'.phase = "None"
      BY <1>5, <2>2 DEF UserDelete, Persist, Gone
    <3>2. Board(api') = Abstract!Blank /\ api'.spec \in ManifestIds
      BY <3>1, BoardFacts DEF TypeOK, Object
    <3>3. Abstract!Remove
      BY <3>1, <3>2 DEF Abstract!Remove, Abstract!Blank
    <3>4. QED
      BY <3>3 DEF Abstract!Change
  <2>3. QED
    BY <2>1, <2>2
<1>6. CASE Get \/ SyncPods \/ Plan \/ PlanError \/ CacheAdvance \/ Crash
  BY <1>0, <1>6 DEF Get, SyncPods, Plan, PlanError, CacheAdvance, Crash
<1>7. ASSUME NEW t \in TaskNames,
             \/ RecordExecution(t) \/ AdoptTaskPod(t) \/ TaskPodExists(t)
             \/ CreateTaskPod(t) \/ CreateTaskPodError(t)
      PROVE  UNCHANGED Abstract!board_vars
  BY <1>0, <1>7 DEF RecordExecution, AdoptTaskPod, TaskPodExists, CreateTaskPod,
                    CreateTaskPodError
<1>8. ASSUME NEW p \in PodNames,
             \/ PodCacheSync(p) \/ PodSucceeds(p) \/ PodFails(p)
             \/ PodLoss(p) \/ Collect(p)
      PROVE  UNCHANGED Abstract!board_vars
  BY <1>0, <1>8 DEF PodCacheSync, PodSucceeds, PodFails, PodLoss, Collect, OnlyPods
<1>9. CASE UNCHANGED vars
  BY <1>0, <1>9 DEF vars
<1>10. QED
  BY <1>1, <1>2, <1>3, <1>4, <1>5, <1>6, <1>7, <1>8, <1>9
     DEF Next, Reconcile, Environment

\* The controller implements the contract: seen from the stored status alone,
\* every interleaving of stale reads, rejected and half-lost writes, user
\* edits, deletions and restarts looks like a run of WorkflowContract.
THEOREM Refinement == Spec => KeepsContract
<1>1. Init => Abstract!Empty
  <2> SUFFICES ASSUME Init PROVE Abstract!Empty
    OBVIOUS
  <2>1. NoWf \in Object /\ NoWf.live = FALSE /\ NoWf.uid = 0 /\ NoWf.phase = "None"
        /\ NoWf.ts = NoStatuses
    BY NeutralTypes DEF NoWf, Gone
  <2>2. Board(NoWf) = Abstract!Blank /\ NoWf.spec \in ManifestIds
    BY <2>1, BoardFacts DEF Object
  <2>3. QED
    BY <2>1, <2>2 DEF Init, Abstract!Empty
<1>2. TypeOK /\ TypeOK' /\ Inductive /\ [Next]_vars => [Abstract!Change]_(Abstract!board_vars)
  BY ContractStep DEF Inductive
<1>3. QED
  BY <1>1, <1>2, TypeCorrect, Invariance, PTL DEF Spec, KeepsContract, Abstract!Contract

\* No task of a workflow object goes back to an earlier phase in the stored
\* status or from one result to the other.
THEOREM PhasesAdvance == Spec => PhaseNeverRegresses
<1>1. ASSUME TypeOK, TypeOK', Inductive, [Next]_vars, api.live, api'.live, api.uid = api'.uid,
             NEW t \in TaskNames
      PROVE  \/ api'.ts[t].phase = api.ts[t].phase
             \/ PhaseRank(api.ts[t].phase) < PhaseRank(api'.ts[t].phase)
  <2>1. [Abstract!Change]_(Abstract!board_vars)
    BY <1>1, ContractStep DEF Inductive
  <2>2. Board(api)[t] = api.ts[t].phase /\ Board(api')[t] = api'.ts[t].phase
    BY <1>1, BoardFacts DEF TypeOK
  <2>3. CASE Board(api') = Board(api)
    BY <2>2, <2>3
  <2>4. CASE Abstract!Admit
    <3>1. Board(api)[t] = "Absent" /\ Board(api')[t] \in {"Absent", "Pending"}
      BY <2>4 DEF Abstract!Admit, Abstract!Blank
    <3>2. QED
      BY <2>2, <3>1 DEF PhaseRank
  <2>5. CASE Abstract!Advance \/ Abstract!Conclude
    <3>1. \/ Board(api')[t] = Board(api)[t]
          \/ Board(api)[t] = "Running" /\ Board(api')[t] \in {"Succeeded", "Failed"}
          \/ Board(api)[t] \in {"Absent", "Pending"} /\ Board(api')[t] = "Running"
      BY <2>5 DEF Abstract!Advance, Abstract!Conclude, Abstract!Finish, Abstract!Begin
    <3>2. QED
      BY <2>2, <3>1 DEF PhaseRank
  <2>6. QED
    BY <1>1, <2>1, <2>3, <2>4, <2>5
       DEF Abstract!Change, Abstract!board_vars, Abstract!Submit, Abstract!Edit, Abstract!Remove
<1>2. TypeOK /\ TypeOK' /\ Inductive /\ [Next]_vars =>
         [api.live /\ api'.live /\ api.uid = api'.uid =>
             \A t \in TaskNames :
                \/ api'.ts[t].phase = api.ts[t].phase
                \/ PhaseRank(api.ts[t].phase) < PhaseRank(api'.ts[t].phase)]_vars
  BY <1>1
<1>3. QED
  BY <1>2, TypeCorrect, Invariance, PTL DEF Spec, PhaseNeverRegresses
=============================================================================
