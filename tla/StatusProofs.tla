---------------------------- MODULE StatusProofs ----------------------------
(***************************************************************************)
(* Theorems about what the stored status says of resources, results and    *)
(* pods, for every value of the constants of AdaptiveWorkflow.  They rest  *)
(* on the invariant Accounts, which in turn rests on Inductive.            *)
(***************************************************************************)
EXTENDS AdaptiveWorkflowProofs, SchedulingProofs

-----------------------------------------------------------------------------
(***************************************************************************)
(* Sound versions.                                                         *)
(***************************************************************************)

\* The manifest of a well-typed object is one.
LEMMA ManifestFacts ==
    ASSUME NEW o \in Object
    PROVE  /\ IsManifest(Manifest[o.spec])
           /\ Manifest[o.spec].max \in Resource
           /\ o.ts \in [TaskNames -> TaskStatus]
           /\ o.usage \in [TaskNames -> Resource]
           /\ o.gen \in Nat /\ o.live \in BOOLEAN
           /\ Tasks(Manifest[o.spec]) \subseteq TaskNames
<1>1. IsManifest(Manifest[o.spec])
  BY ManifestAssumption DEF Object
<1>2. Tasks(Manifest[o.spec]) \subseteq TaskNames
  BY <1>1 DEF IsManifest, Tasks
<1>3. o.gen \in Nat
  BY BoundFacts DEF Object
<1>4. QED
  BY <1>1, <1>2, <1>3 DEF Object, IsManifest

\* Soundness is about the incarnation, the spec and the status alone.
LEMMA SoundSame ==
    ASSUME NEW o, NEW v, Sound(v), o.live = v.live, o.gen = v.gen, o.spec = v.spec,
           o.ts = v.ts, o.usage = v.usage
    PROVE  Sound(o)
BY DEF Sound, InBudget, Covered, NilStatuses, Foreseen

\* Nothing uses nothing, which is within every budget.
LEMMA ZeroTotal ==
    ASSUME NEW res, \A t \in TaskNames : res[t] = NoResource
    PROVE  Total(res, TaskNames) = NoResource
<1> DEFINE zero == [t \in TaskNames |-> Times(NoResource, 0)]
<1>1. Times(NoResource, 0) = NoResource
  BY DEF Times, NoResource
<1>2. AllResources(res, TaskNames) /\ \A t \in TaskNames : res[t] = Times(res[t], 0)
  BY <1>1, NeutralTypes DEF AllResources
<1>3. Total(res, TaskNames) \in Resource
  BY <1>2, TotalType, ManifestAssumption
<1>4. Total(res, TaskNames) = Times(Total(res, TaskNames), 0)
  BY <1>2, TotalScale, ManifestAssumption
<1>5. Times(Total(res, TaskNames), 0) = NoResource
  BY <1>3 DEF Times, NoResource, Resource
<1>6. QED
  BY <1>4, <1>5

\* So statuses without a running task are within every budget.
LEMMA NothingRuns ==
    ASSUME NEW ts \in [TaskNames -> TaskStatus], InPhase(ts, "Running") = {},
           NEW max \in Resource
    PROVE  Within(max, ResourceUsage(ts)) /\ Within(max, Total(NoAllocations, TaskNames))
<1>1. ResourceUsage(ts) = NoResource
  BY ZeroTotal DEF ResourceUsage, RunningAllocations, InPhase
<1>2. Total(NoAllocations, TaskNames) = NoResource
  BY ZeroTotal DEF NoAllocations
<1>3. QED
  BY <1>1, <1>2 DEF Within, NoResource, Resource

\* No object, a new object and initialised statuses are sound.
LEMMA FreshSound ==
    /\ \A u \in 0..MaxUid, v \in Nat : Sound(Gone(u, v))
    /\ \A u \in 0..MaxUid, v \in Nat, id \in ManifestIds :
          Sound([Gone(u, v) EXCEPT !.live = TRUE, !.gen = 1, !.spec = id])
    /\ \A o \in Object : Sound(o) =>
          Sound([o EXCEPT !.phase = "Pending", !.ts = InitialStatuses(Manifest[o.spec])])
<1>1. ASSUME NEW u \in 0..MaxUid, NEW v \in Nat
      PROVE  Sound(Gone(u, v))
  BY DEF Sound, Gone
<1>2. ASSUME NEW u \in 0..MaxUid, NEW v \in Nat, NEW id \in ManifestIds
      PROVE  Sound([Gone(u, v) EXCEPT !.live = TRUE, !.gen = 1, !.spec = id])
  <2> DEFINE o == [Gone(u, v) EXCEPT !.live = TRUE, !.gen = 1, !.spec = id]
  <2>1. /\ o.live = TRUE /\ o.gen = 1 /\ o.spec = id /\ o.ts = NoStatuses
        /\ o.usage = NoAllocations
    BY DEF Gone
  <2>2. InPhase(NoStatuses, "Running") = {} /\ InPhase(NoStatuses, "Absent") = TaskNames
        /\ \A t \in TaskNames : NoStatuses[t].phase = "Absent"
    BY DEF InPhase, NoStatuses, NoTask
  <2>3. Manifest[id].max \in Resource
    BY ManifestAssumption DEF IsManifest
  <2> HIDE DEF o
  <2>4. InBudget(o)
    BY <2>1, <2>2, <2>3, NothingRuns, NeutralTypes DEF InBudget
  <2>5. Covered(o)
    BY <2>1, <2>2 DEF Covered, NilStatuses
  <2>6. Foreseen(o)
    BY <2>1, <2>2 DEF Foreseen
  <2>7. Sound(o)
    BY <2>1, <2>4, <2>5, <2>6 DEF Sound
  <2>8. QED
    BY <2>7 DEF o
<1>3. ASSUME NEW v \in Object, Sound(v)
      PROVE  Sound([v EXCEPT !.phase = "Pending", !.ts = InitialStatuses(Manifest[v.spec])])
  <2> DEFINE o == [v EXCEPT !.phase = "Pending", !.ts = InitialStatuses(Manifest[v.spec])]
             ts == InitialStatuses(Manifest[v.spec])
  <2>1. /\ o.live = v.live /\ o.gen = v.gen /\ o.spec = v.spec /\ o.ts = ts
        /\ o.usage = v.usage
    BY DEF Object
  <2>2. /\ ts \in [TaskNames -> TaskStatus]
        /\ \A t \in TaskNames : ts[t].phase = IF t \in Tasks(Manifest[v.spec]) THEN "Pending" ELSE "Absent"
    BY NeutralTypes DEF InitialStatuses, TaskStatus, TaskPhases, NoTask
  <2> HIDE DEF o, ts
  <2>3. InPhase(ts, "Running") = {} /\ TaskNames \ InPhase(ts, "Absent") = Tasks(Manifest[v.spec])
        /\ \A t \in TaskNames : ts[t].phase \in {"Absent", "Pending"}
    BY <2>2, ManifestFacts DEF InPhase
  <2>4. v.gen = 1 => InBudget(o)
    BY <1>3, <2>1, <2>2, <2>3, NothingRuns, ManifestFacts DEF InBudget, Sound
  <2>5. Covered(o)
    BY <2>1, <2>3 DEF Covered
  <2>6. Foreseen(o)
    BY <2>1, <2>3 DEF Foreseen
  <2>7. Sound(o)
    BY <1>3, <2>1, <2>4, <2>5, <2>6 DEF Sound
  <2>8. QED
    BY <2>7 DEF o, ts
<1>4. QED
  BY <1>1, <1>2, <1>3

\* So is what a pass stores of a sound object at its end.
LEMMA ClosingSound ==
    ASSUME NEW v \in Object, Sound(v)
    PROVE  /\ Sound([v EXCEPT !.phase = "Failed"])
           /\ Sound([v EXCEPT !.phase = "Running"])
           /\ Sound([v EXCEPT !.phase = "Completed", !.usage = NoAllocations])
           /\ Sound([v EXCEPT !.usage = RunningAllocations(v.ts)])
           /\ Sound([v EXCEPT !.finalizer = TRUE])
           /\ Sound([v EXCEPT !.deleting = TRUE])
<1>1. /\ Sound([v EXCEPT !.phase = "Failed"]) /\ Sound([v EXCEPT !.phase = "Running"])
      /\ Sound([v EXCEPT !.finalizer = TRUE]) /\ Sound([v EXCEPT !.deleting = TRUE])
  BY SoundSame DEF Object
<1>2. ASSUME NEW o, o.live = v.live, o.gen = v.gen, o.spec = v.spec, o.ts = v.ts,
             v.gen = 1 => Within(Manifest[v.spec].max, Total(o.usage, TaskNames))
      PROVE  Sound(o)
  BY <1>2 DEF Sound, InBudget, Covered, NilStatuses, Foreseen
<1>3. Within(Manifest[v.spec].max, Total(NoAllocations, TaskNames))
  <2>1. Total(NoAllocations, TaskNames) = NoResource
    BY ZeroTotal DEF NoAllocations
  <2>2. QED
    BY <2>1, ManifestFacts DEF Within, NoResource, Resource
<1>4. v.gen = 1 => Within(Manifest[v.spec].max, Total(RunningAllocations(v.ts), TaskNames))
  BY DEF Sound, InBudget, ResourceUsage
<1>5. Sound([v EXCEPT !.phase = "Completed", !.usage = NoAllocations])
  BY <1>2, <1>3 DEF Object
<1>6. Sound([v EXCEPT !.usage = RunningAllocations(v.ts)])
  BY <1>2, <1>4 DEF Object
<1>7. QED
  BY <1>1, <1>5, <1>6

\* Following pods keeps an object sound: running tasks only become fewer.
LEMMA SyncSound ==
    ASSUME NEW v \in Object, Sound(v),
           SyncedStatuses(v.ts) \in [TaskNames -> TaskStatus]
    PROVE  /\ Sound([v EXCEPT !.ts = SyncedStatuses(v.ts)])
           /\ InPhase(SyncedStatuses(v.ts), "Absent") = InPhase(v.ts, "Absent")
<1> DEFINE ts == SyncedStatuses(v.ts)
           o == [v EXCEPT !.ts = ts]
           max == Manifest[v.spec].max
<1>1. /\ o.live = v.live /\ o.gen = v.gen /\ o.spec = v.spec /\ o.ts = ts /\ o.usage = v.usage
  BY DEF Object
<1>2. \A t \in TaskNames :
         \/ ts[t] = v.ts[t]
         \/ v.ts[t].phase = "Running" /\ ts[t].phase \in {"Succeeded", "Failed"}
  BY ManifestFacts DEF SyncedStatuses, TaskStatus
<1>3. v.ts \in [TaskNames -> TaskStatus] /\ ts \in [TaskNames -> TaskStatus] /\ max \in Resource
  BY ManifestFacts
<1> HIDE DEF o, ts, max
<1>4. InPhase(ts, "Absent") = InPhase(v.ts, "Absent")
  BY <1>2 DEF InPhase
<1>5. AtMost(ResourceUsage(ts), ResourceUsage(v.ts))
  <2> DEFINE a == RunningAllocations(ts)
             b == RunningAllocations(v.ts)
  <2>1. AllResources(a, TaskNames) /\ AllResources(b, TaskNames)
    BY <1>3, UsageType
  <2>2. \A t \in TaskNames : a[t] = b[t] \/ a[t] = NoResource
    BY <1>2 DEF RunningAllocations
  <2>3. \A t \in TaskNames : AtMost(a[t], b[t])
    BY <2>1, <2>2 DEF AtMost, AllResources, NoResource, Resource
  <2> HIDE DEF a, b
  <2>4. AtMost(Total(a, TaskNames), Total(b, TaskNames))
    BY <2>1, <2>3, TotalMonotone, ManifestAssumption
  <2>5. QED
    BY <2>4 DEF a, b, ResourceUsage
<1>6. v.gen = 1 => Within(max, ResourceUsage(ts))
  BY <1>3, <1>5, UsageType, WithinLess DEF Sound, InBudget, max
<1>7. v.gen = 1 => InBudget(o)
  BY <1>1, <1>6 DEF InBudget, Sound, max
<1>8. v.gen = 1 => Covered(o)
  BY <1>1, <1>4 DEF Covered, NilStatuses, Sound
<1>9. v.gen = 1 /\ Forecasts = {} => Foreseen(o)
  BY <1>1, <1>2 DEF Foreseen, Sound
<1>10. Sound(o)
  BY <1>1, <1>7, <1>8, <1>9 DEF Sound
<1>11. QED
  BY <1>4, <1>10 DEF o, ts

\* Starting a planned task keeps an object sound and the rest of the plan
\* affordable: its allocation moves from the plan to the running tasks.
LEMMA StartSound ==
    ASSUME NEW v \in Object, Sound(v), ~NilStatuses(v),
           NEW q \in [TaskNames -> Resource], NEW S \in SUBSET TaskNames, NEW t \in S,
           t \in Tasks(Manifest[v.spec]), v.ts[t].phase \in {"Absent", "Pending"},
           v.gen = 1 => Within(Manifest[v.spec].max, Plus(ResourceUsage(v.ts), Total(q, S))),
           v.gen = 1 /\ Forecasts = {} =>
              q[t] = BaselineNeed(Manifest[v.spec], t) /\ t \notin Unstartable(Manifest[v.spec]),
           NEW o, o = [v EXCEPT !.ts[t] = [phase |-> "Running", alloc |-> q[t]]]
    PROVE  /\ Sound(o)
           /\ ~NilStatuses(o)
           /\ v.gen = 1 => Within(Manifest[v.spec].max, Plus(ResourceUsage(o.ts), Total(q, S \ {t})))
<1> DEFINE max == Manifest[v.spec].max
           use == ResourceUsage(v.ts)
           rest == Total(q, S \ {t})
<1>1. /\ o.live = v.live /\ o.gen = v.gen /\ o.spec = v.spec /\ o.usage = v.usage
      /\ o.ts = [v.ts EXCEPT ![t] = [phase |-> "Running", alloc |-> q[t]]]
  BY DEF Object
<1>2. v.ts \in [TaskNames -> TaskStatus] /\ max \in Resource
  BY ManifestFacts
<1>3. /\ o.ts \in [TaskNames -> TaskStatus]
      /\ o.ts[t].phase = "Running" /\ o.ts[t].alloc = q[t]
      /\ \A s \in TaskNames \ {t} : o.ts[s] = v.ts[s]
  BY <1>1, <1>2 DEF TaskStatus, TaskPhases
<1>4. use \in Resource /\ rest \in Resource /\ q[t] \in Resource
  <2>1. IsFiniteSet(S \ {t}) /\ AllResources(q, S \ {t})
    BY FS_Subset, ManifestAssumption DEF AllResources
  <2>2. QED
    BY <1>2, <2>1, UsageType, TotalType
<1>5. ResourceUsage(o.ts) = Plus(use, q[t])
  <2> DEFINE a == RunningAllocations(o.ts)
             b == RunningAllocations(v.ts)
             R == TaskNames \ {t}
  <2>1. /\ AllResources(a, TaskNames) /\ AllResources(b, TaskNames)
        /\ AllResources(a, R) /\ AllResources(b, R)
        /\ IsFiniteSet(TaskNames) /\ IsFiniteSet(R)
    BY <1>2, <1>3, UsageType, FS_Subset, ManifestAssumption DEF AllResources
  <2>2. a[t] = q[t] /\ b[t] = NoResource /\ \A s \in R : a[s] = b[s]
    BY <1>3 DEF RunningAllocations
  <2>3. Total(a, TaskNames) = Plus(a[t], Total(a, R)) /\ Total(b, TaskNames) = Plus(b[t], Total(b, R))
    BY <2>1, TotalRemove
  <2> HIDE DEF a, b
  <2>4. Total(a, R) = Total(b, R)
    BY <2>1, <2>2, TotalSame
  <2>5. Total(b, R) \in Resource /\ NoResource \in Resource
    BY <2>1, TotalType, NeutralTypes
  <2> HIDE DEF R
  <2>6. Total(b, TaskNames) = Total(b, R)
    BY <2>2, <2>3, <2>5, PlusFacts
  <2>7. Total(a, TaskNames) = Plus(Total(b, TaskNames), q[t])
    BY <1>4, <2>2, <2>3, <2>4, <2>5, <2>6, PlusFacts
  <2>8. QED
    BY <2>7 DEF a, b, ResourceUsage
<1>6. Plus(use, Total(q, S)) = Plus(Plus(use, q[t]), rest)
  <2>1. IsFiniteSet(S) /\ AllResources(q, S)
    BY FS_Subset, ManifestAssumption DEF AllResources
  <2>2. Total(q, S) = Plus(q[t], rest)
    BY <2>1, TotalRemove
  <2> HIDE DEF use, rest
  <2>3. QED
    BY <1>4, <2>2, PlusAssociates
<1> HIDE DEF use, rest
<1>7. v.gen = 1 => Within(max, Plus(Plus(use, q[t]), rest)) /\ Within(max, Plus(use, q[t]))
  <2>1. Plus(use, q[t]) \in Resource /\ Plus(Plus(use, q[t]), rest) \in Resource
        /\ AtMost(Plus(use, q[t]), Plus(Plus(use, q[t]), rest))
    BY <1>4, PlusFacts
  <2>2. v.gen = 1 => Within(max, Plus(Plus(use, q[t]), rest))
    BY <1>6 DEF use
  <2>3. QED
    BY <1>2, <2>1, <2>2, WithinLess
<1>8. v.gen = 1 => InBudget(o)
  BY <1>1, <1>5, <1>7 DEF InBudget, Sound
<1>9. ~NilStatuses(o)
  BY <1>3 DEF NilStatuses, InPhase
<1>10. v.gen = 1 => Covered(o)
  <2> SUFFICES ASSUME v.gen = 1
               PROVE  TaskNames \ InPhase(o.ts, "Absent") = Tasks(Manifest[o.spec])
    BY DEF Covered
  <2>1. TaskNames \ InPhase(v.ts, "Absent") = Tasks(Manifest[v.spec])
    BY DEF Covered, Sound
  <2>2. InPhase(o.ts, "Absent") = InPhase(v.ts, "Absent") \ {t}
    BY <1>3 DEF InPhase
  <2>3. QED
    BY <1>1, <2>1, <2>2
<1>11. v.gen = 1 /\ Forecasts = {} => Foreseen(o)
  <2> SUFFICES ASSUME v.gen = 1, Forecasts = {}, NEW s \in TaskNames
               PROVE  /\ o.ts[s].phase = "Running" => o.ts[s].alloc = BaselineNeed(Manifest[o.spec], s)
                      /\ o.ts[s].phase \notin {"Absent", "Pending"} => s \notin Unstartable(Manifest[o.spec])
    BY DEF Foreseen
  <2>1. Foreseen(v)
    BY DEF Sound
  <2>2. CASE s = t
    BY <1>1, <1>3, <2>2
  <2>3. CASE s # t
    BY <1>1, <1>3, <2>1, <2>3 DEF Foreseen
  <2>4. QED
    BY <2>2, <2>3
<1>12. QED
  BY <1>1, <1>5, <1>7, <1>8, <1>9, <1>10, <1>11 DEF Sound, use, rest

\* A forecast, whoever makes it, is a resource map.
LEMMA PredictionsType ==
    ASSUME NEW m, IsManifest(m), NEW predictions \in Predictions(m)
    PROVE  IsResourceMap(predictions)
<1>1. CASE Forecasts = {}
  BY <1>1 DEF Predictions, BaselinePredict, IsManifest, IsResourceMap
<1>2. CASE Forecasts # {}
  BY <1>2, ControllerAssumption DEF Predictions, IsResourceMap
<1>3. QED
  BY <1>1, <1>2

\* A task the greedy plan takes fits into the budget by itself.
LEMMA FitsAlone ==
    ASSUME NEW m, IsManifest(m), NEW ts \in [TaskNames -> TaskStatus],
           NEW predictions, IsResourceMap(predictions),
           NEW chosen, IsGreedyPlan(m, ts, predictions, chosen), NEW t \in chosen
    PROVE  Within(m.max, resolveResources(m, predictions, t))
<1> DEFINE need == [s \in TaskNames |-> resolveResources(m, predictions, s)]
           taken == {s \in chosen : Before(m, s, t)}
           before == Plus(ResourceUsage(ts), Total(need, taken))
<1>1. t \in Ready(m, ts) /\ t \in TaskNames /\ taken \in SUBSET TaskNames
  BY DEF IsGreedyPlan, Ready, Tasks, IsManifest
<1>2. Within(m.max, Plus(before, need[t]))
  BY <1>1 DEF IsGreedyPlan
<1>3. \A s \in TaskNames : need[s] \in Resource
  BY NeedType
<1>4. before \in Resource
  <2>1. IsFiniteSet(taken) /\ AllResources(need, taken)
    BY <1>1, <1>3, FS_Subset, ManifestAssumption DEF AllResources
  <2> HIDE DEF need, taken
  <2>2. QED
    BY <2>1, UsageType, TotalType, PlusFacts
<1>5. need[t] = resolveResources(m, predictions, t) /\ need[t] \in Resource
  BY <1>1, <1>3
<1> HIDE DEF need, before
<1>6. Plus(before, need[t]) \in Resource /\ AtMost(need[t], Plus(before, need[t]))
  BY <1>4, <1>5, PlusFacts
<1>7. m.max \in Resource
  BY DEF IsManifest
<1>8. Within(m.max, need[t])
  BY <1>2, <1>5, <1>6, <1>7, WithinLess
<1>9. QED
  BY <1>5, <1>8

\* With the baseline, a plan never takes a task that can never start: its
\* dependencies have succeeded, so they are tasks and none of that kind.
LEMMA TakenStartable ==
    ASSUME NEW v \in Object, Sound(v), ~NilStatuses(v), v.gen = 1, Forecasts = {},
           NEW chosen,
           IsGreedyPlan(Manifest[v.spec], v.ts, BaselinePredict(Manifest[v.spec]), chosen),
           NEW t \in chosen
    PROVE  t \notin Unstartable(Manifest[v.spec])
<1> DEFINE m == Manifest[v.spec]
<1>1. IsManifest(m) /\ v.ts \in [TaskNames -> TaskStatus]
  BY ManifestFacts
<1>2. IsResourceMap(BaselinePredict(m))
  BY <1>1, PredictionsType DEF Predictions
<1>3. Within(m.max, BaselineNeed(m, t))
  BY <1>1, <1>2, FitsAlone DEF BaselineNeed
<1>4. m.deps[t] \subseteq InPhase(v.ts, "Succeeded")
  BY DEF IsGreedyPlan, Ready
<1>5. \A d \in InPhase(v.ts, "Succeeded") : d \in Tasks(m) /\ d \notin Unstartable(m)
  <2>1. TaskNames \ InPhase(v.ts, "Absent") = Tasks(m) /\ Foreseen(v)
    BY DEF Sound, Covered
  <2>2. QED
    BY <2>1 DEF InPhase, Foreseen
<1>6. SUFFICES ASSUME NEW S \in SUBSET Tasks(m), t \in S,
                      \A s \in S :
                         \/ ~Within(m.max, resolveResources(m, BaselinePredict(m), s))
                         \/ m.deps[s] \cap S # {}
                         \/ ~(m.deps[s] \subseteq Tasks(m))
               PROVE  FALSE
  BY DEF Unstartable
<1>7. PICK d \in m.deps[t] : d \in S
  BY <1>3, <1>4, <1>5, <1>6 DEF BaselineNeed
<1>8. d \in Unstartable(m)
  BY <1>6, <1>7 DEF Unstartable
<1>9. QED
  BY <1>4, <1>5, <1>7, <1>8

\* What a pass plans is affordable.
LEMMA PlanAffordable ==
    ASSUME TypeOK, TypeOK', Sound(wf), ~NilStatuses(wf), Plan
    PROVE  /\ wf.gen = 1 =>
                 Within(Manifest[wf.spec].max, Plus(ResourceUsage(wf.ts), Total(plan', todo')))
           /\ wf.gen = 1 /\ Forecasts = {} =>
                 \A t \in todo' : /\ plan'[t] = BaselineNeed(Manifest[wf.spec], t)
                                  /\ t \notin Unstartable(Manifest[wf.spec])
<1> DEFINE m == Manifest[wf.spec]
<1>1. wf \in Object /\ IsManifest(m) /\ wf.ts \in [TaskNames -> TaskStatus] /\ m.max \in Resource
  BY ManifestFacts DEF TypeOK
<1>2. PICK predictions \in Predictions(m), chosen \in SUBSET TaskNames :
         /\ IsGreedyPlan(m, wf.ts, predictions, chosen)
         /\ todo' = chosen
         /\ plan' = [t \in TaskNames |->
                       IF t \in chosen THEN resolveResources(m, predictions, t) ELSE NoResource]
  BY DEF Plan
<1>3. IsResourceMap(predictions)
  BY <1>1, PredictionsType
<1>4. ASSUME wf.gen = 1
      PROVE  Within(m.max, Plus(ResourceUsage(wf.ts), Total(plan', todo')))
  <2> DEFINE need == [t \in TaskNames |-> resolveResources(m, predictions, t)]
  <2>1. Within(m.max, ResourceUsage(wf.ts))
    BY <1>4 DEF Sound, InBudget
  <2>2. Within(m.max, Plus(ResourceUsage(wf.ts), Total(need, chosen)))
    BY <1>1, <1>2, <1>3, <2>1, GreedyKeepsBudget
  <2>3. IsFiniteSet(chosen) /\ \A t \in chosen : plan'[t] = need[t]
    BY <1>2, FS_Subset, ManifestAssumption
  <2>4. Total(plan', chosen) = Total(need, chosen)
    <3> HIDE DEF need
    <3>1. QED
      BY <2>3, TotalSame
  <2>5. QED
    BY <1>2, <2>2, <2>4
<1>5. ASSUME wf.gen = 1, Forecasts = {}, NEW t \in todo'
      PROVE  plan'[t] = BaselineNeed(m, t) /\ t \notin Unstartable(m)
  <2>1. predictions = BaselinePredict(m)
    BY <1>5 DEF Predictions
  <2>2. t \notin Unstartable(m)
    BY <1>1, <1>2, <1>5, <2>1, TakenStartable
  <2>3. QED
    BY <1>2, <1>5, <2>1, <2>2 DEF BaselineNeed
<1>6. QED
  BY <1>4, <1>5

-----------------------------------------------------------------------------
(***************************************************************************)
(* Every version is sound and every plan affordable.                       *)
(***************************************************************************)

\* What a write stores is what was asked for, but for the resourceVersion.
LEMMA StoredAsAsked ==
    ASSUME TypeOK, NEW new \in Object, Persist(new)
    PROVE  /\ SameMeta(api', new)
           /\ api'.ts = new.ts /\ api'.phase = new.phase /\ api'.usage = new.usage
           /\ stream' = stream \cup {api'}
BY DEF Persist, TypeOK, Object, SameMeta

\* A sound object is stored as a sound version.
LEMMA PersistSound ==
    ASSUME TypeOK, AllSound, NEW new \in Object, Sound(new), Persist(new)
    PROVE  Sound(api') /\ \A o \in stream' : Sound(o)
<1>1. Sound(api')
  BY StoredAsAsked, SoundSame DEF SameMeta
<1>2. QED
  BY <1>1, StoredAsAsked DEF AllSound

\* A pass that returns leaves nothing behind.
LEMMA ReturnSound ==
    ASSUME NEW requeue, Return(requeue), \A o \in stream' : Sound(o)
    PROVE  AllSound' /\ Affordable'
<1>1. Sound(NoWf)
  BY FreshSound, BoundFacts DEF NoWf
<1>2. wf' = NoWf /\ pc' = "idle"
  BY DEF Return
<1>3. Affordable'
  BY <1>2 DEF Affordable
<1>4. AllSound'
  BY <1>1, <1>2 DEF AllSound
<1>5. QED
  BY <1>3, <1>4

\* The writes that end a pass, accepted or not.
LEMMA UpdateSound ==
    ASSUME TypeOK, AllSound, NEW new \in Object, Sound(new), NEW requeue,
           UpdateAndReturn(new, requeue)
    PROVE  AllSound' /\ Affordable'
<1>1. Return(requeue) \/ Return(TRUE)
  BY DEF UpdateAndReturn
<1>2. Persist(new) \/ UNCHANGED <<api, stream>>
  BY DEF UpdateAndReturn
<1>3. \A o \in stream' : Sound(o)
  BY <1>2, PersistSound DEF AllSound
<1>4. QED
  BY <1>1, <1>3, ReturnSound

\* Starting the next task of the plan, with or without a new pod, or dropping it.
LEMMA SpawnSound ==
    ASSUME TypeOK, InMemory, AllSound, Affordable, NEW t \in TaskNames,
           AdoptTaskPod(t) \/ TaskPodExists(t) \/ CreateTaskPod(t) \/ CreateTaskPodError(t)
    PROVE  AllSound' /\ Affordable'
<1>1. /\ pc = "spawn" /\ pc' = "spawn" /\ t \in todo /\ todo' = todo \ {t}
      /\ plan' = plan /\ stream' = stream
      /\ (Start(t) \/ wf' = wf)
  BY DEF AdoptTaskPod, TaskPodExists, CreateTaskPod, CreateTaskPodError, IsNext
<1>2. wf \in Object /\ plan \in [TaskNames -> Resource] /\ todo \in SUBSET TaskNames
  BY DEF TypeOK
<1>3. Sound(wf) /\ ~NilStatuses(wf)
  BY <1>1 DEF AllSound, Affordable
<1>4. t \in Ready(Manifest[wf.spec], wf.ts)
  BY <1>1 DEF InMemory
<1>5. /\ wf.gen = 1 =>
            Within(Manifest[wf.spec].max, Plus(ResourceUsage(wf.ts), Total(plan, todo)))
      /\ wf.gen = 1 /\ Forecasts = {} =>
            \A s \in todo : /\ plan[s] = BaselineNeed(Manifest[wf.spec], s)
                            /\ s \notin Unstartable(Manifest[wf.spec])
  BY <1>1 DEF Affordable
<1>6. /\ Sound(wf') /\ ~NilStatuses(wf') /\ wf'.gen = wf.gen /\ wf'.spec = wf.spec
      /\ wf.gen = 1 =>
            Within(Manifest[wf.spec].max, Plus(ResourceUsage(wf'.ts), Total(plan, todo \ {t})))
  <2>1. CASE Start(t)
    <3>1. wf' = [wf EXCEPT !.ts[t] = [phase |-> "Running", alloc |-> plan[t]]]
      BY <2>1 DEF Start
    <3>2. t \in Tasks(Manifest[wf.spec]) /\ wf.ts[t].phase \in {"Absent", "Pending"}
      BY <1>4 DEF Ready
    <3>3. wf'.gen = wf.gen /\ wf'.spec = wf.spec
      BY <1>2, <3>1 DEF Object
    <3>4. QED
      BY <1>1, <1>2, <1>3, <1>5, <3>1, <3>2, <3>3, StartSound
  <2>2. CASE wf' = wf
    <3> DEFINE use == ResourceUsage(wf.ts)
               all == Total(plan, todo)
               rest == Total(plan, todo \ {t})
               max == Manifest[wf.spec].max
    <3>1. /\ IsFiniteSet(todo) /\ IsFiniteSet(todo \ {t})
          /\ AllResources(plan, todo) /\ AllResources(plan, todo \ {t})
      BY <1>2, FS_Subset, ManifestAssumption DEF AllResources
    <3>2. use \in Resource /\ all \in Resource /\ rest \in Resource /\ max \in Resource
      BY <1>2, <3>1, UsageType, TotalType, ManifestFacts
    <3>3. AtMost(rest, all)
      BY <1>1, <3>1, TotalOfSubset
    <3>4. wf.gen = 1 => Within(max, Plus(use, all))
      BY <1>5
    <3> HIDE DEF use, all, rest, max
    <3>5. AtMost(Plus(use, rest), Plus(use, all)) /\ Plus(use, rest) \in Resource /\ Plus(use, all) \in Resource
      BY <3>2, <3>3 DEF AtMost, Plus, Resource
    <3>6. wf.gen = 1 => Within(max, Plus(use, rest))
      BY <3>2, <3>4, <3>5, WithinLess
    <3>7. QED
      BY <1>3, <2>2, <3>6 DEF use, rest, max
  <2>3. QED
    BY <1>1, <2>1, <2>2
<1>7. AllSound'
  <2>1. \A o \in stream' : Sound(o)
    BY <1>1 DEF AllSound
  <2>2. QED
    BY <1>6, <2>1 DEF AllSound
<1>8. Affordable'
  <2>1. /\ wf'.gen = 1 =>
              Within(Manifest[wf'.spec].max, Plus(ResourceUsage(wf'.ts), Total(plan', todo')))
        /\ wf'.gen = 1 /\ Forecasts = {} =>
              \A s \in todo' : /\ plan'[s] = BaselineNeed(Manifest[wf'.spec], s)
                               /\ s \notin Unstartable(Manifest[wf'.spec])
    BY <1>1, <1>5, <1>6
  <2>2. QED
    BY <1>6, <2>1 DEF Affordable, NilStatuses
<1>9. QED
  BY <1>7, <1>8

\* Every step keeps the versions sound and the plan affordable.
LEMMA SoundStep ==
    TypeOK /\ TypeOK' /\ Versions /\ InMemory /\ AllSound /\ Affordable /\ [Next]_vars =>
        AllSound' /\ Affordable'
<1> SUFFICES ASSUME TypeOK, TypeOK', Versions, InMemory, AllSound, Affordable, [Next]_vars
             PROVE  AllSound' /\ Affordable'
  OBVIOUS
<1>1. /\ api \in Object /\ wf \in Object /\ cache \in Object
      /\ Sound(api) /\ Sound(wf) /\ Sound(cache) /\ Sound(NoWf)
      /\ \A o \in stream : Sound(o)
  BY FreshSound, BoundFacts DEF AllSound, Versions, TypeOK, NoWf
<1>2. ASSUME UNCHANGED locals, \A o \in stream' : Sound(o)
      PROVE  AllSound' /\ Affordable'
  BY <1>1, <1>2 DEF locals, AllSound, Affordable
<1>3. CASE Get
  <2>1. stream' = stream /\ wf' \in {NoWf, cache} /\ pc' = AfterGet(cache) /\ (pc' = "idle" \/ wf' = cache)
    BY <1>3 DEF Get
  <2>2. Affordable'
    BY <2>1 DEF Affordable, AfterGet, AfterFinalizer
  <2>3. AllSound'
    BY <1>1, <2>1 DEF AllSound
  <2>4. QED
    BY <2>2, <2>3
<1>4. CASE RemoveFinalizer \/ InitStatus \/ MarkFailed \/ MarkCompleted \/ SaveStatus
  <2>1. Sound(Gone(wf.uid, wf.rv))
    BY <1>1, FreshSound DEF Object
  <2>2. Sound([wf EXCEPT !.phase = "Pending", !.ts = InitialStatuses(Manifest[wf.spec])])
    BY <1>1, FreshSound
  <2>3. QED
    BY <1>1, <1>4, <2>1, <2>2, ClosingSound, UpdateSound, WrittenObjects
       DEF RemoveFinalizer, InitStatus, MarkFailed, MarkCompleted, SaveStatus
<1>5. CASE AddFinalizer \/ AddFinalizerError
  <2>1. Sound([api EXCEPT !.finalizer = TRUE]) /\ [api EXCEPT !.finalizer = TRUE] \in Object
    BY <1>1, ClosingSound, WrittenObjects
  <2>2. \A o \in stream' : Sound(o)
    BY <1>1, <1>5, <2>1, PersistSound DEF AddFinalizer, AddFinalizerError
  <2>3. CASE AddFinalizerError
    BY <2>2, <2>3, ReturnSound DEF AddFinalizerError
  <2>4. CASE AddFinalizer
    <3>1. wf' \in {NoWf, api'} /\ pc' = AfterFinalizer(api') /\ (pc' = "idle" \/ wf' = api')
          /\ api' \in stream'
      BY <2>4 DEF AddFinalizer, Persist
    <3>2. Affordable'
      BY <3>1 DEF Affordable, AfterFinalizer
    <3>3. AllSound'
      BY <1>1, <2>2, <3>1 DEF AllSound
    <3>4. QED
      BY <3>2, <3>3
  <2>5. QED
    BY <1>5, <2>3, <2>4
<1>6. CASE SyncPods
  <2>1. /\ pc = "sync" /\ wf' = [wf EXCEPT !.ts = SyncedStatuses(wf.ts)] /\ stream' = stream
        /\ pc' # "spawn"
    BY <1>6 DEF SyncPods, Decide
  <2>2. wf'.ts = SyncedStatuses(wf.ts) /\ wf'.ts \in [TaskNames -> TaskStatus]
    BY <1>1, <2>1 DEF TypeOK, Object
  <2>3. Sound(wf') /\ InPhase(wf'.ts, "Absent") = InPhase(wf.ts, "Absent")
    BY <1>1, <2>1, <2>2, SyncSound
  <2>4. Affordable'
    BY <2>1, <2>3 DEF Affordable, NilStatuses
  <2>5. AllSound'
    BY <1>1, <2>1, <2>3 DEF AllSound
  <2>6. QED
    BY <2>4, <2>5
<1>7. ASSUME NEW t \in TaskNames, RecordExecution(t)
      PROVE  AllSound' /\ Affordable'
  <2>1. pc = "record" /\ wf' = wf /\ stream' = stream /\ pc' # "spawn"
    BY <1>7 DEF RecordExecution, Decide
  <2>2. QED
    BY <1>1, <2>1 DEF AllSound, Affordable
<1>8. CASE Plan
  <2>1. /\ pc = "plan" /\ pc' = "spawn" /\ wf' = [wf EXCEPT !.phase = "Running"] /\ stream' = stream
    BY <1>8 DEF Plan
  <2>2. Sound(wf') /\ wf'.gen = wf.gen /\ wf'.spec = wf.spec /\ wf'.ts = wf.ts
    BY <1>1, <2>1, ClosingSound DEF Object
  <2>3. ~NilStatuses(wf) /\ ~NilStatuses(wf')
    BY <2>1, <2>2 DEF Affordable, NilStatuses
  <2>4. Affordable'
    BY <1>1, <1>8, <2>1, <2>2, <2>3, PlanAffordable DEF Affordable
  <2>5. AllSound'
    BY <1>1, <2>1, <2>2 DEF AllSound
  <2>6. QED
    BY <2>4, <2>5
<1>9. CASE PlanError
  BY <1>1, <1>9, ReturnSound DEF PlanError
<1>10. ASSUME NEW t \in TaskNames,
              AdoptTaskPod(t) \/ TaskPodExists(t) \/ CreateTaskPod(t) \/ CreateTaskPodError(t)
       PROVE  AllSound' /\ Affordable'
  BY <1>10, SpawnSound
<1>11. ASSUME NEW id \in ManifestIds, UserCreate(id)
       PROVE  AllSound' /\ Affordable'
  <2> DEFINE new == [Gone(api.uid + 1, api.rv) EXCEPT !.live = TRUE, !.gen = 1, !.spec = id]
  <2>1. api.uid + 1 \in 0..MaxUid /\ api.rv \in Nat
    BY <1>1, <1>11, BoundFacts DEF UserCreate, Object
  <2>2. Sound(new) /\ new \in Object /\ Persist(new)
    BY <1>11, <2>1, FreshSound, WrittenObjects DEF UserCreate
  <2> HIDE DEF new
  <2>3. \A o \in stream' : Sound(o)
    BY <2>2, PersistSound
  <2>4. QED
    BY <1>2, <1>11, <2>3 DEF UserCreate, OnlyWorkflow, locals
<1>12. ASSUME NEW id \in ManifestIds, UserUpdate(id)
       PROVE  AllSound' /\ Affordable'
  <2> DEFINE new == [api EXCEPT !.spec = id, !.gen = @ + 1]
  <2>1. new \in Object /\ Persist(new)
    BY <1>12, WrittenObjects DEF UserUpdate
  <2>2. new.live = TRUE /\ new.gen = api.gen + 1 /\ api.gen # 0 /\ api.gen \in Nat
    BY <1>1, <1>12, ManifestFacts DEF UserUpdate, Object, Sound
  <2> HIDE DEF new
  <2>3. Sound(new)
    BY <2>2 DEF Sound
  <2>4. \A o \in stream' : Sound(o)
    BY <2>1, <2>3, PersistSound
  <2>5. QED
    BY <1>2, <1>12, <2>4 DEF UserUpdate, OnlyWorkflow, locals
<1>13. CASE UserDelete
  <2> DEFINE new == IF api.finalizer THEN [api EXCEPT !.deleting = TRUE] ELSE Gone(api.uid, api.rv)
  <2>1. new \in Object /\ Persist(new)
    BY <1>13, WrittenObjects DEF UserDelete
  <2>2. Sound(new)
    BY <1>1, ClosingSound, FreshSound DEF Object
  <2> HIDE DEF new
  <2>3. \A o \in stream' : Sound(o)
    BY <2>1, <2>2, PersistSound
  <2>4. QED
    BY <1>2, <1>13, <2>3 DEF UserDelete, OnlyWorkflow, locals
<1>14. CASE CacheAdvance
  BY <1>1, <1>2, <1>14 DEF CacheAdvance, locals
<1>15. ASSUME NEW p \in PodNames,
              \/ PodCacheSync(p) \/ PodSucceeds(p) \/ PodFails(p)
              \/ PodLoss(p) \/ Collect(p)
       PROVE  AllSound' /\ Affordable'
  BY <1>1, <1>2, <1>15 DEF PodCacheSync, PodSucceeds, PodFails, PodLoss, Collect, OnlyPods, locals
<1>16. CASE Crash
  <2>1. wf' = NoWf /\ pc' = "idle" /\ stream' = {api}
    BY <1>16 DEF Crash
  <2>2. QED
    BY <1>1, <2>1 DEF AllSound, Affordable
<1>17. CASE UNCHANGED vars
  BY <1>1, <1>2, <1>17 DEF vars, locals
<1>18. QED
  BY <1>3, <1>4, <1>5, <1>6, <1>7, <1>8, <1>9, <1>10, <1>11, <1>12, <1>13, <1>14, <1>15, <1>16, <1>17
     DEF Next, Reconcile, Environment

-----------------------------------------------------------------------------
(***************************************************************************)
(* What a step may do to the stored object and to the one in memory.       *)
(***************************************************************************)

SameIdentity(o, v) == o.live = v.live /\ o.uid = v.uid /\ o.gen = v.gen /\ o.spec = v.spec

Kept    == SameIdentity(api', api)
Removed == ~api'.live /\ api'.uid = api.uid
Created == ~api.live /\ api'.live /\ api'.uid = api.uid + 1
Edited  == api.live /\ api'.live /\ api'.uid = api.uid /\ api'.gen = api.gen + 1

Delivered == stream' \subseteq stream \cup {api'}

\* No success is stored but what was, or what a pass has recorded.
SuccessKnown ==
    \/ InPhase(api'.ts, "Succeeded") \subseteq InPhase(api.ts, "Succeeded")
    \/ pc # "record" /\ InPhase(api'.ts, "Succeeded") \subseteq InPhase(wf.ts, "Succeeded")

\* The write that ends a pass keeps the object or removes it.
LEMMA PassWrites ==
    ASSUME TypeOK, InMemory,
           RemoveFinalizer \/ InitStatus \/ MarkFailed \/ MarkCompleted \/ SaveStatus
    PROVE  /\ Kept \/ Removed
           /\ Delivered /\ SuccessKnown
<1>1. CASE UNCHANGED <<api, stream>>
  BY <1>1 DEF Kept, SameIdentity, Delivered, SuccessKnown
<1> SUFFICES ASSUME ~UNCHANGED <<api, stream>>
             PROVE  (Kept \/ Removed) /\ Delivered /\ SuccessKnown
  BY <1>1
<1>2. ASSUME NEW new \in Object, NEW requeue, UpdateAndReturn(new, requeue)
      PROVE  /\ CanWrite /\ stream' = stream \cup {api'}
             /\ SameMeta(api', new) /\ api'.ts = new.ts
  BY <1>2, StoredAsAsked DEF UpdateAndReturn
<1>3. CanWrite /\ pc # "idle" => SameMeta(wf, api)
  BY DEF CanWrite, InMemory, Current
<1>4. wf \in Object
  BY DEF TypeOK
<1>5. CASE RemoveFinalizer
  <2>1. /\ CanWrite /\ stream' = stream \cup {api'} /\ pc = "unfinalize"
        /\ SameMeta(api', Gone(wf.uid, wf.rv)) /\ api'.ts = NoStatuses
    <3>1. Gone(wf.uid, wf.rv) \in Object /\ Gone(wf.uid, wf.rv).ts = NoStatuses
      BY WrittenObjects, NothingSucceededYet
    <3>2. QED
      BY <1>2, <1>5, <3>1 DEF RemoveFinalizer
  <2>2. Removed
    BY <1>3, <2>1 DEF Removed, SameMeta, Gone
  <2>3. QED
    BY <2>1, <2>2, NothingSucceededYet DEF Delivered, SuccessKnown
<1>6. CASE InitStatus
  <2> DEFINE new == [wf EXCEPT !.phase = "Pending", !.ts = InitialStatuses(Manifest[wf.spec])]
  <2>1. new \in Object /\ UpdateAndReturn(new, TRUE) /\ pc = "init"
    BY <1>6, WrittenObjects DEF InitStatus
  <2>2. SameMeta(new, wf) /\ new.ts = InitialStatuses(Manifest[wf.spec])
    BY <1>4 DEF SameMeta, Object
  <2> HIDE DEF new
  <2>3. CanWrite /\ stream' = stream \cup {api'} /\ SameMeta(api', new) /\ api'.ts = new.ts
    BY <1>2, <2>1
  <2>4. Kept
    BY <1>3, <2>1, <2>2, <2>3 DEF Kept, SameIdentity, SameMeta
  <2>5. QED
    BY <2>2, <2>3, <2>4, NothingSucceededYet DEF Delivered, SuccessKnown
<1>7. CASE MarkFailed \/ MarkCompleted \/ SaveStatus
  <2>1. PICK new \in Object : /\ SameMeta(new, wf) /\ new.ts = wf.ts
                              /\ \E requeue \in BOOLEAN : UpdateAndReturn(new, requeue)
    <3>1. /\ SameMeta([wf EXCEPT !.phase = "Failed"], wf)
          /\ [wf EXCEPT !.phase = "Failed"].ts = wf.ts
          /\ SameMeta([wf EXCEPT !.phase = "Completed", !.usage = NoAllocations], wf)
          /\ [wf EXCEPT !.phase = "Completed", !.usage = NoAllocations].ts = wf.ts
          /\ SameMeta([wf EXCEPT !.usage = RunningAllocations(wf.ts)], wf)
          /\ [wf EXCEPT !.usage = RunningAllocations(wf.ts)].ts = wf.ts
      BY <1>4 DEF SameMeta, Object
    <3>2. QED
      BY <1>7, <3>1, WrittenObjects DEF MarkFailed, MarkCompleted, SaveStatus
  <2>2. pc \in {"fail", "complete", "spawn"}
    BY <1>7 DEF MarkFailed, MarkCompleted, SaveStatus
  <2>3. CanWrite /\ stream' = stream \cup {api'} /\ SameMeta(api', new) /\ api'.ts = new.ts
    BY <1>2, <2>1
  <2>4. Kept
    BY <1>3, <2>1, <2>2, <2>3 DEF Kept, SameIdentity, SameMeta
  <2>5. QED
    BY <2>1, <2>2, <2>3, <2>4 DEF Delivered, SuccessKnown
<1>8. QED
  BY <1>5, <1>6, <1>7

\* Every step keeps the stored object, removes it, edits it or creates a new
\* one, and delivers no version but the stored one.
LEMMA ObjectStep ==
    ASSUME TypeOK, Versions, InMemory, [Next]_vars
    PROVE  /\ Kept \/ Removed \/ Created \/ Edited
           /\ Delivered /\ SuccessKnown
<1>0. UNCHANGED api /\ stream' \subseteq stream \cup {api} =>
         (Kept \/ Removed \/ Created \/ Edited) /\ Delivered /\ SuccessKnown
  BY DEF Kept, SameIdentity, Delivered, SuccessKnown
<1>1. CASE RemoveFinalizer \/ InitStatus \/ MarkFailed \/ MarkCompleted \/ SaveStatus
  BY <1>1, PassWrites
<1>2. CASE AddFinalizer \/ AddFinalizerError
  <2>1. \/ UNCHANGED <<api, stream>>
        \/ /\ SameIdentity(api', api) /\ api'.ts = api.ts
           /\ stream' = stream \cup {api'}
    BY <1>2 DEF AddFinalizer, AddFinalizerError, Persist, TypeOK, Object, SameIdentity
  <2>2. QED
    BY <1>0, <2>1 DEF Kept, Delivered, SuccessKnown
<1>3. ASSUME NEW id \in ManifestIds, UserCreate(id)
      PROVE  Created /\ Delivered /\ SuccessKnown
  <2>1. /\ ~api.live /\ api'.live /\ api'.uid = api.uid + 1 /\ api'.ts = NoStatuses
        /\ stream' = stream \cup {api'}
    BY <1>3 DEF UserCreate, Persist, Gone
  <2>2. QED
    BY <2>1, NothingSucceededYet DEF Created, Delivered, SuccessKnown
<1>4. ASSUME NEW id \in ManifestIds, UserUpdate(id)
      PROVE  Edited /\ Delivered /\ SuccessKnown
  <2> DEFINE new == [api EXCEPT !.spec = id, !.gen = @ + 1]
  <2>1. new \in Object /\ Persist(new)
    BY <1>4, WrittenObjects DEF UserUpdate
  <2>2. new.live = api.live /\ new.uid = api.uid /\ new.gen = api.gen + 1 /\ new.ts = api.ts
    BY DEF TypeOK, Object
  <2>3. /\ api.live /\ api'.live /\ api'.uid = api.uid /\ api'.gen = api.gen + 1
        /\ api'.ts = api.ts /\ stream' = stream \cup {api'}
    BY <1>4, <2>1, <2>2, StoredAsAsked DEF UserUpdate, SameMeta
  <2>4. QED
    BY <2>3 DEF Edited, Delivered, SuccessKnown
<1>5. CASE UserDelete
  <2> DEFINE new == IF api.finalizer THEN [api EXCEPT !.deleting = TRUE] ELSE Gone(api.uid, api.rv)
  <2>1. new \in Object /\ Persist(new)
    BY <1>5, WrittenObjects DEF UserDelete
  <2>2. \/ SameIdentity(new, api) /\ new.ts = api.ts
        \/ ~new.live /\ new.uid = api.uid /\ new.ts = NoStatuses
    BY DEF TypeOK, Object, SameIdentity, Gone
  <2> HIDE DEF new
  <2>3. SameMeta(api', new) /\ api'.ts = new.ts /\ stream' = stream \cup {api'}
    BY <2>1, StoredAsAsked
  <2>4. QED
    BY <2>2, <2>3, NothingSucceededYet DEF Kept, Removed, SameIdentity, SameMeta, Delivered, SuccessKnown
<1>6. CASE Get \/ SyncPods \/ Plan \/ PlanError \/ CacheAdvance
  BY <1>0, <1>6 DEF Get, SyncPods, Plan, PlanError, CacheAdvance
<1>7. CASE Crash
  BY <1>0, <1>7 DEF Crash
<1>8. ASSUME NEW t \in TaskNames,
             \/ RecordExecution(t) \/ AdoptTaskPod(t) \/ TaskPodExists(t)
             \/ CreateTaskPod(t) \/ CreateTaskPodError(t)
      PROVE  UNCHANGED <<api, stream>>
  BY <1>8 DEF RecordExecution, AdoptTaskPod, TaskPodExists, CreateTaskPod, CreateTaskPodError
<1>9. ASSUME NEW p \in PodNames,
             \/ PodCacheSync(p) \/ PodSucceeds(p) \/ PodFails(p)
             \/ PodLoss(p) \/ Collect(p)
      PROVE  UNCHANGED <<api, stream>>
  BY <1>9 DEF PodCacheSync, PodSucceeds, PodFails, PodLoss, Collect, OnlyPods
<1>10. CASE UNCHANGED vars
  BY <1>0, <1>10 DEF vars
<1>11. QED
  BY <1>0, <1>1, <1>2, <1>3, <1>4, <1>5, <1>6, <1>7, <1>8, <1>9, <1>10
     DEF Next, Reconcile, Environment

\* The object in memory is none, a delivered version, or what it was with a
\* new status; a step that adds successes to it owes their records.
LEMMA MemoryStep ==
    ASSUME TypeOK, TypeOK', Versions, Recorded, [Next]_vars
    PROVE  \/ wf' = NoWf /\ pc' # "record" /\ toRecord' = {}
           \/ wf' \in stream' /\ pc' # "record" /\ toRecord' = {}
           \/ /\ SameIdentity(wf', wf)
              /\ pc' # "record" => toRecord' = {}
              /\ InPhase(wf'.ts, "Succeeded") \ toRecord'
                    \subseteq (InPhase(wf.ts, "Succeeded") \ toRecord)
                                  \cup {t \in TaskNames : "db" \in Disturbances \/ records'[t] > 0}
<1> DEFINE Goal == \/ wf' = NoWf /\ pc' # "record" /\ toRecord' = {}
                   \/ wf' \in stream' /\ pc' # "record" /\ toRecord' = {}
                   \/ /\ SameIdentity(wf', wf)
                      /\ pc' # "record" => toRecord' = {}
                      /\ InPhase(wf'.ts, "Succeeded") \ toRecord'
                            \subseteq (InPhase(wf.ts, "Succeeded") \ toRecord)
                                  \cup {t \in TaskNames : "db" \in Disturbances \/ records'[t] > 0}
<1> SUFFICES Goal
  OBVIOUS
<1>0. wf \in Object /\ (pc # "record" => toRecord = {})
  BY DEF TypeOK, Recorded
<1>1. UNCHANGED <<pc, wf, toRecord>> => Goal
  BY <1>0 DEF SameIdentity
<1>2. ASSUME NEW requeue, Return(requeue)
      PROVE  Goal
  BY <1>2 DEF Return
<1>3. CASE RemoveFinalizer \/ InitStatus \/ MarkFailed \/ MarkCompleted \/ SaveStatus
            \/ AddFinalizerError \/ PlanError
  BY <1>2, <1>3 DEF RemoveFinalizer, InitStatus, MarkFailed, MarkCompleted, SaveStatus,
                    AddFinalizerError, PlanError, UpdateAndReturn
<1>4. CASE Get
  <2>1. pc = "idle" /\ toRecord' = toRecord /\ (wf' = NoWf \/ wf' = cache)
        /\ pc' # "record" /\ stream' = stream
    BY <1>4 DEF Get, AfterGet, AfterFinalizer
  <2>2. QED
    BY <1>0, <2>1 DEF Versions
<1>5. CASE AddFinalizer
  <2>1. pc = "finalize" /\ toRecord' = toRecord /\ (wf' = NoWf \/ wf' = api')
        /\ pc' # "record" /\ api' \in stream'
    BY <1>5 DEF AddFinalizer, AfterFinalizer, Persist
  <2>2. QED
    BY <1>0, <2>1
<1>6. CASE SyncPods
  <2>1. /\ pc = "sync" /\ wf' = [wf EXCEPT !.ts = SyncedStatuses(wf.ts)]
        /\ toRecord' = InPhase(wf'.ts, "Succeeded") \ InPhase(wf.ts, "Succeeded")
        /\ pc' # "record" => toRecord' = {}
    BY <1>6 DEF SyncPods
  <2>2. SameIdentity(wf', wf)
    BY <1>0, <2>1 DEF SameIdentity, Object
  <2>3. QED
    BY <1>0, <2>1, <2>2
<1>7. ASSUME NEW t \in TaskNames, RecordExecution(t)
      PROVE  Goal
  <2>1. /\ wf' = wf /\ toRecord' = toRecord \ {t} /\ (pc' # "record" => toRecord' = {})
        /\ \/ records' = [records EXCEPT ![t] = IF @ = 2 THEN 2 ELSE @ + 1]
           \/ "db" \in Disturbances
    BY <1>7 DEF RecordExecution
  <2>2. "db" \in Disturbances \/ records'[t] > 0
    BY <2>1 DEF TypeOK
  <2>3. QED
    BY <2>1, <2>2 DEF SameIdentity
<1>8. CASE Plan
  <2>1. pc = "plan" /\ pc' = "spawn" /\ wf' = [wf EXCEPT !.phase = "Running"] /\ toRecord' = toRecord
    BY <1>8 DEF Plan
  <2>2. SameIdentity(wf', wf) /\ wf'.ts = wf.ts
    BY <1>0, <2>1 DEF SameIdentity, Object
  <2>3. QED
    BY <1>0, <2>1, <2>2
<1>9. ASSUME NEW t \in TaskNames,
             AdoptTaskPod(t) \/ TaskPodExists(t) \/ CreateTaskPod(t) \/ CreateTaskPodError(t)
      PROVE  Goal
  <2>1. pc = "spawn" /\ pc' = "spawn" /\ toRecord' = toRecord /\ (Start(t) \/ wf' = wf)
    BY <1>9 DEF AdoptTaskPod, TaskPodExists, CreateTaskPod, CreateTaskPodError, IsNext
  <2>2. SameIdentity(wf', wf) /\ InPhase(wf'.ts, "Succeeded") \subseteq InPhase(wf.ts, "Succeeded")
    <3>1. CASE Start(t)
      <4>1. wf' = [wf EXCEPT !.ts[t] = [phase |-> "Running", alloc |-> plan[t]]]
        BY <3>1 DEF Start
      <4>2. SameIdentity(wf', wf) /\ wf'.ts = [wf.ts EXCEPT ![t] = [phase |-> "Running", alloc |-> plan[t]]]
            /\ wf.ts \in [TaskNames -> TaskStatus]
        BY <1>0, <4>1 DEF SameIdentity, Object
      <4>3. QED
        BY <4>2 DEF InPhase
    <3>2. QED
      BY <2>1, <3>1 DEF SameIdentity
  <2>3. QED
    BY <1>0, <2>1, <2>2
<1>10. ASSUME NEW id \in ManifestIds, UserCreate(id) \/ UserUpdate(id)
       PROVE  Goal
  BY <1>1, <1>10 DEF UserCreate, UserUpdate, OnlyWorkflow
<1>11. CASE UserDelete \/ CacheAdvance
  BY <1>1, <1>11 DEF UserDelete, CacheAdvance, OnlyWorkflow
<1>12. ASSUME NEW p \in PodNames,
              \/ PodCacheSync(p) \/ PodSucceeds(p) \/ PodFails(p)
              \/ PodLoss(p) \/ Collect(p)
       PROVE  Goal
  BY <1>1, <1>12 DEF PodCacheSync, PodSucceeds, PodFails, PodLoss, Collect, OnlyPods
<1>13. CASE Crash
  BY <1>13 DEF Crash
<1>14. CASE UNCHANGED vars
  BY <1>1, <1>14 DEF vars
<1> HIDE DEF Goal
<1>15. QED
  BY <1>3, <1>4, <1>5, <1>6, <1>7, <1>8, <1>9, <1>10, <1>11, <1>12, <1>13, <1>14
     DEF Next, Reconcile, Environment

-----------------------------------------------------------------------------
(***************************************************************************)
(* Records, incarnations and pods.                                         *)
(***************************************************************************)

\* A row in the database stays there.
LEMMA RecordsStay ==
    ASSUME TypeOK, [Next]_vars, NEW t \in TaskNames, records[t] > 0
    PROVE  records'[t] > 0
<1>1. ASSUME NEW s \in TaskNames, RecordExecution(s)
      PROVE  records'[t] > 0
  BY <1>1 DEF RecordExecution, TypeOK
<1>2. UNCHANGED records => records'[t] > 0
  OBVIOUS
<1>3. QED
  BY <1>1, <1>2
     DEF Next, Reconcile, Environment, vars, Get, RemoveFinalizer, AddFinalizer,
         AddFinalizerError, InitStatus, SyncPods, MarkFailed, MarkCompleted, Plan, PlanError,
         AdoptTaskPod, TaskPodExists, CreateTaskPod, CreateTaskPodError, SaveStatus,
         UpdateAndReturn, UserCreate, UserUpdate, UserDelete, OnlyWorkflow, CacheAdvance,
         PodCacheSync, PodSucceeds, PodFails, PodLoss, Collect, OnlyPods, Crash

\* Every step keeps the records ahead of the statuses.
LEMMA RecordedStep ==
    ASSUME TypeOK, TypeOK', Versions, InMemory, Recorded, [Next]_vars
    PROVE  Recorded'
<1> DEFINE old == {t \in TaskNames : records[t] > 0}
           new == {t \in TaskNames : records'[t] > 0}
<1>1. old \subseteq new
  BY RecordsStay
<1>2. pc' # "record" => toRecord' = {}
  BY MemoryStep
<1>3. ASSUME "db" \notin Disturbances
      PROVE  /\ \A o \in stream' : InPhase(o.ts, "Succeeded") \subseteq new
             /\ InPhase(wf'.ts, "Succeeded") \subseteq new \cup toRecord'
  <2>1. /\ \A o \in stream : InPhase(o.ts, "Succeeded") \subseteq old
        /\ InPhase(wf.ts, "Succeeded") \subseteq old \cup toRecord
        /\ pc # "record" => toRecord = {}
    BY <1>3 DEF Recorded
  <2>2. Delivered /\ SuccessKnown
    BY ObjectStep
  <2>3. InPhase(api'.ts, "Succeeded") \subseteq new
    BY <1>1, <2>1, <2>2 DEF SuccessKnown, Versions
  <2>4. \A o \in stream' : InPhase(o.ts, "Succeeded") \subseteq new
    BY <1>1, <2>1, <2>2, <2>3 DEF Delivered
  <2>5. InPhase(NoWf.ts, "Succeeded") = {}
    BY NothingSucceededYet
  <2>6. CASE wf' = NoWf \/ wf' \in stream'
    BY <2>4, <2>5, <2>6
  <2>7. CASE InPhase(wf'.ts, "Succeeded") \ toRecord'
                \subseteq (InPhase(wf.ts, "Succeeded") \ toRecord)
                              \cup {t \in TaskNames : "db" \in Disturbances \/ records'[t] > 0}
    BY <1>1, <1>3, <2>1, <2>4, <2>7
  <2>8. QED
    BY <2>6, <2>7, MemoryStep
<1>4. QED
  BY <1>2, <1>3 DEF Recorded

\* Every step keeps the incarnations in order.
LEMMA IncarnationsStep ==
    ASSUME TypeOK, TypeOK', Versions, InMemory, AllSound, Recorded, Incarnations, [Next]_vars
    PROVE  Incarnations'
<1>1. /\ api.uid \in Nat /\ api'.uid \in Nat /\ wf.uid \in Nat /\ api.gen \in Nat
      /\ \A o \in stream : o.uid \in Nat
  BY BoundFacts DEF TypeOK, Object
<1>2. api.live => api.gen # 0
  BY DEF AllSound, Versions, Sound
<1>3. NoWf.live = FALSE /\ NoWf.uid = 0
  BY DEF NoWf, Gone
<1>4. Kept \/ Removed \/ Created \/ Edited
  BY ObjectStep
<1>5. ASSUME NEW o, o.uid \in Nat, NEW v, v \in stream \cup {wf}, SameIdentity(o, v)
      PROVE  /\ o.uid <= api'.uid
             /\ api'.live /\ api'.gen = 1 /\ o.live /\ o.uid = api'.uid =>
                   o.gen = 1 /\ o.spec = api'.spec
  <2>1. /\ o.uid <= api.uid
        /\ api.live /\ api.gen = 1 /\ o.live /\ o.uid = api.uid => o.gen = 1 /\ o.spec = api.spec
    BY <1>5 DEF Incarnations, SameIdentity
  <2>2. CASE Kept
    BY <2>1, <2>2 DEF Kept, SameIdentity
  <2>3. CASE Removed
    BY <2>1, <2>3 DEF Removed
  <2>4. CASE Created
    BY <1>1, <1>5, <2>1, <2>4 DEF Created
  <2>5. CASE Edited
    BY <1>1, <1>2, <2>1, <2>5 DEF Edited
  <2>6. QED
    BY <1>4, <2>2, <2>3, <2>4, <2>5
<1>6. ASSUME NEW o \in stream' \cup {wf'}
      PROVE  /\ o.uid <= api'.uid
             /\ api'.live /\ api'.gen = 1 /\ o.live /\ o.uid = api'.uid =>
                   o.gen = 1 /\ o.spec = api'.spec
  <2>1. o.uid \in Nat
    BY BoundFacts DEF TypeOK, Object
  <2>2. \/ o = NoWf \/ o = api' \/ \E v \in stream \cup {wf} : SameIdentity(o, v)
    BY MemoryStep, ObjectStep DEF Delivered, SameIdentity
  <2>3. QED
    BY <1>1, <1>3, <1>5, <2>1, <2>2
<1>7. QED
  BY <1>6 DEF Incarnations

\* The pods stay accounted for while only the workflow changes.
LEMMA ObjectPods ==
    ASSUME TypeOK, TypeOK', Versions, InMemory, AllSound, PodsAccounted, [Next]_vars,
           UNCHANGED <<pods, succeeded>>
    PROVE  PodsAccounted'
<1>1. /\ api.uid \in Nat /\ api'.uid \in Nat /\ api.gen \in Nat
      /\ \A p \in PodNames : pods[p].uid \in Nat
      /\ \A u \in 0..MaxUid : u \in Nat
  BY BoundFacts DEF TypeOK, Object, Pod
<1>2. api.live => api.gen # 0
  BY DEF AllSound, Versions, Sound
<1>3. /\ api.uid <= api'.uid
      /\ \A u \in Nat : u <= api.uid /\ u = api'.uid /\ api'.live => api.live /\ u = api.uid
      /\ \A u \in Nat : u <= api.uid /\ u = api'.uid /\ api'.live /\ api'.gen = 1 =>
            api.gen = 1 /\ api.spec = api'.spec
  <2>1. Kept \/ Removed \/ Created \/ Edited
    BY ObjectStep
  <2>2. QED
    BY <1>1, <1>2, <2>1 DEF Kept, SameIdentity, Removed, Created, Edited
<1>4. ASSUME NEW p \in PodNames, pods[p].phase # "None"
      PROVE  /\ PodName[pods[p].task] = p
             /\ pods[p].uid <= api'.uid
             /\ Forecasts = {} /\ api'.live /\ api'.gen = 1 /\ pods[p].uid = api'.uid =>
                   /\ pods[p].req = BaselineNeed(Manifest[api'.spec], pods[p].task)
                   /\ pods[p].task \notin Unstartable(Manifest[api'.spec])
  <2>1. /\ PodName[pods[p].task] = p
        /\ pods[p].uid <= api.uid
        /\ Forecasts = {} /\ api.live /\ api.gen = 1 /\ pods[p].uid = api.uid =>
              /\ pods[p].req = BaselineNeed(Manifest[api.spec], pods[p].task)
              /\ pods[p].task \notin Unstartable(Manifest[api.spec])
    BY <1>4 DEF PodsAccounted
  <2>2. pods[p].uid <= api'.uid
    BY <1>1, <1>3, <2>1
  <2>3. QED
    BY <1>1, <1>3, <2>1, <2>2
<1>5. ASSUME "podloss" \notin Disturbances, NEW t \in TaskNames, NEW u \in 0..MaxUid,
             <<u, t>> \in succeeded
      PROVE  /\ u <= api'.uid
             /\ api'.live /\ api'.uid = u =>
                   /\ pods[PodName[t]].phase = "Succeeded"
                   /\ pods[PodName[t]].uid = u
                   /\ pods[PodName[t]].task = t
  <2>1. /\ u <= api.uid
        /\ api.live /\ api.uid = u =>
              /\ pods[PodName[t]].phase = "Succeeded"
              /\ pods[PodName[t]].uid = u
              /\ pods[PodName[t]].task = t
    BY <1>5 DEF PodsAccounted
  <2>2. QED
    BY <1>1, <1>3, <2>1
<1>6. QED
  BY <1>4, <1>5 DEF PodsAccounted

\* A new pod is accounted for: it is the baseline's for the stored object.
LEMMA NewPodAccounted ==
    ASSUME TypeOK, TypeOK', Ownership, InMemory, Affordable, Incarnations, PodsAccounted,
           NEW t \in TaskNames, CreateTaskPod(t)
    PROVE  PodsAccounted'
<1>1. /\ pc = "spawn" /\ t \in todo /\ pods[PodName[t]].phase = "None"
      /\ pods' = [pods EXCEPT ![PodName[t]] = NewPod(t)] /\ api' = api /\ succeeded' = succeeded
  BY DEF CreateTaskPod, IsNext
<1>2. api.live /\ wf.live /\ api.uid = wf.uid
  BY <1>1 DEF Ownership, InMemory
<1>3. api.gen = 1 => wf.gen = 1 /\ wf.spec = api.spec
  BY <1>2 DEF Incarnations
<1>4. Forecasts = {} /\ api.gen = 1 =>
         plan[t] = BaselineNeed(Manifest[api.spec], t) /\ t \notin Unstartable(Manifest[api.spec])
  BY <1>1, <1>3 DEF Affordable
<1>5. PodName[t] \in PodNames /\ api.uid \in Nat
  BY BoundFacts, ControllerAssumption DEF TypeOK, Object
<1>6. /\ NewPod(t).task = t /\ NewPod(t).uid = wf.uid /\ NewPod(t).req = plan[t]
      /\ NewPod(t).phase = "Active"
  BY DEF NewPod
<1>7. \A p \in PodNames : pods'[p] = IF p = PodName[t] THEN NewPod(t) ELSE pods[p]
  BY <1>1, <1>5 DEF TypeOK
<1>8. ASSUME NEW p \in PodNames, pods'[p].phase # "None"
      PROVE  /\ PodName[pods'[p].task] = p
             /\ pods'[p].uid <= api.uid
             /\ Forecasts = {} /\ api.live /\ api.gen = 1 /\ pods'[p].uid = api.uid =>
                   /\ pods'[p].req = BaselineNeed(Manifest[api.spec], pods'[p].task)
                   /\ pods'[p].task \notin Unstartable(Manifest[api.spec])
  <2>1. CASE p = PodName[t]
    BY <1>2, <1>4, <1>5, <1>6, <1>7, <2>1
  <2>2. CASE p # PodName[t]
    BY <1>7, <1>8, <2>2 DEF PodsAccounted
  <2>3. QED
    BY <2>1, <2>2
<1>9. ASSUME "podloss" \notin Disturbances, NEW s \in TaskNames, NEW u \in 0..MaxUid,
             <<u, s>> \in succeeded
      PROVE  /\ u <= api.uid
             /\ api.live /\ api.uid = u =>
                   /\ pods'[PodName[s]].phase = "Succeeded"
                   /\ pods'[PodName[s]].uid = u
                   /\ pods'[PodName[s]].task = s
  <2>1. /\ u <= api.uid
        /\ api.live /\ api.uid = u =>
              /\ pods[PodName[s]].phase = "Succeeded"
              /\ pods[PodName[s]].uid = u
              /\ pods[PodName[s]].task = s
    BY <1>9 DEF PodsAccounted
  <2>2. PodName[s] \in PodNames
    BY ControllerAssumption
  <2>3. CASE PodName[s] = PodName[t]
    BY <1>1, <2>1, <2>3
  <2>4. CASE PodName[s] # PodName[t]
    BY <1>7, <2>1, <2>2, <2>4
  <2>5. QED
    BY <2>3, <2>4
<1>10. QED
  BY <1>1, <1>8, <1>9 DEF PodsAccounted

\* A pod that succeeds, fails or is removed stays accounted for.
LEMMA PodEndAccounted ==
    ASSUME TypeOK, TypeOK', PodsAccounted, NEW q \in PodNames,
           PodSucceeds(q) \/ PodFails(q) \/ PodLoss(q) \/ Collect(q)
    PROVE  PodsAccounted'
<1>1. /\ pods[q].phase # "None" /\ api' = api
      /\ PodName[pods[q].task] = q /\ pods[q].uid <= api.uid
      /\ pods[q].uid \in 0..MaxUid /\ pods[q].task \in TaskNames
  BY DEF PodSucceeds, PodFails, PodLoss, Collect, OnlyPods, PodsAccounted, TypeOK, Pod
<1>2. /\ \A p \in PodNames \ {q} : pods'[p] = pods[p]
      /\ \/ pods'[q].phase = "None"
         \/ /\ pods'[q].uid = pods[q].uid /\ pods'[q].task = pods[q].task
            /\ pods'[q].req = pods[q].req
  <2>1. pods[q] \in Pod /\ pods \in [PodNames -> Pod]
    BY DEF TypeOK
  <2>2. CASE PodSucceeds(q) \/ PodFails(q)
    BY <2>1, <2>2 DEF PodSucceeds, PodFails, Pod
  <2>3. CASE PodLoss(q) \/ Collect(q)
    BY <2>1, <2>3 DEF PodLoss, Collect, NoPod
  <2>4. QED
    BY <2>2, <2>3
<1>3. ASSUME NEW p \in PodNames, pods'[p].phase # "None"
      PROVE  /\ PodName[pods'[p].task] = p
             /\ pods'[p].uid <= api.uid
             /\ Forecasts = {} /\ api.live /\ api.gen = 1 /\ pods'[p].uid = api.uid =>
                   /\ pods'[p].req = BaselineNeed(Manifest[api.spec], pods'[p].task)
                   /\ pods'[p].task \notin Unstartable(Manifest[api.spec])
  <2>1. CASE p = q
    BY <1>1, <1>2, <1>3, <2>1 DEF PodsAccounted
  <2>2. CASE p # q
    BY <1>2, <1>3, <2>2 DEF PodsAccounted
  <2>3. QED
    BY <2>1, <2>2
<1>4. ASSUME "podloss" \notin Disturbances, NEW s \in TaskNames, NEW u \in 0..MaxUid,
             <<u, s>> \in succeeded'
      PROVE  /\ u <= api.uid
             /\ api.live /\ api.uid = u =>
                   /\ pods'[PodName[s]].phase = "Succeeded"
                   /\ pods'[PodName[s]].uid = u
                   /\ pods'[PodName[s]].task = s
  <2>0. PodName[s] \in PodNames
    BY ControllerAssumption
  <2>1. CASE <<u, s>> \in succeeded
    <3>1. /\ u <= api.uid
          /\ api.live /\ api.uid = u =>
                /\ pods[PodName[s]].phase = "Succeeded"
                /\ pods[PodName[s]].uid = u
                /\ pods[PodName[s]].task = s
      BY <1>4, <2>1 DEF PodsAccounted
    <3>2. CASE PodName[s] # q
      BY <1>2, <2>0, <3>1, <3>2
    <3>3. CASE PodName[s] = q
      BY <1>4, <3>1, <3>3 DEF PodSucceeds, PodFails, PodLoss, Collect
    <3>4. QED
      BY <3>2, <3>3
  <2>2. CASE <<u, s>> \notin succeeded
    <3>1. PodSucceeds(q) /\ <<u, s>> = <<pods[q].uid, pods[q].task>>
      BY <1>4, <2>2 DEF PodSucceeds, PodFails, PodLoss, Collect
    <3>2. u = pods[q].uid /\ s = pods[q].task
      BY <3>1
    <3>3. pods'[q].phase = "Succeeded" /\ pods'[q].uid = u /\ pods'[q].task = s
      BY <3>1, <3>2 DEF PodSucceeds, TypeOK, Pod
    <3>4. QED
      BY <1>1, <3>2, <3>3
  <2>3. QED
    BY <2>1, <2>2
<1>5. QED
  BY <1>1, <1>3, <1>4 DEF PodsAccounted

\* Every step keeps the pods accounted for.
LEMMA PodsStep ==
    ASSUME TypeOK, TypeOK', Versions, InMemory, Ownership, AllSound, Affordable, Incarnations,
           PodsAccounted, [Next]_vars
    PROVE  PodsAccounted'
<1>1. CASE UNCHANGED <<pods, succeeded>>
  BY <1>1, ObjectPods
<1>2. ASSUME NEW t \in TaskNames, CreateTaskPod(t)
      PROVE  PodsAccounted'
  BY <1>2, NewPodAccounted
<1>3. ASSUME NEW q \in PodNames, PodSucceeds(q) \/ PodFails(q) \/ PodLoss(q) \/ Collect(q)
      PROVE  PodsAccounted'
  BY <1>3, PodEndAccounted
<1>4. QED
  BY <1>1, <1>2, <1>3
     DEF Next, Reconcile, Environment, vars, Get, RemoveFinalizer, AddFinalizer,
         AddFinalizerError, InitStatus, SyncPods, RecordExecution, MarkFailed, MarkCompleted,
         Plan, PlanError, AdoptTaskPod, TaskPodExists, CreateTaskPodError, SaveStatus,
         UpdateAndReturn, UserCreate, UserUpdate, UserDelete, OnlyWorkflow, CacheAdvance,
         PodCacheSync, Crash

-----------------------------------------------------------------------------
(***************************************************************************)
(* Theorems.                                                               *)
(***************************************************************************)

\* The accounts are in order before anything happened.
LEMMA AccountsInit == Init => Accounts
<1> SUFFICES ASSUME Init PROVE Accounts
  OBVIOUS
<1>1. Sound(NoWf) /\ NoWf.uid = 0 /\ NoWf.live = FALSE /\ NoWf.ts = NoStatuses
  BY FreshSound, BoundFacts, NothingSucceededYet DEF NoWf, Gone
<1>2. stream = {NoWf} /\ wf = NoWf /\ api = NoWf /\ pc = "idle" /\ toRecord = {} /\ succeeded = {}
  BY DEF Init
<1>3. \A p \in PodNames : pods[p].phase = "None"
  BY DEF Init, NoPod
<1>4. AllSound /\ Affordable
  BY <1>1, <1>2 DEF AllSound, Affordable
<1>5. Recorded /\ Incarnations
  BY <1>1, <1>2, NothingSucceededYet DEF Recorded, Incarnations
<1>6. PodsAccounted
  BY <1>2, <1>3 DEF PodsAccounted
<1>7. QED
  BY <1>4, <1>5, <1>6 DEF Accounts

\* The stored, cached and in-memory statuses, the plan under way, the database
\* and the pods agree in every reachable state.
THEOREM AccountsHold == Spec => []Accounts
<1>1. TypeOK /\ TypeOK' /\ Inductive /\ Accounts /\ [Next]_vars => Accounts'
  BY SoundStep, RecordedStep, IncarnationsStep, PodsStep DEF Inductive, Accounts
<1>2. QED
  BY <1>1, AccountsInit, TypeCorrect, Invariance, PTL DEF Spec

\* The running tasks and the usage in the stored status are within
\* MaxResources, whatever the caches showed the passes that wrote it.
THEOREM BudgetKept == Spec => []StatusBudget
<1>1. Inductive /\ Accounts => StatusBudget
  BY DEF Inductive, Versions, Accounts, AllSound, Sound, InBudget, StatusBudget
<1>2. QED
  BY <1>1, Invariance, AccountsHold, PTL

\* While the database takes inserts, a success is stored after its row.
THEOREM RecordsFirst == Spec => []RecordedBeforeSucceeded
<1>1. Inductive /\ Accounts => RecordedBeforeSucceeded
  BY DEF Inductive, Versions, Accounts, Recorded, RecordedBeforeSucceeded
<1>2. QED
  BY <1>1, Invariance, AccountsHold, PTL

\* With the baseline's forecasts a running task's pod requests what the status
\* says, also if it is a pod an earlier, unsaved pass created.
THEOREM AllocationsMatch == Spec => []AllocationMatchesPod
<1>1. TypeOK /\ Inductive /\ Accounts => AllocationMatchesPod
  <2> SUFFICES ASSUME TypeOK, Inductive, Accounts, Forecasts = {}, api.live, api.gen = 1,
                      NEW t \in InPhase(api.ts, "Running"),
                      pods[PodName[t]].phase # "None", pods[PodName[t]].task = t,
                      pods[PodName[t]].uid = api.uid
               PROVE  pods[PodName[t]].req = api.ts[t].alloc
    BY DEF AllocationMatchesPod
  <2>1. t \in TaskNames /\ api.ts[t].phase = "Running" /\ PodName[t] \in PodNames
    BY ControllerAssumption DEF InPhase
  <2>2. Foreseen(api)
    BY DEF Inductive, Versions, Accounts, AllSound, Sound
  <2>3. api.ts[t].alloc = BaselineNeed(Manifest[api.spec], t)
    BY <2>1, <2>2 DEF Foreseen
  <2>4. pods[PodName[t]].req = BaselineNeed(Manifest[api.spec], t)
    BY <2>1 DEF Accounts, PodsAccounted
  <2>5. QED
    BY <2>3, <2>4
<1>2. QED
  BY <1>1, TypeCorrect, Invariance, AccountsHold, PTL

\* A task that can never start gets no pod, and a workflow with such a task, or
\* without any, is never Completed.
THEOREM StuckStaysOpen == Spec => []StuckNeverCompletes
<1>1. TypeOK /\ Inductive /\ Accounts => StuckNeverCompletes
  <2> SUFFICES ASSUME TypeOK, Inductive, Accounts, Forecasts = {}, api.live, api.gen = 1
               PROVE  /\ \A p \in PodNames : pods[p].phase # "None" /\ pods[p].uid = api.uid =>
                            pods[p].task \notin Unstartable(Manifest[api.spec])
                      /\ api.phase = "Completed" => CanFinish(Manifest[api.spec])
    BY DEF StuckNeverCompletes
  <2>1. \A p \in PodNames : pods[p].phase # "None" /\ pods[p].uid = api.uid =>
           pods[p].task \notin Unstartable(Manifest[api.spec])
    BY DEF Accounts, PodsAccounted
  <2>2. Foreseen(api) /\ Covered(api) /\ Verdicts
    BY DEF Inductive, Versions, Accounts, AllSound, Sound
  <2>3. ASSUME api.phase = "Completed"
        PROVE  CanFinish(Manifest[api.spec])
    <3>1. /\ InPhase(api.ts, "Succeeded") # {}
          /\ TaskNames = InPhase(api.ts, "Succeeded") \cup InPhase(api.ts, "Absent")
      BY <2>2, <2>3 DEF Verdicts
    <3>2. Tasks(Manifest[api.spec]) = InPhase(api.ts, "Succeeded")
      BY <2>2, <3>1 DEF Covered, NilStatuses, InPhase
    <3>3. \A t \in InPhase(api.ts, "Succeeded") : t \notin Unstartable(Manifest[api.spec])
      BY <2>2 DEF Foreseen, InPhase
    <3>4. Unstartable(Manifest[api.spec]) \subseteq Tasks(Manifest[api.spec])
      BY DEF Unstartable
    <3>5. QED
      BY <3>1, <3>2, <3>3, <3>4 DEF CanFinish
  <2>4. QED
    BY <2>1, <2>3
<1>2. QED
  BY <1>1, TypeCorrect, Invariance, AccountsHold, PTL

\* No pod is started again for the object its task already succeeded for,
\* unless pods are deleted by others.
THEOREM StartedOnce == Spec => RunsOnce
<1>1. ASSUME TypeOK, TypeOK', Inductive, Accounts, [Next]_vars, "podloss" \notin Disturbances,
             NEW p \in PodNames, pods'[p] # pods[p], pods'[p].phase = "Active"
      PROVE  <<pods'[p].uid, pods'[p].task>> \notin succeeded
  <2>1. PICK t \in TaskNames : CreateTaskPod(t) /\ p = PodName[t]
    <3>1. ASSUME NEW q \in PodNames, PodSucceeds(q) \/ PodFails(q) \/ PodLoss(q) \/ Collect(q)
          PROVE  FALSE
      <4>1. CASE q = p
        BY <1>1, <3>1, <4>1 DEF PodSucceeds, PodFails, PodLoss, Collect, NoPod, TypeOK, Pod
      <4>2. CASE q # p
        BY <1>1, <3>1, <4>2 DEF PodSucceeds, PodFails, PodLoss, Collect, TypeOK
      <4>3. QED
        BY <4>1, <4>2
    <3>2. \E t \in TaskNames : CreateTaskPod(t)
      BY <1>1, <3>1
         DEF Next, Reconcile, Environment, vars, Get, RemoveFinalizer, AddFinalizer,
             AddFinalizerError, InitStatus, SyncPods, RecordExecution, MarkFailed,
             MarkCompleted, Plan, PlanError, AdoptTaskPod, TaskPodExists,
             CreateTaskPodError, SaveStatus, UpdateAndReturn, UserCreate, UserUpdate,
             UserDelete, OnlyWorkflow, CacheAdvance, PodCacheSync, Crash
    <3>3. QED
      BY <1>1, <3>2, ControllerAssumption DEF CreateTaskPod, TypeOK
  <2>2. /\ pc = "spawn" /\ pods[p].phase = "None" /\ pods'[p] = NewPod(t)
    BY <1>1, <2>1 DEF CreateTaskPod, IsNext, TypeOK
  <2>3. pods'[p].uid = wf.uid /\ pods'[p].task = t /\ api.live /\ api.uid = wf.uid
    BY <1>1, <2>2 DEF NewPod, Inductive, Ownership
  <2>4. wf.uid \in 0..MaxUid
    BY <1>1 DEF TypeOK, Object
  <2>5. QED
    BY <1>1, <2>1, <2>2, <2>3, <2>4 DEF Accounts, PodsAccounted
<1>2. TypeOK /\ TypeOK' /\ Inductive /\ Accounts /\ [Next]_vars =>
         [\A p \in PodNames :
             "podloss" \notin Disturbances /\ pods'[p] # pods[p] /\ pods'[p].phase = "Active" =>
                <<pods'[p].uid, pods'[p].task>> \notin succeeded]_vars
  BY <1>1
<1>3. QED
  BY <1>2, TypeCorrect, Invariance, AccountsHold, PTL DEF Spec, RunsOnce

\* If specs are never replaced, a workflow is completed for all of its tasks.
\* (With replaced specs it is not: that is the run v_respec_completes.)
THEOREM CompletionCovers ==
    ASSUME MaxGen = 1
    PROVE  Spec => CompletedCoversSpec
<1>1. ASSUME TypeOK, TypeOK', Inductive, Inductive', Accounts', [Next]_vars,
             api.phase # "Completed", api'.phase = "Completed"
      PROVE  Tasks(Manifest[api'.spec]) \subseteq InPhase(api'.ts, "Succeeded")
  <2>1. [Abstract!Change]_(Abstract!board_vars)
    BY <1>1, ContractStep DEF Inductive
  <2>2. api'.live
    BY <1>1, <2>1
       DEF Abstract!Change, Abstract!board_vars, Abstract!Submit, Abstract!Edit, Abstract!Remove,
           Abstract!Admit, Abstract!Advance, Abstract!Conclude
  <2>3. /\ InPhase(api'.ts, "Succeeded") # {}
        /\ TaskNames = InPhase(api'.ts, "Succeeded") \cup InPhase(api'.ts, "Absent")
    BY <1>1 DEF Inductive, Verdicts
  <2>4. Sound(api')
    BY <1>1 DEF Inductive, Versions, Accounts, AllSound
  <2>5. api'.gen = 1
    BY <1>1, <2>2, <2>4 DEF Sound, TypeOK, Object
  <2>6. QED
    BY <2>3, <2>4, <2>5 DEF Sound, Covered, NilStatuses, InPhase
<1>2. TypeOK /\ TypeOK' /\ Inductive /\ Inductive' /\ Accounts' /\ [Next]_vars =>
         [api.phase # "Completed" /\ api'.phase = "Completed" =>
             Tasks(Manifest[api'.spec]) \subseteq InPhase(api'.ts, "Succeeded")]_vars
  BY <1>1
<1>3. QED
  BY <1>2, TypeCorrect, Invariance, AccountsHold, PTL DEF Spec, CompletedCoversSpec
=============================================================================
