----------------------------- MODULE Scheduling -----------------------------
(***************************************************************************)
(* The data the controller and the optimizer share, and the schedule a     *)
(* greedy optimizer answers with (src/internal/optimizer/greedy.go).       *)
(*                                                                         *)
(* A resource quantity is a pair of naturals (milli-CPU, MiB).  Limits,    *)
(* images, commands and durations are left out: no decision of the         *)
(* controller depends on them.  A map of the Go code whose keys are task   *)
(* names is a function whose domain is a subset of TaskNames.              *)
(***************************************************************************)
EXTENDS Integers, Sequences, FiniteSets, FiniteSetsExt

CONSTANTS
    TaskNames,      \* the task names a manifest may mention
    ManifestIds,    \* the specs users submit
    Manifest        \* id -> [tasks, deps, base, max], an AdaptiveWorkflowSpec

Resource == [cpu : Nat, mem : Nat]

NoResource == [cpu |-> 0, mem |-> 0]

Plus(a, b) == [cpu |-> a.cpu + b.cpu, mem |-> a.mem + b.mem]

\* A Go map from task name to resources: absent keys are not in its domain.
IsResourceMap(f) ==
    /\ DOMAIN f \subseteq TaskNames
    /\ \A t \in DOMAIN f : f[t] \in Resource

\* tasks is the order of spec.tasks, deps the dependencies by name (a name
\* may be missing from tasks), base the BaseResources hints that are set and
\* max the MaxResources, where zero stands for "not set".
IsManifest(m) ==
    /\ m.tasks \in Seq(TaskNames)
    /\ \A i, j \in DOMAIN m.tasks : m.tasks[i] = m.tasks[j] => i = j
    /\ m.deps \in [TaskNames -> SUBSET TaskNames]
    /\ IsResourceMap(m.base)
    /\ m.max \in Resource

ASSUME ManifestAssumption ==
    /\ IsFiniteSet(TaskNames)
    /\ \A id \in ManifestIds : IsManifest(Manifest[id])

Tasks(m) == {m.tasks[i] : i \in DOMAIN m.tasks}

\* s comes before t in spec.tasks.
Before(m, s, t) ==
    \E i, j \in DOMAIN m.tasks : i < j /\ m.tasks[i] = s /\ m.tasks[j] = t

-----------------------------------------------------------------------------
(***************************************************************************)
(* Task statuses: the map Status.TaskStatuses as a total function, with    *)
(* phase "Absent" for a name that is not a key.                            *)
(***************************************************************************)
TaskPhases == {"Absent", "Pending", "Running", "Succeeded", "Failed"}

TaskStatus == [phase : TaskPhases, alloc : Resource]

NoTask == [phase |-> "Absent", alloc |-> NoResource]

NoStatuses == [t \in TaskNames |-> NoTask]

InPhase(ts, p) == {t \in TaskNames : ts[t].phase = p}

\* The requests of a set of tasks, added up.
Total(res, S) ==
    [cpu |-> MapThenSumSet(LAMBDA t : res[t].cpu, S),
     mem |-> MapThenSumSet(LAMBDA t : res[t].mem, S)]

NoAllocations == [t \in TaskNames |-> NoResource]

\* What computeResourceUsage, and the same loop at the start of the optimizer's
\* Plan, add up: the allocation of each Running task, nothing for the others.
RunningAllocations(ts) ==
    [t \in TaskNames |-> IF ts[t].phase = "Running" THEN ts[t].alloc ELSE NoResource]

ResourceUsage(ts) == Total(RunningAllocations(ts), TaskNames)

-----------------------------------------------------------------------------
(***************************************************************************)
(* The inference engine's answer and the optimizer's.                      *)
(***************************************************************************)

\* BaselineEngine.Predict: the hints of the manifest, and nothing for a task
\* without one.
BaselinePredict(m) == [t \in Tasks(m) \cap DOMAIN m.base |-> m.base[t]]

DefaultResources == [cpu |-> 100, mem |-> 128]

resolveResources(m, predictions, t) ==
    IF t \in DOMAIN predictions THEN predictions[t]
    ELSE IF t \in DOMAIN m.base THEN m.base[t]
    ELSE DefaultResources

\* An unset (zero) maximum constrains nothing.
Within(max, use) ==
    /\ max.cpu = 0 \/ use.cpu <= max.cpu
    /\ max.mem = 0 \/ use.mem <= max.mem

\* Mutant: a dependency that was started is good enough.
ReadyDepsStarted(m, ts) ==
    {t \in Tasks(m) :
        /\ ts[t].phase \in {"Absent", "Pending"}
        /\ m.deps[t] \subseteq InPhase(ts, "Succeeded") \cup InPhase(ts, "Running")}

\* Mutant: a dependency that is not a task counts as met.
ReadyUnknownMet(m, ts) ==
    {t \in Tasks(m) :
        /\ ts[t].phase \in {"Absent", "Pending"}
        /\ m.deps[t] \cap Tasks(m) \subseteq InPhase(ts, "Succeeded")}

\* Mutant: the loop stops at a task that waits instead of going on.
ReadyInOrder(m, ts) ==
    {t \in Tasks(m) :
        \A s \in Tasks(m) : s = t \/ Before(m, s, t) =>
            /\ s = t => ts[s].phase \in {"Absent", "Pending"}
            /\ ts[s].phase \in {"Absent", "Pending"} => m.deps[s] \subseteq InPhase(ts, "Succeeded")}

\* The tasks the optimizer considers: not started yet (a task the statuses do
\* not know counts as not started) and with every dependency Succeeded.
Ready(m, ts) ==
    {t \in Tasks(m) :
        /\ ts[t].phase \in {"Absent", "Pending"}
        /\ m.deps[t] \subseteq InPhase(ts, "Succeeded")}

\* Mutant: the running total is not updated when a task is taken.
IsGreedyPlanNoTotal(m, ts, predictions, chosen) ==
    LET need  == [t \in TaskNames |-> resolveResources(m, predictions, t)]
    IN  /\ chosen \subseteq Ready(m, ts)
        /\ \A t \in Ready(m, ts) :
              t \in chosen <=> Within(m.max, Plus(ResourceUsage(ts), need[t]))

\* chosen is what the loop over spec.tasks schedules: a ready task is taken
\* exactly when it still fits next to the running tasks and the tasks taken
\* before it.
IsGreedyPlan(m, ts, predictions, chosen) ==
    LET need  == [t \in TaskNames |-> resolveResources(m, predictions, t)]
        Taken(t) == {s \in chosen : Before(m, s, t)}
    IN  /\ chosen \subseteq Ready(m, ts)
        /\ \A t \in Ready(m, ts) :
              t \in chosen <=>
                 Within(m.max, Plus(Plus(ResourceUsage(ts), Total(need, Taken(t))),
                                    need[t]))
-----------------------------------------------------------------------------
(***************************************************************************)
(* Manifests that cannot be carried out.                                   *)
(***************************************************************************)

\* The tasks that are never started, judged by the manifest alone and with the
\* baseline's forecasts: those that need more than MaxResources by themselves,
\* wait for a name that is no task, for each other, or for one of these.
Unstartable(m) ==
    UNION {S \in SUBSET Tasks(m) :
              \A t \in S :
                 \/ ~Within(m.max, resolveResources(m, BaselinePredict(m), t))
                 \/ m.deps[t] \cap S # {}
                 \/ ~(m.deps[t] \subseteq Tasks(m))}

\* There is something to do, and all of it can be done.
CanFinish(m) == Tasks(m) # {} /\ Unstartable(m) = {}
=============================================================================
