--------------------- MODULE AdaptiveWorkflowInvariants ---------------------
(***************************************************************************)
(* The inductive invariants behind the theorems, which TLC checks too:     *)
(* Inductive, in five parts, for AdaptiveWorkflowProofs, and Accounts, in  *)
(* another five that rest on it, for StatusProofs.                         *)
(***************************************************************************)
EXTENDS AdaptiveWorkflow

\* The informer shows a stored version and has the later ones before it; the
\* latest of them is the stored object, and its resourceVersion tells it apart.
Versions ==
    /\ api \in stream
    /\ cache \in stream
    /\ \A o \in stream :
          /\ cache.rv <= o.rv
          /\ o.rv <= api.rv
          /\ o.rv = api.rv => o = api

\* The object in memory is the stored one but for its status.
SameMeta(o, v) ==
    /\ o.live = v.live
    /\ o.uid = v.uid
    /\ o.gen = v.gen
    /\ o.spec = v.spec
    /\ o.deleting = v.deleting
    /\ o.finalizer = v.finalizer

\* How a pass may have changed the status of task t in memory, from v to o.
Follows(v, o, t) ==
    \/ o.ts[t].phase = v.ts[t].phase
    \/ v.ts[t].phase = "Running" /\ o.ts[t].phase \in {"Succeeded", "Failed"}

Begun(v, o, t) ==
    /\ v.ts[t].phase \in {"Absent", "Pending"}
    /\ o.ts[t].phase = "Running"
    /\ t \in Tasks(Manifest[o.spec])
    /\ Manifest[o.spec].deps[t] \subseteq InPhase(o.ts, "Succeeded")

\* The pass is in flight and no one has changed the stored object since it
\* was read: only then will its write be accepted.
Current == pc # "idle" /\ wf.rv = api.rv

\* What the pass holds in memory is what its write may store: if the object is
\* still the version that was read, the pass changed only the status, and that
\* in the ways of the contract, and the object was not terminal.
InMemory ==
    /\ pc # "idle" => wf.live /\ wf.rv <= api.rv
    /\ Current => SameMeta(wf, api)
    /\ Current /\ pc \in {"unfinalize", "finalize", "init", "sync"} =>
          wf.ts = api.ts /\ wf.phase = api.phase
    /\ Current /\ pc \in {"sync", "record", "fail", "complete", "plan", "spawn"} =>
          ~Terminal(api)
    /\ Current /\ pc \in {"record", "fail", "complete", "plan"} =>
          \A t \in TaskNames : Follows(api, wf, t)
    /\ Current /\ pc = "spawn" =>
          \A t \in TaskNames : Follows(api, wf, t) \/ Begun(api, wf, t)
    /\ pc = "init" => NilStatuses(wf)
    /\ pc = "fail" => InPhase(wf.ts, "Failed") # {}
    /\ pc = "complete" =>
          /\ InPhase(wf.ts, "Succeeded") # {}
          /\ TaskNames = InPhase(wf.ts, "Succeeded") \cup InPhase(wf.ts, "Absent")
    /\ pc \in {"plan", "spawn"} => InPhase(wf.ts, "Failed") = {}
    /\ pc = "spawn" =>
          /\ todo \subseteq Ready(Manifest[wf.spec], wf.ts)
          /\ wf.phase = "Running"

\* Nothing that says "Succeeded" anywhere, stored, cached or in memory, says so
\* without a pod that ran to success.
Evidence ==
    /\ \A o \in stream \cup {api, cache, wf} : InPhase(o.ts, "Succeeded") \subseteq Finished
    /\ \A p \in PodNames : pods[p].phase = "Succeeded" => pods[p].task \in Finished
    /\ \A p \in PodNames : podCache[p].phase = "Succeeded" => podCache[p].task \in Finished
    /\ DependencyOrder

\* The finalizer holds the object while a pass may create pods for it: any
\* version the controller may still act on, and any pass that acts on one, is
\* of the object that is stored, with the finalizer in place.
Ownership ==
    /\ \A o \in stream :
          o.live /\ o.finalizer /\ ~o.deleting =>
             api.live /\ api.finalizer /\ api.uid = o.uid
    /\ pc = "unfinalize" => wf.deleting /\ wf.rv <= cache.rv
    /\ pc = "finalize" => ~wf.deleting
    /\ pc \notin {"idle", "unfinalize", "finalize"} =>
          api.live /\ api.finalizer /\ api.uid = wf.uid

\* A stored verdict is the one its task statuses call for.
Verdicts ==
    /\ api.phase = "Failed" => InPhase(api.ts, "Failed") # {}
    /\ api.phase = "Completed" =>
          /\ InPhase(api.ts, "Succeeded") # {}
          /\ TaskNames = InPhase(api.ts, "Succeeded") \cup InPhase(api.ts, "Absent")

\* The inductive invariant: what the caches, the pass in memory and the
\* finalizer guarantee together while users, pods and crashes interleave.
Inductive == Versions /\ InMemory /\ Evidence /\ Ownership /\ Verdicts

-----------------------------------------------------------------------------
(***************************************************************************)
(* What the versions of the workflow say about resources and tasks while   *)
(* the spec is the first one (gen = 1).                                    *)
(***************************************************************************)

\* What a task is given when the in-process baseline forecasts.
BaselineNeed(m, t) == resolveResources(m, BaselinePredict(m), t)

\* Running tasks and stored usage of a version are within its MaxResources.
InBudget(o) ==
    /\ Within(Manifest[o.spec].max, ResourceUsage(o.ts))
    /\ Within(Manifest[o.spec].max, Total(o.usage, TaskNames))

\* The statuses are not set yet, or their keys are the tasks of the spec.
Covered(o) ==
    \/ NilStatuses(o)
    \/ TaskNames \ InPhase(o.ts, "Absent") = Tasks(Manifest[o.spec])

\* With the baseline, a started task is one that can be, and a running one has
\* the allocation the baseline calls for.
Foreseen(o) ==
    LET m == Manifest[o.spec]
    IN  \A t \in TaskNames :
           /\ o.ts[t].phase = "Running" => o.ts[t].alloc = BaselineNeed(m, t)
           /\ o.ts[t].phase \notin {"Absent", "Pending"} => t \notin Unstartable(m)

Sound(o) ==
    /\ o.live <=> o.gen # 0
    /\ o.gen = 1 => InBudget(o) /\ Covered(o)
    /\ o.gen = 1 /\ Forecasts = {} => Foreseen(o)

AllSound == \A o \in stream \cup {wf} : Sound(o)

\* A pass that plans has statuses; what it has yet to start fits next to what
\* runs, and is what the baseline calls for.
Affordable ==
    /\ pc \in {"sync", "record", "fail", "complete", "plan", "spawn"} => ~NilStatuses(wf)
    /\ pc = "spawn" /\ wf.gen = 1 =>
          Within(Manifest[wf.spec].max, Plus(ResourceUsage(wf.ts), Total(plan, todo)))
    /\ pc = "spawn" /\ wf.gen = 1 /\ Forecasts = {} =>
          \A t \in todo : /\ plan[t] = BaselineNeed(Manifest[wf.spec], t)
                          /\ t \notin Unstartable(Manifest[wf.spec])

\* A result is in the database, or about to be put there, before any version
\* of the workflow shows it.
Recorded ==
    LET inserted == {t \in TaskNames : records[t] > 0}
    IN  /\ pc # "record" => toRecord = {}
        /\ "db" \notin Disturbances =>
              /\ \A o \in stream : InPhase(o.ts, "Succeeded") \subseteq inserted
              /\ InPhase(wf.ts, "Succeeded") \subseteq inserted \cup toRecord

\* No version is of a later object than the stored one, and while that has its
\* first spec, every version of it does.
Incarnations ==
    \A o \in stream \cup {wf} :
        /\ o.uid <= api.uid
        /\ api.live /\ api.gen = 1 /\ o.live /\ o.uid = api.uid =>
              o.gen = 1 /\ o.spec = api.spec

\* A pod has the name of its task and an owner that exists or did; it requests
\* what the baseline calls for; and a pod that ran to success stays while its
\* owner does, unless someone deletes it.
PodsAccounted ==
    /\ \A p \in PodNames : pods[p].phase # "None" =>
          /\ PodName[pods[p].task] = p
          /\ pods[p].uid <= api.uid
          /\ Forecasts = {} /\ api.live /\ api.gen = 1 /\ pods[p].uid = api.uid =>
                /\ pods[p].req = BaselineNeed(Manifest[api.spec], pods[p].task)
                /\ pods[p].task \notin Unstartable(Manifest[api.spec])
    /\ "podloss" \notin Disturbances =>
          \A t \in TaskNames : \A u \in 0..MaxUid : <<u, t>> \in succeeded =>
             /\ u <= api.uid
             /\ api.live /\ api.uid = u =>
                   /\ pods[PodName[t]].phase = "Succeeded"
                   /\ pods[PodName[t]].uid = u
                   /\ pods[PodName[t]].task = t

\* The second inductive invariant: stored, cached and in-memory statuses, the
\* plan under way, the database and the pods tell the same story.
Accounts == AllSound /\ Affordable /\ Recorded /\ Incarnations /\ PodsAccounted
=============================================================================
