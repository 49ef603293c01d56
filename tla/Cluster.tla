------------------------------ MODULE Cluster ------------------------------
(***************************************************************************)
(* Several workflows in one cluster: the clients of Kwf, one controller    *)
(* worker that serves a queue of workflow names, and one name space of     *)
(* pods.  AdaptiveWorkflow takes a single pass apart, with stale caches,   *)
(* rejected writes and crashes; here caches are up to date and a pass of   *)
(* Reconcile is one step, so that what workflows do to each other and what *)
(* users do to all of them stays in reach.                                 *)
(***************************************************************************)
EXTENDS Kwf

CONSTANTS
    PodNames,       \* names of pods
    PodName         \* workflow -> task -> podName(workflow, task)

\* Two tasks may come to one pod name: names are lowercased, and "a" + "-" +
\* "b-c" is "a-b" + "-" + "c".
ASSUME ClusterAssumption ==
    /\ TaskNames # {}
    /\ PodName \in [Workflows -> [TaskNames -> PodNames]]

VARIABLES
    pods,       \* pod name -> stored pod
    queue,      \* the work queue: names of workflows that wait for a pass
    done        \* ghost: <<workflow, uid, task>> of every pod that succeeded

vars == <<obj, client, submits, pods, queue, done>>

\* A pod and the labels and owner reference it was created with.
Pod == [phase : {"None", "Active", "Succeeded", "Failed"}, wf : Workflows,
        uid : 0..MaxUid, task : TaskNames]

NoPod == [phase |-> "None", wf |-> CHOOSE w \in Workflows : TRUE, uid |-> 0,
          task |-> CHOOSE t \in TaskNames : TRUE]

TypeOK ==
    /\ KwfTypeOK
    /\ pods \in [PodNames -> Pod]
    /\ queue \subseteq Workflows
    /\ done \subseteq (Workflows \X (0..MaxUid) \X TaskNames)

\* The informer lists the workflows there are and queues each.
Init ==
    /\ KwfInit
    /\ pods = [p \in PodNames |-> NoPod]
    /\ queue = {w \in Workflows : obj[w].live}
    /\ done = {}

-----------------------------------------------------------------------------
(***************************************************************************)
(* One pass of Reconcile.  Priorities, rate limits and requeue delays      *)
(* decide which of the waiting names is next; here it may be any of them.  *)
(***************************************************************************)
IsNext(w) == w \in queue

\* Mutant: the result of the pass and the events of its own writes are lost.
ReturnForgotten(w, requeue) == queue' = queue \ {w}

\* The pass returns; requeue tells whether its result, or the event of its own
\* write, queues the name again.
Return(w, requeue) == queue' = IF requeue THEN queue ELSE queue \ {w}

\* The pass ends with a status or metadata write.
WriteAndReturn(w, new, requeue) ==
    /\ obj' = [obj EXCEPT ![w] = Stored(w, new)]
    /\ Return(w, requeue \/ obj'[w] # obj[w])

Settled(w) == obj[w].phase \in {"Completed", "Failed"}

NilStatuses(w) == InPhase(obj[w].ts, "Absent") = TaskNames

\* Mutant: the check for a terminal phase comes before the one for deletion.
PassNothingSettledFirst(w) ==
    /\ IsNext(w)
    /\ ~obj[w].live \/ Settled(w)
    /\ Return(w, FALSE)
    /\ UNCHANGED <<obj, client, submits, pods, done>>

\* Steps 1, 2 and 4: there is nothing to reconcile.
PassNothing(w) ==
    /\ IsNext(w)
    /\ ~obj[w].live \/ (~obj[w].deleting /\ Settled(w))
    /\ Return(w, FALSE)
    /\ UNCHANGED <<obj, client, submits, pods, done>>

\* Step 2: the finalizer is removed and the object with it.
PassDeleted(w) ==
    /\ IsNext(w)
    /\ obj[w].live
    /\ obj[w].deleting
    /\ WriteAndReturn(w, Gone(obj[w].uid, obj[w].rv), FALSE)
    /\ UNCHANGED <<client, submits, pods, done>>

\* Mutant: the phase of a task is left empty.
InitialNoPhase(m) ==
    [t \in TaskNames |->
        IF t \in Tasks(m) THEN [phase |-> "", alloc |-> NoResource] ELSE NoTask]

Initial(m) ==
    [t \in TaskNames |->
        IF t \in Tasks(m) THEN [phase |-> "Pending", alloc |-> NoResource] ELSE NoTask]

\* Steps 2 and 3: finalizer and initial statuses.  Without tasks the statuses
\* stay absent, and every pass comes here again.
PassInit(w) ==
    /\ IsNext(w)
    /\ obj[w].live
    /\ ~obj[w].deleting
    /\ NilStatuses(w)
    /\ WriteAndReturn(w, [obj[w] EXCEPT
                            !.finalizer = TRUE,
                            !.phase = "Pending",
                            !.ts = Initial(Manifest[obj[w].spec])],
                      TRUE)
    /\ UNCHANGED <<client, submits, pods, done>>

\* Mutant: the pod is looked up by its name, whoever created it.
ListedByName(w, t) == {p \in {PodName[w][t]} : pods[p].phase # "None"}

\* The pods listed for w and t, by their labels: workflow name and task name.
Listed(w, t) == {p \in PodNames : pods[p].phase # "None" /\ pods[p].wf = w /\ pods[p].task = t}

\* The phase of t by the pods that have ended, if there is one.
Result(w, t) ==
    LET ended == {p \in Listed(w, t) : pods[p].phase \in {"Succeeded", "Failed"}}
    IN  IF ended = {} THEN obj[w].ts[t].phase ELSE pods[CHOOSE p \in ended : TRUE].phase

\* Step 5, syncPodsToStatus.
Synced(w) ==
    [t \in TaskNames |-> [obj[w].ts[t] EXCEPT !.phase = IF @ = "Running" THEN Result(w, t) ELSE @]]

Reconciles(w) ==
    /\ IsNext(w)
    /\ obj[w].live
    /\ ~obj[w].deleting
    /\ ~NilStatuses(w)
    /\ ~Settled(w)

\* Step 6.
PassFailed(w) ==
    /\ Reconciles(w)
    /\ InPhase(Synced(w), "Failed") # {}
    /\ WriteAndReturn(w, [obj[w] EXCEPT !.phase = "Failed", !.ts = Synced(w)], FALSE)
    /\ UNCHANGED <<client, submits, pods, done>>

\* Step 7.
PassCompleted(w) ==
    /\ Reconciles(w)
    /\ TaskNames = InPhase(Synced(w), "Succeeded") \cup InPhase(Synced(w), "Absent")
    /\ WriteAndReturn(w, [obj[w] EXCEPT !.phase = "Completed", !.ts = Synced(w)], FALSE)
    /\ UNCHANGED <<client, submits, pods, done>>

\* Steps 8 to 10.  createTaskPod leaves a pod of that name alone, whoever
\* created it, and the task counts as started in any case; of two chosen tasks
\* with one pod name the pod is the first one's.
PassPlan(w) ==
    /\ Reconciles(w)
    /\ InPhase(Synced(w), "Failed") = {}
    /\ TaskNames # InPhase(Synced(w), "Succeeded") \cup InPhase(Synced(w), "Absent")
    /\ LET m == Manifest[obj[w].spec]
       IN  \E chosen \in SUBSET Tasks(m) :
              /\ IsGreedyPlan(m, Synced(w), BaselinePredict(m), chosen)
              /\ pods' = [p \in PodNames |->
                            LET own == {t \in chosen :
                                          /\ PodName[w][t] = p
                                          /\ \A s \in chosen : PodName[w][s] = p => ~Before(m, s, t)}
                            IN  IF pods[p].phase = "None" /\ own # {}
                                THEN [phase |-> "Active", wf |-> w, uid |-> obj[w].uid,
                                      task |-> CHOOSE t \in own : TRUE]
                                ELSE pods[p]]
              /\ WriteAndReturn(w, [obj[w] EXCEPT
                                      !.phase = "Running",
                                      !.ts = [t \in TaskNames |->
                                                IF t \in chosen
                                                THEN [phase |-> "Running",
                                                      alloc |-> resolveResources(m, BaselinePredict(m), t)]
                                                ELSE Synced(w)[t]]],
                                TRUE)
    /\ UNCHANGED <<client, submits, done>>

Pass(w) ==
    \/ PassNothing(w)
    \/ PassDeleted(w)
    \/ PassInit(w)
    \/ PassFailed(w)
    \/ PassCompleted(w)
    \/ PassPlan(w)

-----------------------------------------------------------------------------
(***************************************************************************)
(* The others.                                                             *)
(***************************************************************************)

\* A user's write is an event for the controller.
UserStep ==
    /\ KwfNext
    /\ queue' = queue \cup {w \in Workflows : obj'[w] # obj[w]}
    /\ UNCHANGED <<pods, done>>

\* An event of a pod queues the workflow its owner reference names.
PodEnds(p) ==
    /\ pods[p].phase = "Active"
    /\ \E outcome \in {"Succeeded"} \cup (IF "podfail" \in Faults THEN {"Failed"} ELSE {}) :
          /\ pods' = [pods EXCEPT ![p].phase = outcome]
          /\ done' = IF outcome = "Succeeded"
                     THEN done \cup {<<pods[p].wf, pods[p].uid, pods[p].task>>} ELSE done
    /\ queue' = queue \cup {pods[p].wf}
    /\ UNCHANGED <<obj, client, submits>>

Collect(p) ==
    /\ pods[p].phase # "None"
    /\ ~(obj[pods[p].wf].live /\ obj[pods[p].wf].uid = pods[p].uid)
    /\ pods' = [pods EXCEPT ![p] = NoPod]
    /\ queue' = queue \cup {pods[p].wf}
    /\ UNCHANGED <<obj, client, submits, done>>

Next ==
    \/ \E w \in Workflows : Pass(w)
    \/ UserStep
    \/ \E p \in PodNames : PodEnds(p) \/ Collect(p)

Spec == Init /\ [][Next]_vars

\* Every waiting name gets its pass (one that queues itself again is held back
\* by the rate limiter or the requeue interval, so it cannot keep the worker),
\* and started pods end.  Users and the garbage collector owe nothing.
FairSpec ==
    /\ Spec
    /\ \A w \in Workflows : WF_vars(Pass(w))
    /\ \A p \in PodNames : WF_vars(PodEnds(p))

-----------------------------------------------------------------------------
(***************************************************************************)
(* Correctness.                                                            *)
(***************************************************************************)

\* No workflow takes a result from another: a task is stored as Succeeded only
\* if a pod that was created for this workflow and task ran to success, also
\* when createTaskPod found the pod of another workflow under its name.
OwnResults ==
    \A w \in Workflows : \A t \in InPhase(obj[w].ts, "Succeeded") :
        \E u \in 0..MaxUid : <<w, u, t>> \in done

\* A submit that replaces a spec replaces the spec its user read: nobody's
\* manifest, and no later incarnation's, is overwritten unseen.
NoBlindOverwrite ==
    [][\A w \in Workflows :
          obj[w].live /\ obj'[w].live /\ obj'[w].spec # obj[w].spec =>
             \E c \in Clients :
                /\ client[c].wf = w
                /\ client[c].pc = "update"
                /\ client[c].spec = obj'[w].spec
                /\ client[c].read.uid = obj[w].uid
                /\ client[c].read.gen = obj[w].gen]_vars

Board(o) == [t \in TaskNames |-> o.ts[t].phase]

Contract(w) == INSTANCE WorkflowContract
    WITH live <- obj[w].live, uid <- obj[w].uid, spec <- obj[w].spec,
         board <- Board(obj[w]), verdict <- obj[w].phase

\* Each workflow's stored status moves by the steps of the contract, whatever
\* the clients write between the passes and whoever else uses the pods.
EachKeepsContract ==
    [][\A w \in Workflows :
          Contract(w)!Change \/ UNCHANGED Contract(w)!board_vars]_vars

\* kwf status and kwf list tell the same story of a workflow whose spec was
\* not replaced: as many rows are Running as list counts, and "Unknown" is
\* printed only while the workflow has no phase.
ViewsAgree ==
    \A w \in Workflows : obj[w].live /\ obj[w].gen = 1 =>
        LET rows == StatusRows(obj[w])
            row  == ListRow(obj[w])
        IN  /\ row.running = Cardinality({t \in DOMAIN rows : rows[t] = "Running"})
            /\ (\E t \in DOMAIN rows : rows[t] = "Unknown") => row.phase = "None"

-----------------------------------------------------------------------------
(***************************************************************************)
(* Liveness, under FairSpec.                                               *)
(***************************************************************************)

\* A task of w that is shown as Running although no pod of this object works
\* for it: createTaskPod found one under its name that belongs to another
\* workflow or to an earlier object, which may be collected since.
Unattended(w, t) ==
    LET pod == pods[PodName[w][t]]
    IN  /\ obj[w].ts[t].phase = "Running"
        /\ ~(pod.phase # "None" /\ pod.wf = w /\ pod.task = t /\ pod.uid = obj[w].uid)

\* A task that an edit dropped from the spec of w before it was started.
Dropped(w, t) == obj[w].ts[t].phase = "Pending" /\ t \notin Tasks(Manifest[obj[w].spec])

\* A workflow that is neither deleted nor impossible is decided, whatever the
\* others are and do, in its first or a later life and edited or not; or it
\* waits for ever for a task without a pod of its own or without a place in
\* the spec.  That the worker gets round to every waiting name is assumed.
EachDecided ==
    \A w \in Workflows :
        (obj[w].live /\ ~obj[w].deleting)
           ~> (\/ Settled(w)
               \/ obj[w].deleting
               \/ ~obj[w].live
               \/ ~CanFinish(Manifest[obj[w].spec])
               \/ [](\E t \in TaskNames : Unattended(w, t) \/ Dropped(w, t)))

\* Every deletion finishes, however busy the queue is.
EachDeletionCompletes == \A w \in Workflows : obj[w].deleting ~> ~obj[w].live
=============================================================================
