--------------------------- MODULE ClusterProofs ---------------------------
(***************************************************************************)
(* Theorems about Cluster for every value of its constants: any number of  *)
(* workflows, manifests, clients, submits and re-creations, and any naming *)
(* of pods.                                                                *)
(***************************************************************************)
EXTENDS Cluster, TLAPS

-----------------------------------------------------------------------------
(***************************************************************************)
(* Types of the values the actions are made of.                            *)
(***************************************************************************)

\* The neutral values of statuses, names, pods and specs have their types.
LEMMA NeutralTypes ==
    /\ NoResource \in Resource
    /\ NoStatuses \in [TaskNames -> TaskStatus]
    /\ (CHOOSE w \in Workflows : TRUE) \in Workflows
    /\ (CHOOSE id \in ManifestIds : TRUE) \in ManifestIds
    /\ NoPod \in Pod
<1>1. NoResource \in Resource
  BY DEF NoResource, Resource
<1>2. NoStatuses \in [TaskNames -> TaskStatus]
  BY <1>1 DEF NoStatuses, NoTask, TaskStatus, TaskPhases
<1>3. (CHOOSE w \in Workflows : TRUE) \in Workflows
  BY KwfAssumption
<1>4. (CHOOSE id \in ManifestIds : TRUE) \in ManifestIds
  BY KwfAssumption
<1>5. (CHOOSE t \in TaskNames : TRUE) \in TaskNames
  BY ClusterAssumption
<1>6. NoPod \in Pod
  BY <1>3, <1>5, KwfAssumption DEF NoPod, Pod
<1>7. QED
  BY <1>1, <1>2, <1>3, <1>4, <1>6

\* A removed object is an object.
LEMMA GoneType ==
    ASSUME NEW u \in 0..MaxUid, NEW v \in Nat
    PROVE  Gone(u, v) \in Object
BY NeutralTypes DEF Gone, Object, Phases

\* A new object is an object, with the spec of its file and no statuses.
LEMMA CreatedType ==
    ASSUME NEW f, f.spec \in ManifestIds, NEW u \in 0..MaxUid, NEW v \in Nat
    PROVE  /\ Created(f, u, v) \in Object
           /\ Created(f, u, v).spec = f.spec
           /\ Created(f, u, v).ts = NoStatuses
BY NeutralTypes DEF Created, Gone, Object, Phases

\* A write stores what was asked for, under the next version if it differs.
LEMMA StoredFacts ==
    ASSUME TypeOK, NEW w \in Workflows, NEW new \in Object
    PROVE  /\ Stored(w, new) \in Object
           /\ Stored(w, new) = obj[w] \/ Stored(w, new).rv = obj[w].rv + 1
           /\ Stored(w, new).live = new.live
           /\ Stored(w, new).uid = new.uid
           /\ Stored(w, new).gen = new.gen
           /\ Stored(w, new).spec = new.spec
           /\ Stored(w, new).phase = new.phase
           /\ Stored(w, new).ts = new.ts
<1>1. obj[w] \in Object
  BY DEF TypeOK, KwfTypeOK
<1>2. CASE new = obj[w]
  BY <1>1, <1>2 DEF Stored
<1>3. CASE new # obj[w]
  <2>1. Stored(w, new) = [new EXCEPT !.rv = obj[w].rv + 1]
    BY <1>3 DEF Stored
  <2>2. obj[w].rv + 1 \in Nat
    BY <1>1 DEF Object
  <2>3. QED
    BY <2>1, <2>2 DEF Object
<1>4. QED
  BY <1>2, <1>3

\* resolveResources answers resources, whichever of its sources it takes.
LEMMA ResolveType ==
    ASSUME NEW id \in ManifestIds, NEW t \in TaskNames
    PROVE  resolveResources(Manifest[id], BaselinePredict(Manifest[id]), t) \in Resource
<1>1. IsManifest(Manifest[id])
  BY ManifestAssumption
<1>2. DefaultResources \in Resource
  BY DEF DefaultResources, Resource
<1>3. \A s \in DOMAIN Manifest[id].base : Manifest[id].base[s] \in Resource
  BY <1>1 DEF IsManifest, IsResourceMap
<1>4. CASE t \in DOMAIN BaselinePredict(Manifest[id])
  BY <1>3, <1>4 DEF resolveResources, BaselinePredict
<1>5. CASE t \notin DOMAIN BaselinePredict(Manifest[id])
  BY <1>2, <1>3, <1>5 DEF resolveResources
<1>6. QED
  BY <1>4, <1>5

\* The statuses that initialisation stores have their type.
LEMMA InitialType ==
    ASSUME NEW m
    PROVE  Initial(m) \in [TaskNames -> TaskStatus]
BY NeutralTypes DEF Initial, NoTask, TaskStatus, TaskPhases

\* A result comes from a pod of this workflow and task that has ended.
LEMMA ResultFacts ==
    ASSUME TypeOK, NEW w \in Workflows, NEW t \in TaskNames
    PROVE  /\ Result(w, t) \in TaskPhases
           /\ \/ Result(w, t) = obj[w].ts[t].phase
              \/ \E p \in Listed(w, t) :
                    Result(w, t) = pods[p].phase /\ pods[p].phase \in {"Succeeded", "Failed"}
<1> DEFINE ended == {p \in Listed(w, t) : pods[p].phase \in {"Succeeded", "Failed"}}
<1>1. obj[w].ts[t].phase \in TaskPhases
  BY DEF TypeOK, KwfTypeOK, Object, TaskStatus
<1>2. CASE ended = {}
  BY <1>1, <1>2 DEF Result
<1>3. CASE ended # {}
  <2>1. (CHOOSE p \in ended : TRUE) \in ended
    BY <1>3
  <2>2. Result(w, t) = pods[CHOOSE p \in ended : TRUE].phase
    BY <1>3 DEF Result
  <2>3. PICK p \in ended : Result(w, t) = pods[p].phase
    BY <2>1, <2>2
  <2>4. QED
    BY <2>3 DEF TaskPhases
<1>4. QED
  BY <1>2, <1>3

\* syncPodsToStatus moves the tasks that are Running and no others.
LEMMA SyncedFacts ==
    ASSUME TypeOK, NEW w \in Workflows
    PROVE  /\ Synced(w) \in [TaskNames -> TaskStatus]
           /\ \A t \in TaskNames :
                 Synced(w)[t].phase = IF obj[w].ts[t].phase = "Running" THEN Result(w, t)
                                      ELSE obj[w].ts[t].phase
<1>1. obj[w].ts \in [TaskNames -> TaskStatus]
  BY DEF TypeOK, KwfTypeOK, Object
<1>2. \A t \in TaskNames : Result(w, t) \in TaskPhases
  BY ResultFacts
<1>3. QED
  BY <1>1, <1>2 DEF Synced, TaskStatus

-----------------------------------------------------------------------------
(***************************************************************************)
(* The inductive invariant.                                                *)
(***************************************************************************)

\* What a client read is not newer than what is stored, and a version number
\* names one content: with the same resourceVersion it is the same incarnation
\* with the same spec.
ReadOf(c) ==
    client[c].pc = "update" =>
        /\ client[c].read.rv <= obj[client[c].wf].rv
        /\ client[c].read.rv = obj[client[c].wf].rv =>
              /\ client[c].read.uid = obj[client[c].wf].uid
              /\ client[c].read.gen = obj[client[c].wf].gen

ReadsAreStored == \A c \in Clients : ReadOf(c)

\* A pod that succeeded is recorded under the labels it carries.
PodsVouch ==
    \A p \in PodNames : pods[p].phase = "Succeeded" =>
        <<pods[p].wf, pods[p].uid, pods[p].task>> \in done

\* What the steps keep together.
Inv == TypeOK /\ ReadsAreStored /\ PodsVouch /\ OwnResults

\* Every write of an object goes through Stored: it has the type, raises the
\* version if it changes anything, and leaves the other workflows alone.
LEMMA WriteFacts ==
    ASSUME TypeOK, NEW w \in Workflows, NEW new \in Object,
           obj' = [obj EXCEPT ![w] = Stored(w, new)]
    PROVE  /\ obj' \in [Workflows -> Object]
           /\ \A v \in Workflows : obj'[v] = obj[v] \/ obj'[v].rv = obj[v].rv + 1
           /\ \A v \in Workflows \ {w} : obj'[v] = obj[v]
           /\ obj'[w].live = new.live
           /\ obj'[w].uid = new.uid
           /\ obj'[w].gen = new.gen
           /\ obj'[w].spec = new.spec
           /\ obj'[w].phase = new.phase
           /\ obj'[w].ts = new.ts
<1>1. obj \in [Workflows -> Object]
  BY DEF TypeOK, KwfTypeOK
<1>2. obj'[w] = Stored(w, new) /\ \A v \in Workflows \ {w} : obj'[v] = obj[v]
  BY <1>1
<1>3. QED
  BY <1>1, <1>2, StoredFacts

\* Rising versions keep the reads of the clients that do not move valid.
LEMMA ReadsKept ==
    ASSUME TypeOK, ReadsAreStored,
           \A v \in Workflows : obj'[v] = obj[v] \/ obj'[v].rv = obj[v].rv + 1,
           NEW c \in Clients, client'[c] = client[c]
    PROVE  ReadOf(c)'
<1> SUFFICES ASSUME client[c].pc = "update"
             PROVE  ReadOf(c)'
  BY DEF ReadOf
<1> DEFINE w == client[c].wf
<1>1. w \in Workflows /\ obj[w].rv \in Nat /\ client[c].read.rv \in Nat
  BY DEF TypeOK, KwfTypeOK, Object
<1>2. obj'[w] = obj[w] \/ obj'[w].rv = obj[w].rv + 1
  BY <1>1
<1>3. client[c].read.rv <= obj[w].rv
  BY DEF ReadsAreStored, ReadOf
<1>4. CASE obj'[w] = obj[w]
  BY <1>4 DEF ReadsAreStored, ReadOf
<1>5. CASE obj'[w].rv = obj[w].rv + 1
  <2>1. client[c].read.rv < obj'[w].rv
    BY <1>1, <1>3, <1>5
  <2>2. QED
    BY <1>1, <2>1 DEF ReadOf
<1>6. QED
  BY <1>2, <1>4, <1>5

\* Statuses of w that take their successes from the old ones keep OwnResults.
LEMMA OwnResultsKept ==
    ASSUME OwnResults, done \subseteq done',
           \A v \in Workflows : \A t \in TaskNames :
              obj'[v].ts[t].phase = "Succeeded" =>
                 obj[v].ts[t].phase = "Succeeded" \/ \E u \in 0..MaxUid : <<v, u, t>> \in done
    PROVE  OwnResults'
BY DEF OwnResults, InPhase

-----------------------------------------------------------------------------
(***************************************************************************)
(* What one step does to the objects.                                      *)
(***************************************************************************)

\* A success that syncPodsToStatus finds is one of a pod of this workflow.
LEMMA SyncedSucceeded ==
    ASSUME Inv, NEW w \in Workflows, NEW t \in TaskNames, Synced(w)[t].phase = "Succeeded"
    PROVE  obj[w].ts[t].phase = "Succeeded" \/ \E u \in 0..MaxUid : <<w, u, t>> \in done
<1>1. TypeOK /\ PodsVouch
  BY DEF Inv
<1>2. CASE obj[w].ts[t].phase # "Running"
  BY <1>1, <1>2, SyncedFacts
<1>3. CASE obj[w].ts[t].phase = "Running"
  <2>1. Result(w, t) = "Succeeded"
    BY <1>1, <1>3, SyncedFacts
  <2>2. PICK p \in Listed(w, t) : pods[p].phase = "Succeeded"
    BY <1>1, <1>3, <2>1, ResultFacts
  <2>3. p \in PodNames /\ pods[p].wf = w /\ pods[p].task = t
    BY <2>2 DEF Listed
  <2>4. pods[p].uid \in 0..MaxUid
    BY <1>1, <2>3 DEF TypeOK, Pod
  <2>5. <<w, pods[p].uid, t>> \in done
    BY <1>1, <2>2, <2>3 DEF PodsVouch
  <2>6. QED
    BY <2>4, <2>5
<1>4. QED
  BY <1>2, <1>3

\* The successes of new are those of w's stored statuses or of its own pods.
OwnSuccesses(w, new) ==
    \A t \in TaskNames : new.ts[t].phase = "Succeeded" =>
        obj[w].ts[t].phase = "Succeeded" \/ \E u \in 0..MaxUid : <<w, u, t>> \in done

\* A pass writes one object, its own, and never replaces a spec; what it does
\* to pods makes none of them succeed.
PassEffect(w) ==
    /\ \E new \in Object :
          /\ obj' = [obj EXCEPT ![w] = Stored(w, new)]
          /\ new.live => new.spec = obj[w].spec
          /\ OwnSuccesses(w, new)
    /\ pods' \in [PodNames -> Pod]
    /\ \A p \in PodNames : pods'[p].phase = "Succeeded" => pods'[p] = pods[p]
    /\ queue' \subseteq Workflows
    /\ UNCHANGED <<client, submits, done>>

\* Every way a pass of Reconcile can end has that effect.
LEMMA PassFacts ==
    ASSUME Inv, NEW w \in Workflows, Pass(w)
    PROVE  PassEffect(w)
<1> USE DEF OwnSuccesses, PassEffect
<1>1. TypeOK /\ obj[w] \in Object /\ obj \in [Workflows -> Object] /\ pods \in [PodNames -> Pod]
  BY DEF Inv, TypeOK, KwfTypeOK
<1>2. \A requeue : Return(w, requeue) => queue' \subseteq Workflows
  BY <1>1 DEF Return, TypeOK
<1>3. Synced(w) \in [TaskNames -> TaskStatus]
  BY <1>1, SyncedFacts
<1>4. CASE PassNothing(w)
  <2>1. obj' = [obj EXCEPT ![w] = Stored(w, obj[w])]
    BY <1>1, <1>4 DEF PassNothing, Stored
  <2>2. QED
    BY <1>1, <1>2, <1>4, <2>1 DEF PassNothing
<1>5. CASE PassDeleted(w)
  <2> DEFINE new == Gone(obj[w].uid, obj[w].rv)
  <2>1. new \in Object
    BY <1>1, GoneType DEF Object
  <2>2. ~new.live /\ \A t \in TaskNames : new.ts[t].phase # "Succeeded"
    BY DEF Gone, NoStatuses, NoTask
  <2>3. obj' = [obj EXCEPT ![w] = Stored(w, new)] /\ queue' \subseteq Workflows
    BY <1>2, <1>5 DEF PassDeleted, WriteAndReturn
  <2>4. QED
    BY <1>1, <1>5, <2>1, <2>2, <2>3 DEF PassDeleted
<1>6. CASE PassInit(w)
  <2> DEFINE ts == Initial(Manifest[obj[w].spec])
             new == [obj[w] EXCEPT !.finalizer = TRUE, !.phase = "Pending", !.ts = ts]
  <2>1. ts \in [TaskNames -> TaskStatus]
    BY InitialType
  <2>2. \A t \in TaskNames : ts[t].phase # "Succeeded"
    BY DEF Initial, NoTask
  <2>3. obj' = [obj EXCEPT ![w] = Stored(w, new)] /\ queue' \subseteq Workflows
    BY <1>2, <1>6 DEF PassInit, WriteAndReturn
  <2> HIDE DEF ts
  <2>4. new \in Object /\ new.spec = obj[w].spec /\ new.ts = ts
    BY <1>1, <2>1 DEF Object, Phases
  <2>5. QED
    BY <1>1, <1>6, <2>2, <2>3, <2>4 DEF PassInit
<1>7. ASSUME NEW ph \in {"Failed", "Completed"},
             WriteAndReturn(w, [obj[w] EXCEPT !.phase = ph, !.ts = Synced(w)], FALSE),
             UNCHANGED <<client, submits, pods, done>>
      PROVE  PassEffect(w)
  <2> DEFINE new == [obj[w] EXCEPT !.phase = ph, !.ts = Synced(w)]
  <2>1. new \in Object /\ new.spec = obj[w].spec /\ new.ts = Synced(w)
    BY <1>1, <1>3 DEF Object, Phases
  <2>2. OwnSuccesses(w, new)
    BY <2>1, SyncedSucceeded
  <2>3. obj' = [obj EXCEPT ![w] = Stored(w, new)] /\ queue' \subseteq Workflows
    BY <1>2, <1>7 DEF WriteAndReturn
  <2>4. QED
    BY <1>1, <1>7, <2>1, <2>2, <2>3
<1>8. CASE PassFailed(w)
  BY <1>7, <1>8 DEF PassFailed
<1>9. CASE PassCompleted(w)
  BY <1>7, <1>9 DEF PassCompleted
<1>10. CASE PassPlan(w)
  <2> DEFINE m == Manifest[obj[w].spec]
             Own(chosen, p) == {t \in chosen :
                                  /\ PodName[w][t] = p
                                  /\ \A s \in chosen : PodName[w][s] = p => ~Before(m, s, t)}
             Plan(chosen) == [t \in TaskNames |->
                                IF t \in chosen
                                THEN [phase |-> "Running",
                                      alloc |-> resolveResources(m, BaselinePredict(m), t)]
                                ELSE Synced(w)[t]]
             New(chosen) == [obj[w] EXCEPT !.phase = "Running", !.ts = Plan(chosen)]
  <2>1. PICK chosen \in SUBSET Tasks(m) :
           /\ pods' = [p \in PodNames |->
                         IF pods[p].phase = "None" /\ Own(chosen, p) # {}
                         THEN [phase |-> "Active", wf |-> w, uid |-> obj[w].uid,
                               task |-> CHOOSE t \in Own(chosen, p) : TRUE]
                         ELSE pods[p]]
           /\ WriteAndReturn(w, New(chosen), TRUE)
    BY <1>10 DEF PassPlan
  <2>2. obj[w].spec \in ManifestIds /\ obj[w].uid \in 0..MaxUid
    BY <1>1 DEF Object
  <2>3. chosen \subseteq TaskNames
    BY <2>2, ManifestAssumption DEF Tasks, IsManifest
  <2>4. Plan(chosen) \in [TaskNames -> TaskStatus]
    BY <1>3, <2>2, ResolveType DEF TaskStatus, TaskPhases
  <2>5. \A t \in TaskNames : Plan(chosen)[t].phase = "Succeeded" => Synced(w)[t].phase = "Succeeded"
    OBVIOUS
  <2>6. \A p \in PodNames : Own(chosen, p) # {} => (CHOOSE t \in Own(chosen, p) : TRUE) \in TaskNames
    BY <2>3
  <2>7. pods' \in [PodNames -> Pod] /\ \A p \in PodNames : pods'[p].phase = "Succeeded" => pods'[p] = pods[p]
    <3>1. \A p \in PodNames : Own(chosen, p) # {} =>
             [phase |-> "Active", wf |-> w, uid |-> obj[w].uid,
              task |-> CHOOSE t \in Own(chosen, p) : TRUE] \in Pod
      BY <2>2, <2>6 DEF Pod
    <3>2. QED
      BY <1>1, <2>1, <3>1
  <2>8. obj' = [obj EXCEPT ![w] = Stored(w, New(chosen))] /\ queue' \subseteq Workflows
    BY <1>2, <2>1 DEF WriteAndReturn
  <2> HIDE DEF Plan
  <2>9. New(chosen) \in Object /\ New(chosen).spec = obj[w].spec /\ New(chosen).ts = Plan(chosen)
    BY <1>1, <2>4 DEF Object, Phases
  <2>10. OwnSuccesses(w, New(chosen))
    BY <2>5, <2>9, SyncedSucceeded
  <2> HIDE DEF New
  <2>11. QED
    BY <1>10, <2>7, <2>8, <2>9, <2>10 DEF PassPlan
<1>11. QED
  BY <1>4, <1>5, <1>6, <1>8, <1>9, <1>10 DEF Pass

\* A client's write: one object or none, its successes kept or gone, and a
\* live one's spec replaced only by an update of the version that was read.
UserEffect ==
    /\ obj' \in [Workflows -> Object]
    /\ \A v \in Workflows : obj'[v] = obj[v] \/ obj'[v].rv = obj[v].rv + 1
    /\ \A v \in Workflows : \A t \in TaskNames :
          obj'[v].ts[t].phase = "Succeeded" => obj[v].ts[t].phase = "Succeeded"
    /\ \A v \in Workflows : obj[v].live /\ obj'[v].live /\ obj'[v].spec # obj[v].spec =>
          \E c \in Clients :
             /\ client[c].wf = v
             /\ client[c].pc = "update"
             /\ client[c].spec = obj'[v].spec
             /\ client[c].read.rv = obj[v].rv
    /\ \A c \in Clients : client'[c] = client[c] \/ ReadOf(c)'

\* The command returned: the client is at no update.
LEMMA DoneFacts ==
    ASSUME TypeOK, NEW c \in Clients, Done(c)
    PROVE  /\ client' \in [Clients -> [pc : {"idle", "create", "update"}, wf : Workflows,
                                       spec : ManifestIds,
                                       read : [uid : 0..MaxUid, rv : Nat, gen : Nat]]]
           /\ \A d \in Clients : client'[d] = client[d] \/ client'[d].pc # "update"
<1>1. Idle \in [pc : {"idle", "create", "update"}, wf : Workflows, spec : ManifestIds,
                read : [uid : 0..MaxUid, rv : Nat, gen : Nat]]
  BY NeutralTypes, KwfAssumption DEF Idle, NoRead
<1>2. Idle.pc # "update"
  BY DEF Idle
<1>3. QED
  BY <1>1, <1>2 DEF Done, TypeOK, KwfTypeOK

\* The calls of submit and delete have that effect and keep the types.
LEMMA UserFacts ==
    ASSUME Inv, KwfNext
    PROVE  UserEffect /\ KwfTypeOK'
<1> DEFINE At == [pc : {"idle", "create", "update"}, wf : Workflows, spec : ManifestIds,
                  read : [uid : 0..MaxUid, rv : Nat, gen : Nat]]
<1>1. TypeOK /\ obj \in [Workflows -> Object] /\ client \in [Clients -> At] /\ submits \in 0..MaxSubmits
  BY DEF Inv, TypeOK, KwfTypeOK
<1>2. ASSUME NEW c \in Clients, NEW f \in Files, NEW step \in {"create", "update"},
             NEW read \in [uid : 0..MaxUid, rv : Nat, gen : Nat], Submit(c, f, step, read),
             step = "update" => read = [uid |-> obj[f.name].uid, rv |-> obj[f.name].rv,
                                        gen |-> obj[f.name].gen]
      PROVE  UserEffect /\ KwfTypeOK'
  <2>1. f.name \in Workflows /\ f.spec \in ManifestIds
    BY KwfAssumption
  <2>2. client' = [client EXCEPT ![c] = [pc |-> step, wf |-> f.name, spec |-> f.spec, read |-> read]]
    BY <1>2 DEF Submit
  <2>3. obj' = obj /\ submits' \in 0..MaxSubmits
    BY <1>1, <1>2, KwfAssumption DEF Submit
  <2>4. client' \in [Clients -> At]
    BY <1>1, <2>1, <2>2
  <2>5. client'[c] = [pc |-> step, wf |-> f.name, spec |-> f.spec, read |-> read]
    BY <1>1, <2>2
  <2>6. ReadOf(c)'
    <3>1. obj[f.name].rv \in Nat
      BY <1>1, <2>1 DEF Object
    <3>2. QED
      BY <1>2, <2>3, <2>5, <3>1 DEF ReadOf
  <2>7. \A d \in Clients : client'[d] = client[d] \/ ReadOf(d)'
    BY <1>1, <2>2, <2>6
  <2>8. QED
    BY <1>1, <2>3, <2>4, <2>7 DEF UserEffect, KwfTypeOK
<1>3. ASSUME NEW c \in Clients, NEW f \in Files, SubmitFound(c, f)
      PROVE  UserEffect /\ KwfTypeOK'
  <2> DEFINE read == [uid |-> obj[f.name].uid, rv |-> obj[f.name].rv, gen |-> obj[f.name].gen]
  <2>1. read \in [uid : 0..MaxUid, rv : Nat, gen : Nat]
    BY <1>1, KwfAssumption DEF Object
  <2>2. Submit(c, f, "update", read)
    BY <1>3 DEF SubmitFound
  <2>3. QED
    BY <1>2, <2>1, <2>2
<1>4. ASSUME NEW c \in Clients, NEW f \in Files, SubmitNotFound(c, f)
      PROVE  UserEffect /\ KwfTypeOK'
  <2>1. NoRead \in [uid : 0..MaxUid, rv : Nat, gen : Nat]
    BY KwfAssumption DEF NoRead
  <2>2. QED
    BY <1>2, <1>4, <2>1 DEF SubmitNotFound
<1>5. ASSUME NEW c \in Clients, SubmitCreate(c)
      PROVE  UserEffect /\ KwfTypeOK'
  <2> DEFINE w == client[c].wf
             new == Created(client[c], obj[w].uid + 1, obj[w].rv)
  <2>1. w \in Workflows /\ client[c].spec \in ManifestIds /\ obj[w] \in Object
    BY <1>1
  <2>2. obj[w].uid + 1 \in 0..MaxUid /\ obj[w].rv \in Nat /\ ~obj[w].live
    BY <1>5, <2>1, KwfAssumption DEF SubmitCreate, Object
  <2>3. new \in Object /\ new.ts = NoStatuses
    BY <2>1, <2>2, CreatedType
  <2>4. obj' = [obj EXCEPT ![w] = Stored(w, new)] /\ Done(c) /\ submits' = submits
    BY <1>5 DEF SubmitCreate
  <2> HIDE DEF new
  <2>5. \A t \in TaskNames : new.ts[t].phase # "Succeeded"
    BY <2>3 DEF NoStatuses, NoTask
  <2>6. /\ obj' \in [Workflows -> Object]
        /\ \A v \in Workflows : obj'[v] = obj[v] \/ obj'[v].rv = obj[v].rv + 1
        /\ \A v \in Workflows \ {w} : obj'[v] = obj[v]
        /\ obj'[w].ts = new.ts
    BY <1>1, <2>1, <2>3, <2>4, WriteFacts
  <2>7. QED
    BY <1>1, <2>1, <2>2, <2>4, <2>5, <2>6, DoneFacts DEF UserEffect, KwfTypeOK, ReadOf
<1>6. ASSUME NEW c \in Clients, SubmitUpdate(c)
      PROVE  UserEffect /\ KwfTypeOK'
  <2> DEFINE w == client[c].wf
             new == Replaced(obj[w], client[c].spec)
  <2>1. w \in Workflows /\ client[c].spec \in ManifestIds /\ obj[w] \in Object
    BY <1>1
  <2>2. client[c].pc = "update" /\ obj[w].rv = client[c].read.rv
    BY <1>6 DEF SubmitUpdate
  <2>3. new \in Object /\ new.ts = obj[w].ts /\ new.spec = client[c].spec
    <3>1. (IF client[c].spec = obj[w].spec THEN obj[w].gen ELSE obj[w].gen + 1) \in Nat
      BY <2>1 DEF Object
    <3>2. QED
      BY <2>1, <3>1 DEF Replaced, Object
  <2>4. obj' = [obj EXCEPT ![w] = Stored(w, new)] /\ Done(c) /\ submits' = submits
    BY <1>6 DEF SubmitUpdate
  <2> HIDE DEF new
  <2>5. /\ obj' \in [Workflows -> Object]
        /\ \A v \in Workflows : obj'[v] = obj[v] \/ obj'[v].rv = obj[v].rv + 1
        /\ \A v \in Workflows \ {w} : obj'[v] = obj[v]
        /\ obj'[w].ts = obj[w].ts
        /\ obj'[w].spec = client[c].spec
    BY <1>1, <2>1, <2>3, <2>4, WriteFacts
  <2>6. QED
    BY <1>1, <2>1, <2>2, <2>4, <2>5, DoneFacts DEF UserEffect, KwfTypeOK, ReadOf
<1>7. ASSUME NEW c \in Clients, SubmitError(c)
      PROVE  UserEffect /\ KwfTypeOK'
  BY <1>1, <1>7, DoneFacts DEF SubmitError, UserEffect, KwfTypeOK, ReadOf
<1>8. ASSUME NEW w \in Workflows, Delete(w)
      PROVE  UserEffect /\ KwfTypeOK'
  <2> DEFINE new == IF obj[w].finalizer THEN [obj[w] EXCEPT !.deleting = TRUE]
                                        ELSE Gone(obj[w].uid, obj[w].rv)
  <2>1. obj[w] \in Object
    BY <1>1
  <2>2. /\ new \in Object
        /\ new.live => new.spec = obj[w].spec
        /\ \A t \in TaskNames : new.ts[t].phase = "Succeeded" => obj[w].ts[t].phase = "Succeeded"
    <3>1. CASE obj[w].finalizer
      BY <2>1, <3>1 DEF Object
    <3>2. CASE ~obj[w].finalizer
      <4>1. obj[w].uid \in 0..MaxUid /\ obj[w].rv \in Nat /\ new = Gone(obj[w].uid, obj[w].rv)
        BY <2>1, <3>2 DEF Object
      <4>2. new \in Object
        BY <4>1, GoneType
      <4>3. QED
        BY <4>1, <4>2 DEF Gone, NoStatuses, NoTask
    <3>3. QED
      BY <3>1, <3>2
  <2>3. obj' = [obj EXCEPT ![w] = Stored(w, new)] /\ client' = client /\ submits' = submits
    BY <1>8 DEF Delete
  <2> HIDE DEF new
  <2>4. /\ obj' \in [Workflows -> Object]
        /\ \A v \in Workflows : obj'[v] = obj[v] \/ obj'[v].rv = obj[v].rv + 1
        /\ \A v \in Workflows \ {w} : obj'[v] = obj[v]
        /\ obj'[w].ts = new.ts /\ obj'[w].live = new.live /\ obj'[w].spec = new.spec
    BY <1>1, <2>2, <2>3, WriteFacts
  <2>5. QED
    BY <1>1, <2>2, <2>3, <2>4 DEF UserEffect, KwfTypeOK
<1>9. QED
  BY <1>3, <1>4, <1>5, <1>6, <1>7, <1>8 DEF KwfNext

-----------------------------------------------------------------------------
(***************************************************************************)
(* What one step does to a workflow's status: a step of the contract.      *)
(***************************************************************************)

\* Keys of the statuses and tasks of the spec: while the first spec stands the
\* object is new and has neither phase nor statuses, or the keys are the tasks.
Standing(o) ==
    o.live =>
        /\ o.gen >= 1
        /\ o.gen = 1 =>
              \/ o.phase = "None" /\ InPhase(o.ts, "Absent") = TaskNames
              \/ \A t \in TaskNames : o.ts[t].phase = "Absent" <=> t \notin Tasks(Manifest[o.spec])

\* What a step does to w as far as the contract and the views can tell.
Keeps(w) ==
    /\ Contract(w)!Change \/ UNCHANGED Contract(w)!board_vars
    /\ Standing(obj[w]) => Standing(obj'[w])

\* The board shows the phases of the statuses.
LEMMA BoardFacts ==
    ASSUME NEW w, NEW o, o.ts \in [TaskNames -> TaskStatus]
    PROVE  /\ Board(o) \in [TaskNames -> TaskPhases]
           /\ \A t \in TaskNames : Board(o)[t] = o.ts[t].phase
           /\ \A p : Contract(w)!At(Board(o), p) = InPhase(o.ts, p)
           /\ InPhase(o.ts, "Absent") = TaskNames => Board(o) = Contract(w)!Blank
           /\ o.ts = NoStatuses => Board(o) = Contract(w)!Blank
<1>1. \A t \in TaskNames : Board(o)[t] = o.ts[t].phase /\ o.ts[t].phase \in TaskPhases
  BY DEF Board, TaskStatus
<1>2. Board(o) \in [TaskNames -> TaskPhases]
  BY <1>1 DEF Board
<1>3. \A p : Contract(w)!At(Board(o), p) = InPhase(o.ts, p)
  BY <1>1 DEF Contract!At, InPhase
<1>4. InPhase(o.ts, "Absent") = TaskNames => Board(o) = Contract(w)!Blank
  BY DEF InPhase, Board, Contract!Blank
<1>5. o.ts = NoStatuses => Board(o) = Contract(w)!Blank
  BY DEF NoStatuses, NoTask, Board, Contract!Blank
<1>6. QED
  BY <1>1, <1>2, <1>3, <1>4, <1>5

\* A workflow that no write touches takes no step.
LEMMA UntouchedKeeps ==
    ASSUME NEW w \in Workflows, obj'[w] = obj[w]
    PROVE  Keeps(w)
<1>1. UNCHANGED Contract(w)!board_vars
  BY DEF Contract!board_vars, Board
<1>2. QED
  BY <1>1 DEF Keeps

\* An object that goes away is a Remove of the contract.
LEMMA RemovalKeeps ==
    ASSUME TypeOK, NEW w \in Workflows, obj[w].live,
           obj' = [obj EXCEPT ![w] = Stored(w, Gone(obj[w].uid, obj[w].rv))]
    PROVE  Keeps(w)
<1> DEFINE new == Gone(obj[w].uid, obj[w].rv)
<1>1. new \in Object
  BY GoneType DEF TypeOK, KwfTypeOK, Object
<1>2. /\ ~new.live /\ new.live = FALSE /\ new.uid = obj[w].uid /\ new.spec \in ManifestIds
      /\ new.phase = "None" /\ new.ts = NoStatuses
  BY NeutralTypes DEF Gone
<1> HIDE DEF new
<1>3. /\ ~obj'[w].live /\ obj'[w].live = FALSE /\ obj'[w].uid = obj[w].uid
      /\ obj'[w].spec \in ManifestIds /\ obj'[w].phase = "None" /\ obj'[w].ts = NoStatuses
  BY <1>1, <1>2, WriteFacts DEF new
<1>4. Board(obj'[w]) = Contract(w)!Blank
  BY <1>3, NeutralTypes, BoardFacts
<1>5. Contract(w)!Remove
  BY <1>3, <1>4 DEF Contract!Remove, Contract!Blank
<1>6. QED
  BY <1>3, <1>5 DEF Keeps, Standing, Contract!Change

\* syncPodsToStatus ends Running tasks and does nothing else to a phase.
LEMMA SyncedMoves ==
    ASSUME TypeOK, NEW w \in Workflows, NEW t \in TaskNames
    PROVE  \/ Synced(w)[t].phase = obj[w].ts[t].phase
           \/ obj[w].ts[t].phase = "Running" /\ Synced(w)[t].phase \in {"Succeeded", "Failed"}
BY SyncedFacts, ResultFacts

\* Initialisation is an Admit: afterwards the keys are the tasks.
LEMMA InitKeeps ==
    ASSUME TypeOK, NEW w \in Workflows, PassInit(w)
    PROVE  Keeps(w)
<1> DEFINE ts == Initial(Manifest[obj[w].spec])
           new == [obj[w] EXCEPT !.finalizer = TRUE, !.phase = "Pending", !.ts = ts]
<1>1. obj[w] \in Object /\ obj[w].live /\ InPhase(obj[w].ts, "Absent") = TaskNames
  BY DEF PassInit, TypeOK, KwfTypeOK, NilStatuses
<1>2. ts \in [TaskNames -> TaskStatus]
  BY InitialType
<1>3. \A t \in TaskNames :
         ts[t].phase = IF t \in Tasks(Manifest[obj[w].spec]) THEN "Pending" ELSE "Absent"
  BY DEF Initial, NoTask
<1>4. obj' = [obj EXCEPT ![w] = Stored(w, new)]
  BY DEF PassInit, WriteAndReturn
<1> HIDE DEF ts
<1>5. /\ new \in Object /\ new.live = obj[w].live /\ new.uid = obj[w].uid /\ new.gen = obj[w].gen
      /\ new.spec = obj[w].spec /\ new.phase = "Pending" /\ new.ts = ts
  BY <1>1, <1>2 DEF Object, Phases
<1> HIDE DEF new
<1>6. /\ obj'[w].live = obj[w].live /\ obj'[w].uid = obj[w].uid /\ obj'[w].gen = obj[w].gen
      /\ obj'[w].spec = obj[w].spec /\ obj'[w].phase = "Pending" /\ obj'[w].ts = ts
  BY <1>4, <1>5, WriteFacts
<1>7. Board(obj[w]) = Contract(w)!Blank
  BY <1>1, BoardFacts DEF Object
<1>8. Board(obj'[w]) = [t \in TaskNames |->
                          IF t \in Tasks(Manifest[obj[w].spec]) THEN "Pending" ELSE "Absent"]
  BY <1>3, <1>6 DEF Board
<1>9. Contract(w)!Admit
  BY <1>1, <1>6, <1>7, <1>8 DEF Contract!Admit, Contract!Blank, Contract!Tasks, Tasks
<1>10. Standing(obj[w]) => Standing(obj'[w])
  BY <1>1, <1>3, <1>6 DEF Standing
<1>11. QED
  BY <1>9, <1>10 DEF Keeps, Contract!Change

\* The keys of the statuses that a pass beyond initialisation works on.
LEMMA KeysKept ==
    ASSUME TypeOK, NEW w \in Workflows, Reconciles(w), Standing(obj[w]),
           obj'[w].live = obj[w].live, obj'[w].gen = obj[w].gen, obj'[w].spec = obj[w].spec,
           \A t \in TaskNames : \/ obj'[w].ts[t].phase = "Absent" <=> obj[w].ts[t].phase = "Absent"
                                \/ /\ obj'[w].ts[t].phase = "Running"
                                   /\ t \in Tasks(Manifest[obj[w].spec])
    PROVE  Standing(obj'[w])
<1>1. InPhase(obj[w].ts, "Absent") # TaskNames /\ obj[w].live
  BY DEF Reconciles, NilStatuses
<1>2. QED
  BY <1>1 DEF Standing

\* A verdict is stored with the results that decide it.
LEMMA VerdictKeeps ==
    ASSUME TypeOK, NEW w \in Workflows, PassFailed(w) \/ PassCompleted(w)
    PROVE  Keeps(w)
<1>1. PICK ph \in {"Failed", "Completed"} :
         /\ WriteAndReturn(w, [obj[w] EXCEPT !.phase = ph, !.ts = Synced(w)], FALSE)
         /\ \/ InPhase(Synced(w), "Failed") # {} /\ ph = "Failed"
            \/ /\ TaskNames = InPhase(Synced(w), "Succeeded") \cup InPhase(Synced(w), "Absent")
               /\ ph = "Completed"
  BY DEF PassFailed, PassCompleted
<1> DEFINE new == [obj[w] EXCEPT !.phase = ph, !.ts = Synced(w)]
<1>2. Reconciles(w) /\ obj[w].live /\ ~Settled(w) /\ ~NilStatuses(w) /\ obj[w] \in Object
  BY DEF PassFailed, PassCompleted, Reconciles, TypeOK, KwfTypeOK
<1>3. Synced(w) \in [TaskNames -> TaskStatus]
  BY SyncedFacts
<1>4. obj' = [obj EXCEPT ![w] = Stored(w, new)]
  BY <1>1 DEF WriteAndReturn
<1>5. /\ new \in Object /\ new.live = obj[w].live /\ new.uid = obj[w].uid /\ new.gen = obj[w].gen
      /\ new.spec = obj[w].spec /\ new.phase = ph /\ new.ts = Synced(w)
  BY <1>2, <1>3 DEF Object, Phases
<1> HIDE DEF new
<1>6. /\ obj'[w].live = obj[w].live /\ obj'[w].uid = obj[w].uid /\ obj'[w].gen = obj[w].gen
      /\ obj'[w].spec = obj[w].spec /\ obj'[w].phase = ph /\ obj'[w].ts = Synced(w)
  BY <1>4, <1>5, WriteFacts
<1>7. /\ Board(obj'[w]) \in [TaskNames -> TaskPhases]
      /\ \A t \in TaskNames : /\ Board(obj'[w])[t] = Synced(w)[t].phase
                              /\ Board(obj[w])[t] = obj[w].ts[t].phase
      /\ \A p : Contract(w)!At(Board(obj'[w]), p) = InPhase(Synced(w), p)
  <2>1. obj[w].ts \in [TaskNames -> TaskStatus] /\ obj'[w].ts \in [TaskNames -> TaskStatus]
    BY <1>2, <1>3, <1>6 DEF Object
  <2>2. \A t \in TaskNames : Board(obj[w])[t] = obj[w].ts[t].phase
    BY <2>1, BoardFacts
  <2>3. /\ Board(obj'[w]) \in [TaskNames -> TaskPhases]
        /\ \A t \in TaskNames : Board(obj'[w])[t] = obj'[w].ts[t].phase
        /\ \A p : Contract(w)!At(Board(obj'[w]), p) = InPhase(obj'[w].ts, p)
    BY <2>1, BoardFacts
  <2>4. QED
    BY <1>6, <2>2, <2>3
<1>8. \A t \in TaskNames : \/ Board(obj'[w])[t] = Board(obj[w])[t]
                           \/ Board(obj[w])[t] = "Running" /\ Board(obj'[w])[t] \in {"Succeeded", "Failed"}
  BY <1>7, SyncedMoves
<1>9. TaskNames = InPhase(Synced(w), "Succeeded") \cup InPhase(Synced(w), "Absent") =>
         InPhase(Synced(w), "Succeeded") # {}
  <2> SUFFICES ASSUME InPhase(Synced(w), "Absent") = TaskNames PROVE FALSE
    OBVIOUS
  <2>1. InPhase(obj[w].ts, "Absent") = TaskNames
    BY SyncedMoves DEF InPhase
  <2>2. QED
    BY <1>2, <2>1 DEF NilStatuses
<1>10. Contract(w)!Open
  BY <1>2 DEF Contract!Open, Settled
<1>11. Contract(w)!Conclude
  BY <1>1, <1>2, <1>6, <1>7, <1>8, <1>9, <1>10
     DEF Contract!Conclude, Contract!Finish, Contract!TaskPhases, TaskPhases
<1>12. Standing(obj[w]) => Standing(obj'[w])
  <2>1. \A t \in TaskNames : obj'[w].ts[t].phase = "Absent" <=> obj[w].ts[t].phase = "Absent"
    BY <1>6, SyncedMoves
  <2>2. QED
    BY <1>2, <1>6, <2>1, KeysKept
<1>13. QED
  BY <1>11, <1>12 DEF Keeps, Contract!Change

\* A plan is stored as an Advance: what begins was waiting and its
\* dependencies are shown as Succeeded.
LEMMA PlanKeeps ==
    ASSUME TypeOK, NEW w \in Workflows, PassPlan(w)
    PROVE  Keeps(w)
<1> DEFINE m == Manifest[obj[w].spec]
           Plan(chosen) == [t \in TaskNames |->
                              IF t \in chosen
                              THEN [phase |-> "Running",
                                    alloc |-> resolveResources(m, BaselinePredict(m), t)]
                              ELSE Synced(w)[t]]
           New(chosen) == [obj[w] EXCEPT !.phase = "Running", !.ts = Plan(chosen)]
<1>1. PICK chosen \in SUBSET Tasks(m) :
         /\ IsGreedyPlan(m, Synced(w), BaselinePredict(m), chosen)
         /\ WriteAndReturn(w, New(chosen), TRUE)
  BY DEF PassPlan
<1>2. /\ Reconciles(w) /\ obj[w].live /\ ~Settled(w) /\ obj[w] \in Object
      /\ InPhase(Synced(w), "Failed") = {}
  BY DEF PassPlan, Reconciles, TypeOK, KwfTypeOK
<1>3. Synced(w) \in [TaskNames -> TaskStatus] /\ obj[w].spec \in ManifestIds
  BY <1>2, SyncedFacts DEF Object
<1>4. \A t \in chosen : /\ Synced(w)[t].phase \in {"Absent", "Pending"}
                        /\ m.deps[t] \subseteq InPhase(Synced(w), "Succeeded")
  BY <1>1 DEF IsGreedyPlan, Ready
<1>5. Plan(chosen) \in [TaskNames -> TaskStatus]
  BY <1>3, ResolveType DEF TaskStatus, TaskPhases
<1>6. \A t \in TaskNames :
         Plan(chosen)[t].phase = IF t \in chosen THEN "Running" ELSE Synced(w)[t].phase
  OBVIOUS
<1>7. obj' = [obj EXCEPT ![w] = Stored(w, New(chosen))]
  BY <1>1 DEF WriteAndReturn
<1> HIDE DEF Plan
<1>8. /\ New(chosen) \in Object /\ New(chosen).live = obj[w].live /\ New(chosen).uid = obj[w].uid
      /\ New(chosen).gen = obj[w].gen /\ New(chosen).spec = obj[w].spec
      /\ New(chosen).phase = "Running" /\ New(chosen).ts = Plan(chosen)
  BY <1>2, <1>5 DEF Object, Phases
<1> HIDE DEF New
<1>9. /\ obj'[w].live = obj[w].live /\ obj'[w].uid = obj[w].uid /\ obj'[w].gen = obj[w].gen
      /\ obj'[w].spec = obj[w].spec /\ obj'[w].phase = "Running" /\ obj'[w].ts = Plan(chosen)
  BY <1>7, <1>8, WriteFacts
<1>10. /\ Board(obj'[w]) \in [TaskNames -> TaskPhases]
       /\ \A t \in TaskNames : /\ Board(obj'[w])[t] = Plan(chosen)[t].phase
                               /\ Board(obj[w])[t] = obj[w].ts[t].phase
       /\ \A p : Contract(w)!At(Board(obj'[w]), p) = InPhase(Plan(chosen), p)
  <2>1. obj[w].ts \in [TaskNames -> TaskStatus] /\ obj'[w].ts \in [TaskNames -> TaskStatus]
    BY <1>2, <1>5, <1>9 DEF Object
  <2>2. \A t \in TaskNames : Board(obj[w])[t] = obj[w].ts[t].phase
    BY <2>1, BoardFacts
  <2>3. /\ Board(obj'[w]) \in [TaskNames -> TaskPhases]
        /\ \A t \in TaskNames : Board(obj'[w])[t] = obj'[w].ts[t].phase
        /\ \A p : Contract(w)!At(Board(obj'[w]), p) = InPhase(obj'[w].ts, p)
    BY <2>1, BoardFacts
  <2>4. QED
    BY <1>9, <2>2, <2>3
<1>11. InPhase(Synced(w), "Succeeded") \subseteq InPhase(Plan(chosen), "Succeeded")
  BY <1>4, <1>6 DEF InPhase
<1>12. InPhase(Plan(chosen), "Failed") = {}
  BY <1>2, <1>6 DEF InPhase
<1>13. \A t \in TaskNames :
          \/ Board(obj'[w])[t] = Board(obj[w])[t]
          \/ Board(obj[w])[t] = "Running" /\ Board(obj'[w])[t] \in {"Succeeded", "Failed"}
          \/ /\ Board(obj[w])[t] \in {"Absent", "Pending"}
             /\ Board(obj'[w])[t] = "Running"
             /\ t \in Tasks(m)
             /\ m.deps[t] \subseteq InPhase(Plan(chosen), "Succeeded")
  <2> TAKE t \in TaskNames
  <2>1. CASE t \in chosen
    BY <1>4, <1>6, <1>10, <1>11, <2>1, SyncedMoves
  <2>2. CASE t \notin chosen
    BY <1>6, <1>10, <2>2, SyncedMoves
  <2>3. QED
    BY <2>1, <2>2
<1>14. Contract(w)!Open
  BY <1>2 DEF Contract!Open, Settled
<1>15. Contract(w)!Advance
  BY <1>2, <1>9, <1>10, <1>12, <1>13, <1>14
     DEF Contract!Advance, Contract!Finish, Contract!Begin, Contract!Tasks, Tasks,
         Contract!TaskPhases, TaskPhases
<1>16. Standing(obj[w]) => Standing(obj'[w])
  <2>1. \A t \in TaskNames : \/ obj'[w].ts[t].phase = "Absent" <=> obj[w].ts[t].phase = "Absent"
                             \/ obj'[w].ts[t].phase = "Running" /\ t \in Tasks(m)
    BY <1>6, <1>9, SyncedMoves
  <2>2. QED
    BY <1>2, <1>9, <2>1, KeysKept
<1>17. QED
  BY <1>15, <1>16 DEF Keeps, Contract!Change

\* However a pass ends, its workflow takes a step of the contract or none.
LEMMA PassKeeps ==
    ASSUME Inv, NEW w \in Workflows, Pass(w)
    PROVE  Keeps(w)
<1>1. TypeOK
  BY DEF Inv
<1>2. CASE PassNothing(w)
  BY <1>2, UntouchedKeeps DEF PassNothing
<1>3. CASE PassDeleted(w)
  BY <1>1, <1>3, RemovalKeeps DEF PassDeleted, WriteAndReturn
<1>4. QED
  BY <1>1, <1>2, <1>3, InitKeeps, VerdictKeeps, PlanKeeps DEF Pass

\* A create is a Submit of the contract, of a workflow that has begun nothing.
LEMMA CreateKeeps ==
    ASSUME TypeOK, NEW w \in Workflows, NEW f, f.spec \in ManifestIds,
           ~obj[w].live, obj[w].uid < MaxUid,
           obj' = [obj EXCEPT ![w] = Stored(w, Created(f, obj[w].uid + 1, obj[w].rv))]
    PROVE  Keeps(w)
<1> DEFINE new == Created(f, obj[w].uid + 1, obj[w].rv)
<1>1. obj[w] \in Object
  BY DEF TypeOK, KwfTypeOK
<1>2. obj[w].uid + 1 \in 0..MaxUid /\ obj[w].rv \in Nat
  BY <1>1, KwfAssumption DEF Object
<1>3. new \in Object /\ new.spec = f.spec /\ new.ts = NoStatuses
  BY <1>1, <1>2, CreatedType
<1>4. new.live = TRUE /\ new.uid = obj[w].uid + 1 /\ new.gen = 1 /\ new.phase = "None"
  BY DEF Created, Gone
<1>5. obj' = [obj EXCEPT ![w] = Stored(w, new)]
  OBVIOUS
<1> HIDE DEF new
<1>6. /\ obj'[w].live = TRUE /\ obj'[w].uid = obj[w].uid + 1 /\ obj'[w].gen = 1
      /\ obj'[w].spec \in ManifestIds /\ obj'[w].phase = "None" /\ obj'[w].ts = NoStatuses
  <2>1. /\ obj'[w].live = new.live /\ obj'[w].uid = new.uid /\ obj'[w].gen = new.gen
        /\ obj'[w].spec = new.spec /\ obj'[w].phase = new.phase /\ obj'[w].ts = new.ts
    BY <1>3, <1>5, WriteFacts
  <2>2. QED
    BY <1>1, <1>3, <1>4, <2>1
<1>7. Board(obj'[w]) = Contract(w)!Blank
  BY <1>6, NeutralTypes, BoardFacts
<1>8. Contract(w)!Submit
  BY <1>2, <1>6, <1>7 DEF Contract!Submit, Contract!Blank
<1>9. Standing(obj'[w])
  BY <1>6 DEF Standing, InPhase, NoStatuses, NoTask
<1>10. QED
  BY <1>8, <1>9 DEF Keeps, Contract!Change

\* An update is an Edit; a spec that differs is the second at least.
LEMMA UpdateKeeps ==
    ASSUME TypeOK, NEW w \in Workflows, NEW id \in ManifestIds, obj[w].live,
           obj' = [obj EXCEPT ![w] = Stored(w, Replaced(obj[w], id))]
    PROVE  Keeps(w)
<1> DEFINE new == Replaced(obj[w], id)
<1>1. obj[w] \in Object
  BY DEF TypeOK, KwfTypeOK
<1>2. obj[w].gen \in Nat /\ obj[w].gen + 1 \in Nat
  BY <1>1 DEF Object
<1>3. /\ new \in Object /\ new.live = obj[w].live /\ new.uid = obj[w].uid
      /\ new.spec = id /\ new.phase = obj[w].phase /\ new.ts = obj[w].ts
      /\ new.gen = IF id = obj[w].spec THEN obj[w].gen ELSE obj[w].gen + 1
  BY <1>1, <1>2 DEF Replaced, Object
<1>4. obj' = [obj EXCEPT ![w] = Stored(w, new)]
  OBVIOUS
<1> HIDE DEF new
<1>5. /\ obj'[w].live = obj[w].live /\ obj'[w].uid = obj[w].uid
      /\ obj'[w].spec = id /\ obj'[w].phase = obj[w].phase /\ obj'[w].ts = obj[w].ts
      /\ obj'[w].gen = IF id = obj[w].spec THEN obj[w].gen ELSE obj[w].gen + 1
  <2>1. /\ obj'[w].live = new.live /\ obj'[w].uid = new.uid /\ obj'[w].gen = new.gen
        /\ obj'[w].spec = new.spec /\ obj'[w].phase = new.phase /\ obj'[w].ts = new.ts
    BY <1>3, <1>4, WriteFacts
  <2>2. QED
    BY <1>3, <2>1
<1>6. Contract(w)!Edit
  <2>1. Board(obj'[w]) = Board(obj[w])
    BY <1>5 DEF Board
  <2>2. obj'[w].live = obj[w].live /\ obj'[w].uid = obj[w].uid /\ obj'[w].phase = obj[w].phase
    BY <1>5
  <2>3. obj'[w].spec \in ManifestIds
    BY <1>5
  <2>4. QED
    BY <2>1, <2>2, <2>3 DEF Contract!Edit
<1>7. Standing(obj[w]) => Standing(obj'[w])
  <2>1. CASE id = obj[w].spec
    BY <1>5, <2>1 DEF Standing
  <2>2. CASE id # obj[w].spec
    <3>1. Standing(obj[w]) => obj[w].gen >= 1
      BY <1>1 DEF Standing
    <3>2. Standing(obj[w]) => obj'[w].gen >= 1 /\ obj'[w].gen # 1
      BY <1>2, <1>5, <2>2, <3>1
    <3>3. QED
      BY <3>2 DEF Standing
  <2>3. QED
    BY <2>1, <2>2
<1>8. QED
  BY <1>6, <1>7 DEF Keeps, Contract!Change

\* A deletion removes the object, or marks it and leaves its status alone.
LEMMA DeleteKeeps ==
    ASSUME TypeOK, NEW w \in Workflows, Delete(w)
    PROVE  Keeps(w)
<1>1. obj[w] \in Object /\ obj[w].live
  BY DEF TypeOK, KwfTypeOK, Delete
<1>2. CASE obj[w].finalizer
  <2> DEFINE new == [obj[w] EXCEPT !.deleting = TRUE]
  <2>1. obj' = [obj EXCEPT ![w] = Stored(w, new)]
    BY <1>2 DEF Delete
  <2>2. /\ new \in Object /\ new.live = obj[w].live /\ new.uid = obj[w].uid /\ new.gen = obj[w].gen
        /\ new.spec = obj[w].spec /\ new.phase = obj[w].phase /\ new.ts = obj[w].ts
    BY <1>1 DEF Object
  <2> HIDE DEF new
  <2>3. /\ obj'[w].live = obj[w].live /\ obj'[w].uid = obj[w].uid /\ obj'[w].gen = obj[w].gen
        /\ obj'[w].spec = obj[w].spec /\ obj'[w].phase = obj[w].phase /\ obj'[w].ts = obj[w].ts
    BY <2>1, <2>2, WriteFacts
  <2>4. UNCHANGED Contract(w)!board_vars
    BY <2>3 DEF Contract!board_vars, Board
  <2>5. QED
    BY <2>3, <2>4 DEF Keeps, Standing
<1>3. CASE ~obj[w].finalizer
  BY <1>1, <1>3, RemovalKeeps DEF Delete
<1>4. QED
  BY <1>2, <1>3

\* A call of a client leaves the workflows it does not name alone.
LEMMA UserKeeps ==
    ASSUME TypeOK, KwfNext, NEW w \in Workflows
    PROVE  Keeps(w)
<1>1. obj \in [Workflows -> Object]
  BY DEF TypeOK, KwfTypeOK
<1>2. ASSUME NEW c \in Clients, SubmitCreate(c) \/ SubmitUpdate(c) PROVE Keeps(w)
  <2>1. CASE w = client[c].wf
    <3>1. client[c].spec \in ManifestIds
      BY DEF TypeOK, KwfTypeOK
    <3>2. CASE SubmitCreate(c)
      BY <2>1, <3>1, <3>2, CreateKeeps DEF SubmitCreate
    <3>3. CASE SubmitUpdate(c)
      BY <2>1, <3>1, <3>3, UpdateKeeps DEF SubmitUpdate
    <3>4. QED
      BY <1>2, <3>2, <3>3
  <2>2. CASE w # client[c].wf
    <3>1. obj'[w] = obj[w]
      BY <1>1, <1>2, <2>2 DEF SubmitCreate, SubmitUpdate
    <3>2. QED
      BY <3>1, UntouchedKeeps
  <2>3. QED
    BY <2>1, <2>2
<1>3. ASSUME NEW v \in Workflows, Delete(v) PROVE Keeps(w)
  <2>1. CASE w = v
    BY <1>3, <2>1, DeleteKeeps
  <2>2. CASE w # v
    <3>1. obj'[w] = obj[w]
      BY <1>1, <1>3, <2>2 DEF Delete
    <3>2. QED
      BY <3>1, UntouchedKeeps
  <2>3. QED
    BY <2>1, <2>2
<1>4. CASE obj' = obj
  BY <1>4, UntouchedKeeps
<1>5. QED
  BY <1>2, <1>3, <1>4 DEF KwfNext, SubmitFound, SubmitNotFound, Submit, SubmitError

\* Every step of the cluster is, for every workflow, a step of the contract or
\* none at all.
LEMMA NextKeeps ==
    ASSUME Inv, [Next]_vars, NEW w \in Workflows
    PROVE  Keeps(w)
<1>1. TypeOK /\ obj \in [Workflows -> Object]
  BY DEF Inv, TypeOK, KwfTypeOK
<1>2. ASSUME NEW v \in Workflows, Pass(v) PROVE Keeps(w)
  <2>1. CASE w = v
    BY <1>2, <2>1, PassKeeps
  <2>2. CASE w # v
    <3>1. PICK new \in Object : obj' = [obj EXCEPT ![v] = Stored(v, new)]
      BY <1>2, PassFacts DEF PassEffect
    <3>2. obj'[w] = obj[w]
      BY <1>1, <2>2, <3>1, WriteFacts
    <3>3. QED
      BY <3>2, UntouchedKeeps
  <2>3. QED
    BY <2>1, <2>2
<1>3. CASE UserStep
  BY <1>1, <1>3, UserKeeps DEF UserStep
<1>4. CASE UNCHANGED obj
  BY <1>4, UntouchedKeeps
<1>5. QED
  BY <1>2, <1>3, <1>4 DEF Next, PodEnds, Collect, vars

-----------------------------------------------------------------------------
(***************************************************************************)
(* The invariant is inductive.                                             *)
(***************************************************************************)

\* It holds when the installed workflows are listed and no pod exists.
LEMMA InvInit == Init => Inv
<1> SUFFICES ASSUME Init PROVE Inv
  OBVIOUS
<1>1. 0 \in 0..MaxUid /\ 1 \in 0..MaxUid /\ 0 \in Nat /\ 1 \in Nat
  BY KwfAssumption
<1>2. \A w \in Workflows : obj[w] \in Object /\ obj[w].ts = NoStatuses
  <2> TAKE w \in Workflows
  <2> DEFINE mine == {f \in Installed : f.name = w}
  <2>1. obj[w] = IF mine = {} THEN Gone(0, 0) ELSE Created(CHOOSE f \in mine : TRUE, 1, 1)
    BY DEF Init, KwfInit
  <2>2. CASE mine = {}
    <3>1. Gone(0, 0).ts = NoStatuses
      BY DEF Gone
    <3>2. QED
      BY <1>1, <2>1, <2>2, <3>1, GoneType
  <2>3. CASE mine # {}
    <3>1. PICK f \in mine : obj[w] = Created(f, 1, 1)
      BY <2>1, <2>3
    <3>2. f.spec \in ManifestIds
      BY KwfAssumption
    <3>3. QED
      BY <1>1, <3>1, <3>2, CreatedType
  <2>4. QED
    BY <2>2, <2>3
<1>3. obj \in [Workflows -> Object]
  <2>1. obj = [w \in Workflows |-> obj[w]]
    BY DEF Init, KwfInit
  <2>2. QED
    BY <1>2, <2>1
<1>4. Idle \in [pc : {"idle", "create", "update"}, wf : Workflows, spec : ManifestIds,
                read : [uid : 0..MaxUid, rv : Nat, gen : Nat]]
  BY <1>1, NeutralTypes DEF Idle, NoRead
<1>5. KwfTypeOK
  BY <1>3, <1>4, KwfAssumption DEF Init, KwfInit, KwfTypeOK
<1>6. TypeOK
  BY <1>5, NeutralTypes DEF Init, TypeOK
<1>7. ReadsAreStored
  BY DEF Init, KwfInit, Idle, ReadsAreStored, ReadOf
<1>8. PodsVouch
  BY DEF Init, NoPod, PodsVouch
<1>9. OwnResults
  BY <1>2 DEF OwnResults, InPhase, NoStatuses, NoTask
<1>10. QED
  BY <1>6, <1>7, <1>8, <1>9 DEF Inv

\* A pass keeps it: versions rise, and successes come from the workflow's pods.
LEMMA InvPass ==
    ASSUME Inv, NEW w \in Workflows, Pass(w)
    PROVE  Inv'
<1>1. PassEffect(w) /\ TypeOK /\ ReadsAreStored /\ PodsVouch /\ OwnResults
  BY PassFacts DEF Inv
<1>2. PICK new \in Object : obj' = [obj EXCEPT ![w] = Stored(w, new)] /\ OwnSuccesses(w, new)
  BY <1>1 DEF PassEffect
<1>3. /\ obj' \in [Workflows -> Object]
      /\ \A v \in Workflows : obj'[v] = obj[v] \/ obj'[v].rv = obj[v].rv + 1
      /\ \A v \in Workflows \ {w} : obj'[v] = obj[v]
      /\ obj'[w].ts = new.ts
  BY <1>1, <1>2, WriteFacts
<1>4. client' = client /\ submits' = submits /\ done' = done
  BY <1>1 DEF PassEffect
<1>5. TypeOK'
  BY <1>1, <1>3, <1>4 DEF TypeOK, KwfTypeOK, PassEffect
<1>6. ReadsAreStored'
  <2>1. \A c \in Clients : ReadOf(c)'
    BY <1>1, <1>3, <1>4, ReadsKept
  <2>2. QED
    BY <2>1 DEF ReadsAreStored
<1>7. PodsVouch'
  BY <1>1, <1>4 DEF PodsVouch, PassEffect
<1>8. OwnResults'
  <2>1. \A v \in Workflows : \A t \in TaskNames :
           obj'[v].ts[t].phase = "Succeeded" =>
              obj[v].ts[t].phase = "Succeeded" \/ \E u \in 0..MaxUid : <<v, u, t>> \in done
    BY <1>2, <1>3 DEF OwnSuccesses
  <2>2. QED
    BY <1>1, <1>4, <2>1, OwnResultsKept
<1>9. QED
  BY <1>5, <1>6, <1>7, <1>8 DEF Inv

\* A user's call keeps it.
LEMMA InvUser ==
    ASSUME Inv, UserStep
    PROVE  Inv'
<1>1. UserEffect /\ KwfTypeOK' /\ TypeOK /\ ReadsAreStored /\ PodsVouch /\ OwnResults
  BY UserFacts DEF Inv, UserStep
<1>2. pods' = pods /\ done' = done /\ queue' \subseteq Workflows
  BY <1>1 DEF UserStep, TypeOK
<1>3. TypeOK'
  BY <1>1, <1>2 DEF TypeOK
<1>4. ReadsAreStored'
  <2>1. \A c \in Clients : ReadOf(c)'
    <3> TAKE c \in Clients
    <3>1. CASE client'[c] = client[c]
      BY <1>1, <3>1, ReadsKept DEF UserEffect
    <3>2. QED
      BY <1>1, <3>1 DEF UserEffect
  <2>2. QED
    BY <2>1 DEF ReadsAreStored
<1>5. PodsVouch'
  BY <1>1, <1>2 DEF PodsVouch
<1>6. OwnResults'
  BY <1>1, <1>2, OwnResultsKept DEF UserEffect
<1>7. QED
  BY <1>3, <1>4, <1>5, <1>6 DEF Inv

\* So does a pod that ends or is collected: objects and clients stay.
LEMMA InvPod ==
    ASSUME Inv, NEW p \in PodNames, PodEnds(p) \/ Collect(p)
    PROVE  Inv'
<1>1. TypeOK /\ ReadsAreStored /\ PodsVouch /\ OwnResults
  BY DEF Inv
<1>2. obj' = obj /\ client' = client /\ submits' = submits
  BY DEF PodEnds, Collect
<1>3. pods \in [PodNames -> Pod] /\ pods[p] \in Pod
  BY <1>1 DEF TypeOK
<1>4. pods[p].wf \in Workflows /\ pods[p].uid \in 0..MaxUid /\ pods[p].task \in TaskNames
  BY <1>3 DEF Pod
<1>5. TypeOK' /\ PodsVouch' /\ done \subseteq done'
  <2>1. CASE PodEnds(p)
    <3>1. PICK outcome \in {"Succeeded", "Failed"} :
             /\ pods' = [pods EXCEPT ![p].phase = outcome]
             /\ done' = IF outcome = "Succeeded"
                        THEN done \cup {<<pods[p].wf, pods[p].uid, pods[p].task>>} ELSE done
      BY <2>1 DEF PodEnds
    <3>2. /\ pods'[p] \in Pod /\ pods'[p].phase = outcome /\ pods'[p].wf = pods[p].wf
          /\ pods'[p].uid = pods[p].uid /\ pods'[p].task = pods[p].task
          /\ \A q \in PodNames \ {p} : pods'[q] = pods[q]
      BY <1>3, <3>1 DEF Pod
    <3>3. pods' \in [PodNames -> Pod]
      BY <1>3, <3>1, <3>2
    <3>4. queue' \subseteq Workflows
      BY <1>1, <1>4, <2>1 DEF PodEnds, TypeOK
    <3>5. done' \subseteq (Workflows \X (0..MaxUid) \X TaskNames)
      BY <1>1, <1>4, <3>1 DEF TypeOK
    <3>6. TypeOK'
      BY <1>1, <1>2, <3>3, <3>4, <3>5 DEF TypeOK, KwfTypeOK
    <3>7. PodsVouch'
      BY <1>1, <3>1, <3>2 DEF PodsVouch
    <3>8. QED
      BY <3>1, <3>6, <3>7
  <2>2. CASE Collect(p)
    <3>1. pods' = [pods EXCEPT ![p] = NoPod] /\ done' = done /\ queue' \subseteq Workflows
      BY <1>1, <1>4, <2>2 DEF Collect, TypeOK
    <3>2. TypeOK'
      BY <1>1, <1>2, <1>3, <3>1, NeutralTypes DEF TypeOK, KwfTypeOK
    <3>3. PodsVouch'
      BY <1>1, <1>3, <3>1 DEF PodsVouch, NoPod
    <3>4. QED
      BY <3>1, <3>2, <3>3
  <2>3. QED
    BY <2>1, <2>2
<1>6. ReadsAreStored'
  BY <1>1, <1>2 DEF ReadsAreStored, ReadOf
<1>7. OwnResults'
  BY <1>1, <1>2, <1>5, OwnResultsKept
<1>8. QED
  BY <1>5, <1>6, <1>7 DEF Inv

\* Every step keeps the invariant.
LEMMA InvNext == Inv /\ [Next]_vars => Inv'
<1> SUFFICES ASSUME Inv, [Next]_vars PROVE Inv'
  OBVIOUS
<1>1. CASE UNCHANGED vars
  BY <1>1 DEF vars, Inv, TypeOK, KwfTypeOK, ReadsAreStored, ReadOf, PodsVouch, OwnResults, InPhase
<1>2. CASE Next
  BY <1>2, InvPass, InvUser, InvPod DEF Next
<1>3. QED
  BY <1>1, <1>2

-----------------------------------------------------------------------------
(***************************************************************************)
(* The theorems.                                                           *)
(***************************************************************************)

\* The inductive invariant holds in every reachable state.
THEOREM InvHolds == Spec => []Inv
<1>1. QED
  BY InvInit, InvNext, PTL DEF Spec

\* Objects, clients, pods, queue and results keep their types, for any number
\* of workflows, clients and submits.
THEOREM ClusterTypeCorrect == Spec => []TypeOK
<1>1. Inv => TypeOK
  BY DEF Inv
<1>2. QED
  BY <1>1, InvHolds, PTL

\* No workflow takes a result from another, for any naming of pods: whatever
\* names collide, a Succeeded task had a pod of its own workflow that succeeded.
THEOREM OwnResultsHolds == Spec => []OwnResults
<1>1. Inv => OwnResults
  BY DEF Inv
<1>2. QED
  BY <1>1, InvHolds, PTL

\* A spec is only ever replaced by a submit whose user read exactly the
\* incarnation and the generation it replaces (runSubmit, handleWorkflows).
THEOREM NoBlindOverwriteHolds == Spec => NoBlindOverwrite
<1> DEFINE Overwrite ==
      \A w \in Workflows :
          obj[w].live /\ obj'[w].live /\ obj'[w].spec # obj[w].spec =>
             \E c \in Clients :
                /\ client[c].wf = w
                /\ client[c].pc = "update"
                /\ client[c].spec = obj'[w].spec
                /\ client[c].read.uid = obj[w].uid
                /\ client[c].read.gen = obj[w].gen
<1>1. Inv /\ [Next]_vars => [Overwrite]_vars
  <2> SUFFICES ASSUME Inv, Next, NEW w \in Workflows,
                      obj[w].live, obj'[w].live, obj'[w].spec # obj[w].spec
               PROVE  \E c \in Clients :
                         /\ client[c].wf = w
                         /\ client[c].pc = "update"
                         /\ client[c].spec = obj'[w].spec
                         /\ client[c].read.uid = obj[w].uid
                         /\ client[c].read.gen = obj[w].gen
    OBVIOUS
  <2>1. ASSUME NEW v \in Workflows, Pass(v) PROVE FALSE
    <3>1. PICK new \in Object : /\ obj' = [obj EXCEPT ![v] = Stored(v, new)]
                                /\ new.live => new.spec = obj[v].spec
      BY <2>1, PassFacts DEF PassEffect
    <3>2. /\ \A x \in Workflows \ {v} : obj'[x] = obj[x]
          /\ obj'[v].live = new.live /\ obj'[v].spec = new.spec
      BY <3>1, WriteFacts DEF Inv
    <3>3. QED
      BY <3>1, <3>2
  <2>2. CASE UserStep
    <3>1. PICK c \in Clients : /\ client[c].wf = w
                               /\ client[c].pc = "update"
                               /\ client[c].spec = obj'[w].spec
                               /\ client[c].read.rv = obj[w].rv
      BY <2>2, UserFacts DEF UserStep, UserEffect
    <3>2. QED
      BY <3>1 DEF Inv, ReadsAreStored, ReadOf
  <2>3. ASSUME NEW p \in PodNames, PodEnds(p) \/ Collect(p) PROVE FALSE
    BY <2>3 DEF PodEnds, Collect
  <2>4. QED
    BY <2>1, <2>2, <2>3 DEF Next
<1>2. QED
  BY <1>1, InvHolds, PTL DEF Spec, NoBlindOverwrite
\* Each workflow's stored status implements the contract, whatever the clients
\* write between the passes and whoever else uses the pods: no step of the
\* cluster is anything but a step of WorkflowContract for any of them.
THEOREM EachRefines == Spec => EachKeepsContract
<1>1. Inv /\ [Next]_vars =>
         [\A w \in Workflows : Contract(w)!Change \/ UNCHANGED Contract(w)!board_vars]_vars
  BY NextKeeps DEF Keeps
<1>2. QED
  BY <1>1, InvHolds, PTL DEF Spec, EachKeepsContract

\* While the first spec stands, the keys of the statuses are its tasks.
AllStand == \A w \in Workflows : Standing(obj[w])

\* kwf status and kwf list tell the same story of every workflow whose spec was
\* not replaced, although one walks the spec and the other the statuses.
THEOREM ViewsAgreeHolds == Spec => []ViewsAgree
<1>1. Init => AllStand
  <2> SUFFICES ASSUME Init, NEW w \in Workflows PROVE Standing(obj[w])
    BY DEF AllStand
  <2> DEFINE mine == {f \in Installed : f.name = w}
  <2>1. obj[w] = IF mine = {} THEN Gone(0, 0) ELSE Created(CHOOSE f \in mine : TRUE, 1, 1)
    BY DEF Init, KwfInit
  <2>2. CASE mine = {}
    BY <2>1, <2>2 DEF Gone, Standing
  <2>3. CASE mine # {}
    <3>1. obj[w].gen = 1 /\ obj[w].phase = "None" /\ obj[w].ts = NoStatuses
      BY <2>1, <2>3 DEF Created, Gone
    <3>2. QED
      BY <3>1 DEF Standing, InPhase, NoStatuses, NoTask
  <2>4. QED
    BY <2>2, <2>3
<1>2. Inv /\ AllStand /\ [Next]_vars => AllStand'
  <2> SUFFICES ASSUME Inv, AllStand, [Next]_vars PROVE AllStand'
    OBVIOUS
  <2>1. \A w \in Workflows : Standing(obj'[w])
    BY NextKeeps DEF AllStand, Keeps
  <2>2. QED
    BY <2>1 DEF AllStand, Standing, InPhase
<1>3. Inv /\ AllStand => ViewsAgree
  <2> SUFFICES ASSUME Inv, AllStand, NEW w \in Workflows, obj[w].live, obj[w].gen = 1
               PROVE  LET rows == StatusRows(obj[w])
                          row  == ListRow(obj[w])
                      IN  /\ row.running = Cardinality({t \in DOMAIN rows : rows[t] = "Running"})
                          /\ (\E t \in DOMAIN rows : rows[t] = "Unknown") => row.phase = "None"
    BY DEF ViewsAgree
  <2> DEFINE o == obj[w]
             rows == StatusRows(o)
  <2>1. o \in Object /\ o.spec \in ManifestIds
    BY DEF Inv, TypeOK, KwfTypeOK, Object
  <2>2. Tasks(Manifest[o.spec]) \subseteq TaskNames
    BY <2>1, ManifestAssumption DEF Tasks, IsManifest
  <2>3. \A t \in TaskNames : o.ts[t].phase \in TaskPhases
    BY <2>1 DEF Object, TaskStatus
  <2>4. \/ o.phase = "None" /\ InPhase(o.ts, "Absent") = TaskNames
        \/ \A t \in TaskNames : o.ts[t].phase = "Absent" <=> t \notin Tasks(Manifest[o.spec])
    BY DEF AllStand, Standing
  <2>5. /\ DOMAIN rows = Tasks(Manifest[o.spec])
        /\ \A t \in DOMAIN rows : rows[t] = IF o.ts[t].phase = "Absent" THEN "Unknown" ELSE o.ts[t].phase
    BY DEF StatusRows
  <2>6. InPhase(o.ts, "Running") = {t \in DOMAIN rows : rows[t] = "Running"}
    BY <2>2, <2>4, <2>5 DEF InPhase
  <2>7. (\E t \in DOMAIN rows : rows[t] = "Unknown") => o.phase = "None"
    BY <2>2, <2>3, <2>4, <2>5 DEF TaskPhases
  <2>8. ListRow(o).running = Cardinality(InPhase(o.ts, "Running")) /\ ListRow(o).phase = o.phase
    BY DEF ListRow
  <2>9. QED
    BY <2>6, <2>7, <2>8
<1>4. QED
  BY <1>1, <1>2, <1>3, InvHolds, PTL DEF Spec
=============================================================================
