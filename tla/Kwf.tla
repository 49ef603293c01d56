-------------------------------- MODULE Kwf --------------------------------
(***************************************************************************)
(* The users of the cluster: `kwf submit`, `kwf status` and `kwf list`     *)
(* (src/cmd/kwf/main.go) and the dashboard's REST handlers                 *)
(* (src/cmd/kwf/ui.go), several of them at once, on several workflows.     *)
(*                                                                         *)
(* A submit reads the object and then creates or updates it: two calls,    *)
(* between which other clients and the controller write.  These clients    *)
(* read the API server, not a cache, so what status and list print is a    *)
(* function of the stored object and they need no actions.                 *)
(***************************************************************************)
EXTENDS Scheduling

CONSTANTS
    Workflows,      \* names of workflows
    Files,          \* manifest files: a workflow's name and its spec
    Installed,      \* the files submitted before the controller starts
    Clients,        \* processes of the command line and requests to the UI
    Faults,         \* which of "api", "podfail" happen
    MaxUid,         \* how often a workflow is created under its name
    MaxSubmits      \* submits in a behaviour

ASSUME KwfAssumption ==
    /\ Workflows # {}
    /\ ManifestIds # {}
    /\ Files \subseteq [name : Workflows, spec : ManifestIds]
    /\ Installed \subseteq Files
    /\ \A f, g \in Installed : f.name = g.name => f = g
    /\ Faults \subseteq {"api", "podfail"}
    /\ MaxUid \in Nat \ {0}
    /\ MaxSubmits \in Nat

VARIABLES
    obj,        \* workflow name -> its stored object
    client,     \* client -> the submit it is at
    submits     \* submits so far

kwf == <<obj, client, submits>>

Phases == {"None", "Pending", "Running", "Completed", "Failed"}

\* gen counts the specs stored for the object (metadata.generation).
Object ==
    [live : BOOLEAN, uid : 0..MaxUid, rv : Nat, gen : Nat, spec : ManifestIds,
     deleting : BOOLEAN, finalizer : BOOLEAN, phase : Phases,
     ts : [TaskNames -> TaskStatus]]

Gone(uid, rv) ==
    [live |-> FALSE, uid |-> uid, rv |-> rv, gen |-> 0,
     spec |-> CHOOSE id \in ManifestIds : TRUE, deleting |-> FALSE,
     finalizer |-> FALSE, phase |-> "None", ts |-> NoStatuses]

\* Of the object that Get answered (existing in the code): which version it is.
NoRead == [uid |-> 0, rv |-> 0, gen |-> 0]

Idle == [pc |-> "idle", wf |-> CHOOSE w \in Workflows : TRUE,
         spec |-> CHOOSE id \in ManifestIds : TRUE, read |-> NoRead]

KwfTypeOK ==
    /\ obj \in [Workflows -> Object]
    /\ client \in [Clients -> [pc : {"idle", "create", "update"}, wf : Workflows,
                               spec : ManifestIds,
                               read : [uid : 0..MaxUid, rv : Nat, gen : Nat]]]
    /\ submits \in 0..MaxSubmits

\* A workflow as it is right after its creation from file f.
Created(f, uid, rv) ==
    [Gone(uid, rv) EXCEPT !.live = TRUE, !.gen = 1, !.spec = f.spec]

KwfInit ==
    /\ obj = [w \in Workflows |->
                LET mine == {f \in Installed : f.name = w}
                IN  IF mine = {} THEN Gone(0, 0) ELSE Created(CHOOSE f \in mine : TRUE, 1, 1)]
    /\ client = [c \in Clients |-> Idle]
    /\ submits = 0

-----------------------------------------------------------------------------
\* The version of w that a write which asks for new leaves: a new one only
\* if it changes something.
Stored(w, new) == IF new = obj[w] THEN new ELSE [new EXCEPT !.rv = obj[w].rv + 1]

Unreliable == "api" \in Faults

\* The command returns, with success or an error: either way it is over.
Done(c) == client' = [client EXCEPT ![c] = Idle]

\* The manifest was read and decoded, and Get is called, by the command or by
\* the POST handler.
Submit(c, f, step, read) ==
    /\ client[c].pc = "idle"
    /\ submits < MaxSubmits
    /\ submits' = submits + 1
    /\ client' = [client EXCEPT ![c] = [pc |-> step, wf |-> f.name, spec |-> f.spec, read |-> read]]
    /\ UNCHANGED obj

SubmitFound(c, f) ==
    LET o == obj[f.name]
    IN  o.live /\ Submit(c, f, "update", [uid |-> o.uid, rv |-> o.rv, gen |-> o.gen])

\* Any error of the read, not only "not found", leads to the create.
SubmitNotFound(c, f) ==
    /\ ~obj[f.name].live \/ Unreliable
    /\ Submit(c, f, "create", NoRead)

SubmitCreate(c) ==
    LET w == client[c].wf
    IN  /\ client[c].pc = "create"
        /\ ~obj[w].live
        /\ obj[w].uid < MaxUid
        /\ obj' = [obj EXCEPT ![w] =
                     Stored(w, Created(client[c], @.uid + 1, @.rv))]
        /\ Done(c)
        /\ UNCHANGED submits

\* Mutant: the status in the manifest is stored as well, as it would be
\* without the subresource marker.
ReplacedWithStatus(o, id) ==
    [o EXCEPT !.spec = id, !.gen = IF id = o.spec THEN @ ELSE @ + 1,
              !.phase = "None", !.ts = NoStatuses]

\* The object sent is the one read, with its spec replaced; the status is a
\* subresource and stays as it is.
Replaced(o, id) ==
    [o EXCEPT !.spec = id, !.gen = IF id = o.spec THEN @ ELSE @ + 1]

\* Mutant: the resourceVersion that was read is not sent.
SubmitUpdateAnyVersion(c) ==
    LET w == client[c].wf
    IN  /\ client[c].pc = "update"
        /\ obj[w].live
        /\ obj' = [obj EXCEPT ![w] = Stored(w, Replaced(@, client[c].spec))]
        /\ Done(c)
        /\ UNCHANGED submits

SubmitUpdate(c) ==
    LET w == client[c].wf
    IN  /\ client[c].pc = "update"
        /\ obj[w].live
        /\ obj[w].rv = client[c].read.rv
        /\ obj' = [obj EXCEPT ![w] = Stored(w, Replaced(@, client[c].spec))]
        /\ Done(c)
        /\ UNCHANGED submits

\* Create finds the name taken, Update a newer version or none, or the call
\* fails: the user gets the error, and nothing is tried again.
SubmitError(c) ==
    LET w == client[c].wf
    IN  /\ client[c].pc \in {"create", "update"}
        /\ \/ client[c].pc = "create" /\ obj[w].live
           \/ client[c].pc = "update" /\ ~(obj[w].live /\ obj[w].rv = client[c].read.rv)
           \/ Unreliable
        /\ Done(c)
        /\ UNCHANGED <<obj, submits>>

\* DELETE names the object only: it needs no read and meets no conflict.
Delete(w) ==
    /\ obj[w].live
    /\ ~obj[w].deleting
    /\ obj' = [obj EXCEPT ![w] =
                 Stored(w, IF @.finalizer THEN [@ EXCEPT !.deleting = TRUE]
                                          ELSE Gone(@.uid, @.rv))]
    /\ UNCHANGED <<client, submits>>

KwfNext ==
    \/ \E c \in Clients :
          \/ \E f \in Files : SubmitFound(c, f) \/ SubmitNotFound(c, f)
          \/ SubmitCreate(c)
          \/ SubmitUpdate(c)
          \/ SubmitError(c)
    \/ \E w \in Workflows : Delete(w)

-----------------------------------------------------------------------------
(***************************************************************************)
(* What is printed.                                                        *)
(***************************************************************************)

\* kwf status: a row for each task of the spec, "Unknown" for one the
\* statuses do not have.
StatusRows(o) ==
    [t \in Tasks(Manifest[o.spec]) |->
        IF o.ts[t].phase = "Absent" THEN "Unknown" ELSE o.ts[t].phase]

\* Mutant: every task that has not ended counts as running.
ListRowUnfinished(o) ==
    [phase |-> o.phase, tasks |-> Len(Manifest[o.spec].tasks),
     running |-> Cardinality(InPhase(o.ts, "Running") \cup InPhase(o.ts, "Pending"))]

\* kwf list: the number of tasks in the spec, and of those running.
ListRow(o) ==
    [phase |-> o.phase, tasks |-> Len(Manifest[o.spec].tasks),
     running |-> Cardinality(InPhase(o.ts, "Running"))]
=============================================================================
