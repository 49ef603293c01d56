------------------------------ MODULE Feedback ------------------------------
(***************************************************************************)
(* The learning loop: the controller asks the Python inference engine      *)
(* (src/inference-engine/server.py) for forecasts, starts pods with them,  *)
(* records what ran to success in PostgreSQL, and the engine's forecasts   *)
(* depend on those rows.  Manager, engine and database fail and come back  *)
(* on their own; who was connected to whom is decided when each starts.    *)
(*                                                                         *)
(* Of a pass of Reconcile only the calls of this loop are left: which of   *)
(* the startable tasks start is open, since dependencies, budget and       *)
(* stale caches are AdaptiveWorkflow's.  The optimizer is the one in the   *)
(* controller's process.  Durations and confidence are left out.           *)
(***************************************************************************)
EXTENDS Quantities, SequencesExt

CONSTANTS
    Image,          \* task -> container image
    Hintings,       \* the BaseResources a spec may give: task -> requirement
    Estimates,      \* what the model may answer: CPU and memory, as integers
    Measured,       \* usage that ReportMetrics may be called with
    Faults,         \* which of "rpc", "db", "restart" happen
    MaxRuns,        \* runs of a task after the first
    MaxRows         \* rows younger than 30 days

ASSUME FeedbackAssumption ==
    /\ \A h \in Hintings : \A t \in TaskNames : IsRequirement(h[t])
    /\ Estimates \subseteq Resource
    /\ Faults \subseteq {"rpc", "db", "restart"}
    /\ Measured \subseteq Resource
    /\ MaxRuns \in Nat
    /\ MaxRows \in Nat \ {0}

VARIABLES
    hint,       \* the BaseResources of the spec
    dbUp,       \* PostgreSQL answers
    stateDB,    \* the manager's StateDB: "postgres" or "noop"
    engine,     \* the inference server: is it up, its model, its connection
    rows,       \* task_executions of the last 30 days, oldest first
    task,       \* task name -> where its run is and what it was given
    runs,       \* repeated runs so far
    granted     \* ghost: image and requests of the pods that succeeded, and what was
                \* reported of them

vars == <<hint, dbUp, stateDB, engine, rows, task, runs, granted>>

Images == {Image[t] : t \in TaskNames}

\* phase: Pending; Active and Ended/Broken (status Running, the pod runs or has
\* succeeded/failed); Saved (the result is in the stored status).
\* by (ghost): whose forecast it got, the model's, the engine's or nobody's.
TypeOK ==
    /\ hint \in Hintings
    /\ dbUp \in BOOLEAN
    /\ stateDB \in {"postgres", "noop"}
    /\ engine \in [up : BOOLEAN, model : BOOLEAN, db : {"open", "lost"}]
    /\ engine.db = "open" => engine.up /\ dbUp
    /\ rows \in Seq([image : Images, use : Resource, succeeded : BOOLEAN])
    /\ Len(rows) <= MaxRows
    /\ DOMAIN task = TaskNames
    /\ \A t \in TaskNames :
          /\ DOMAIN task[t] = {"phase", "alloc", "by"}
          /\ task[t].phase \in {"Pending", "Active", "Ended", "Broken", "Saved"}
          /\ task[t].by \in {"model", "engine", "nobody"}
          /\ IsRequirement(task[t].alloc)
    /\ runs \in 0..MaxRuns
    /\ granted \subseteq [image : Images, res : Resource]

Fresh == [phase |-> "Pending", alloc |-> Unset, by |-> "nobody"]

\* What the task was given does not matter any more.
Over == [Fresh EXCEPT !.phase = "Saved"]

-----------------------------------------------------------------------------
(***************************************************************************)
(* Connections.                                                            *)
(***************************************************************************)

\* NewPostgresStateDB pings; on an error the manager goes on with the no-op
\* database until it is started again.
Connected == IF dbUp THEN "postgres" ELSE "noop"

\* Mutant: the connection is taken for open before it was tried.
StartedEngineLazy(model) == [up |-> TRUE, model |-> model, db |-> "open"]

\* The server loads the model if the file is there, and connects if it can.
StartedEngine(model) ==
    [up |-> TRUE, model |-> model, db |-> IF dbUp THEN "open" ELSE "lost"]

Init ==
    /\ hint \in Hintings
    /\ dbUp \in (IF "db" \in Faults THEN BOOLEAN ELSE {TRUE})
    /\ stateDB = Connected
    /\ \E model \in BOOLEAN : engine = StartedEngine(model)
    /\ rows = <<>>
    /\ task = [t \in TaskNames |-> Fresh]
    /\ runs = 0
    /\ granted = {}

\* Inserts stamp the row with the time; those older than 30 days count no more.
Insert(q, new) ==
    LET all == q \o new
        out == IF Len(all) > MaxRows THEN Len(all) - MaxRows ELSE 0
    IN  SubSeq(all, out + 1, Len(all))

-----------------------------------------------------------------------------
(***************************************************************************)
(* The engine.                                                             *)
(***************************************************************************)

\* COUNT and AVG (as integers) over some of the rows.
Averages(some) ==
    LET n   == Cardinality(some)
        sum == Total([i \in DOMAIN rows |-> rows[i].use], some)
    IN  [n |-> n, avg |-> IF n = 0 THEN NoResource
                          ELSE [cpu |-> sum.cpu \div n, mem |-> sum.mem \div n]]

\* The query of GetHistoryByImage and of _get_history.
HistoryOf(image) ==
    Averages({i \in DOMAIN rows : rows[i].image = image /\ rows[i].succeeded})

NoHistory == [n |-> 0, avg |-> NoResource]

\* _get_history: a connection that was refused or broke reads as no history,
\* and nothing tries it again.
EngineHistory(image) == IF engine.db = "open" THEN HistoryOf(image) ELSE NoHistory

\* InferenceClient.Predict sends a hint if there are requests.
SentHint(t) == IF DOMAIN hint[t].req = {} THEN NoResource ELSE Wire(hint[t].req)

AtLeast(a, b) == [cpu |-> IF a.cpu > b.cpu THEN a.cpu ELSE b.cpu,
                  mem |-> IF a.mem > b.mem THEN a.mem ELSE b.mem]

\* _ml_predict: 10% headroom and a floor under what the model says.
ModelForecasts ==
    {AtLeast([cpu |-> 10, mem |-> 8], [cpu |-> (11 * e.cpu) \div 10, mem |-> (11 * e.mem) \div 10]) :
        e \in Estimates}

\* Mutant: the hint is taken verbatim, as the documentation has it.
FromHintVerbatim(h) == h

\* A part of the hint that is zero is replaced by the default.
FromHint(h) == [cpu |-> IF h.cpu > 0 THEN h.cpu ELSE DefaultResources.cpu,
                mem |-> IF h.mem > 0 THEN h.mem ELSE DefaultResources.mem]

\* Mutant: the engine's cold start differs from the optimizer's default.
ForecastsOtherDefault(t) ==
    LET learned == EngineHistory(Image[t]).n > 0
    IN  IF learned /\ engine.model THEN ModelForecasts
        ELSE IF learned THEN {}
        ELSE IF SentHint(t) # NoResource THEN {FromHint(SentHint(t))}
        ELSE {[cpu |-> 250, mem |-> 128]}

\* What Predict may answer for a task.  With history and no model there is
\* nothing: the averages are Decimals, and multiplying one by the float 1.2
\* raises a TypeError.
Forecasts(t) ==
    LET learned == EngineHistory(Image[t]).n > 0
    IN  IF learned /\ engine.model THEN ModelForecasts
        ELSE IF learned THEN {}
        ELSE IF SentHint(t) # NoResource THEN {FromHint(SentHint(t))}
        ELSE {DefaultResources}

\* The answers to a request with all tasks of the spec: an exception for one
\* of them fails the call.
Answers == {p \in [TaskNames -> UNION {Forecasts(t) : t \in TaskNames}] :
               \A t \in TaskNames : p[t] \in Forecasts(t)}

\* Conversion of a response: limits are the requests and a half.
FromForecast(p) ==
    [t \in TaskNames |-> [req |-> Quantity(p[t]), lim |-> Quantity(Headroom(p[t]))]]

NoPredictions == [t \in {} |-> Unset]

-----------------------------------------------------------------------------
(***************************************************************************)
(* The controller.                                                         *)
(***************************************************************************)

\* The tasks in some are started with what the optimizer makes of pred; by
\* tells whose forecast each of them has.
Start(some, pred, by) ==
    /\ some # {}
    /\ \A t \in some : task[t].phase = "Pending"
    /\ task' = [t \in TaskNames |->
                  IF t \in some
                  THEN [phase |-> "Active", alloc |-> GoResolve([pred |-> pred, base |-> hint], t),
                        by |-> by[t]]
                  ELSE task[t]]
    /\ UNCHANGED <<hint, dbUp, stateDB, engine, rows, runs, granted>>

StartPredicted(some) ==
    /\ engine.up
    /\ \E p \in Answers :
          Start(some, FromForecast(p),
                [t \in TaskNames |->
                   IF engine.model /\ EngineHistory(Image[t]).n > 0 THEN "model" ELSE "engine"])

\* The call fails: no server, 30 seconds without an answer, or an exception.
\* The pass goes on with empty predictions.
StartUnpredicted(some) ==
    /\ ~engine.up \/ Answers = {} \/ "rpc" \in Faults
    /\ Start(some, NoPredictions, [t \in TaskNames |-> "nobody"])

\* The pod of an image held these resources while it ran.  What it used of
\* them is known to nobody here: the controller reads no metrics.
Grant(image, res) == [image |-> image, res |-> res]

\* External: the pod ends.
PodEnds(t) ==
    /\ task[t].phase = "Active"
    /\ \/ /\ task' = [task EXCEPT ![t].phase = "Ended"]
          /\ granted' = granted \cup {Grant(Image[t], Amount(task[t].alloc.req))}
       \/ /\ task' = [task EXCEPT ![t].phase = "Broken"]
          /\ UNCHANGED granted
    /\ UNCHANGED <<hint, dbUp, stateDB, engine, rows, runs>>

\* RecordExecution of either StateDB: the pool connects again by itself, the
\* caller drops the error of an insert that fails.
Recorded(row) == IF stateDB = "postgres" /\ dbUp THEN Insert(rows, <<row>>) ELSE rows

\* Mutant: the quantities are recorded in their own unit, not as milli-CPUs
\* and MiB.
SyncRecordsBytes(t, saved) ==
    /\ task[t].phase \in {"Ended", "Broken"}
    /\ rows' = IF task[t].phase = "Ended"
               THEN Recorded([image |-> Image[t], use |-> Amount(task[t].alloc.req), succeeded |-> TRUE])
               ELSE rows
    /\ task' = IF saved THEN [task EXCEPT ![t] = Over] ELSE task
    /\ UNCHANGED <<hint, dbUp, stateDB, engine, runs, granted>>

\* syncPodsToStatus sees that the pod ended and records it if it succeeded,
\* with the allocation for the usage; the status is stored after that, or the
\* write is rejected and all of it happens again.
Sync(t, saved) ==
    /\ task[t].phase \in {"Ended", "Broken"}
    /\ rows' = IF task[t].phase = "Ended"
               THEN Recorded([image |-> Image[t], use |-> Wire(task[t].alloc.req), succeeded |-> TRUE])
               ELSE rows
    /\ task' = IF saved THEN [task EXCEPT ![t] = Over] ELSE task
    /\ UNCHANGED <<hint, dbUp, stateDB, engine, runs, granted>>

\* The task runs again, in a later workflow.
Again(t) ==
    /\ task[t].phase = "Saved"
    /\ runs < MaxRuns
    /\ runs' = runs + 1
    /\ task' = [task EXCEPT ![t] = Fresh]
    /\ UNCHANGED <<hint, dbUp, stateDB, engine, rows, granted>>

-----------------------------------------------------------------------------
(***************************************************************************)
(* ReportMetrics: nothing in the repository calls it.  Somebody who does   *)
(* reports runs that ended, with whatever usage was measured.              *)
(***************************************************************************)
Metric(t, use) == [image |-> Image[t], use |-> use, succeeded |-> task[t].phase = "Ended"]

\* Each metric is inserted and committed by itself; when the connection breaks
\* on the way, those before it stay and the answer is that none was accepted.
\* Without a connection the metrics are discarded, which changes nothing.
ReportMetrics(batch, uses, stored) ==
    /\ engine.up
    /\ batch # <<>>
    /\ \A i \in DOMAIN batch : task[batch[i]].phase \in {"Ended", "Broken"}
    /\ engine.db = "open"
    /\ stored = Len(batch) \/ "db" \in Faults
    /\ LET metrics == [i \in DOMAIN batch |-> Metric(batch[i], uses[batch[i]])]
       IN  /\ rows' = Insert(rows, SubSeq(metrics, 1, stored))
           /\ granted' = granted \cup {Grant(metrics[i].image, Quantity(metrics[i].use)) :
                                          i \in {j \in 1..stored : metrics[j].succeeded}}
    /\ IF stored = Len(batch) THEN UNCHANGED <<dbUp, engine>>
       ELSE dbUp' = FALSE /\ engine' = [engine EXCEPT !.db = "lost"]
    /\ UNCHANGED <<hint, stateDB, task, runs>>

-----------------------------------------------------------------------------
(***************************************************************************)
(* Faults and the passing of time.                                         *)
(***************************************************************************)
DatabaseDown ==
    /\ "db" \in Faults
    /\ dbUp
    /\ dbUp' = FALSE
    /\ engine' = [engine EXCEPT !.db = "lost"]
    /\ UNCHANGED <<hint, stateDB, rows, task, runs, granted>>

DatabaseUp ==
    /\ ~dbUp
    /\ dbUp' = TRUE
    /\ UNCHANGED <<hint, stateDB, engine, rows, task, runs, granted>>

EngineStops ==
    /\ "restart" \in Faults
    /\ engine.up
    /\ engine' = [up |-> FALSE, model |-> FALSE, db |-> "lost"]
    /\ UNCHANGED <<hint, dbUp, stateDB, rows, task, runs, granted>>

EngineStarts ==
    /\ ~engine.up
    /\ \E model \in BOOLEAN : engine' = StartedEngine(model)
    /\ UNCHANGED <<hint, dbUp, stateDB, rows, task, runs, granted>>

ManagerRestarts ==
    /\ "restart" \in Faults
    /\ stateDB' = Connected
    /\ UNCHANGED <<hint, dbUp, engine, rows, task, runs, granted>>

Expire ==
    /\ rows # <<>>
    /\ rows' = Tail(rows)
    /\ UNCHANGED <<hint, dbUp, stateDB, engine, task, runs, granted>>

Next ==
    \/ \E some \in SUBSET TaskNames : StartPredicted(some) \/ StartUnpredicted(some)
    \/ \E t \in TaskNames : PodEnds(t) \/ Again(t) \/ \E saved \in BOOLEAN : Sync(t, saved)
    \/ \E S \in SUBSET TaskNames : \E batch \in SetToSeqs(S), uses \in [S -> Measured] :
          \E stored \in 0..Len(batch) : ReportMetrics(batch, uses, stored)
    \/ DatabaseDown
    \/ DatabaseUp
    \/ EngineStops
    \/ EngineStarts
    \/ ManagerRestarts
    \/ Expire

Spec == Init /\ [][Next]_vars

-----------------------------------------------------------------------------
(***************************************************************************)
(* Correctness.                                                            *)
(***************************************************************************)
Started(t) == task[t].phase \in {"Active", "Ended", "Broken"}

\* A pod started on the engine's word asks for some CPU and some memory and
\* for no more than its limits, whatever was in the hint, the history and the
\* model's answer.
ForecastsUsable ==
    \A t \in TaskNames : Started(t) /\ task[t].by # "nobody" =>
        LET r == task[t].alloc
        IN  \A k \in Kinds : 0 < Amount(r.req)[k] /\ Amount(r.req)[k] <= Amount(r.lim)[k]

\* What is learned of an image, in whole milli-CPUs and MiB, is what its
\* successful runs were given (not what they used, which the controller does
\* not know) or were reported with: each average lies, but for the rounding
\* of one value, between the least and the most of these.  No failed run and
\* no other image has a part in it, through retries, outages and expiry.
HistoryOfGrants ==
    \A image \in Images : HistoryOf(image).n > 0 =>
        LET given == {g.res : g \in {q \in granted : q.image = image}}
            avg   == Quantity(HistoryOf(image).avg)
        IN  \A k \in Kinds : \E lo, hi \in given :
               lo[k] < avg[k] + Unit /\ avg[k] < hi[k] + Unit

\* Whole milli-CPUs and MiB of both kinds, or no hint at all.
PlainHint(h) ==
    \/ h = Unset
    \/ DOMAIN h.req = Kinds /\ \A k \in Kinds : h.req[k] > 0 /\ h.req[k] % Unit = 0

\* Unless the model spoke, a task with a plain hint requests the same as with
\* the in-process baseline: an engine that is down, slow, raises, lost its
\* database or has no history makes no difference.
ColdStartIsBaseline ==
    \A t \in TaskNames : Started(t) /\ task[t].by # "model" /\ PlainHint(hint[t]) =>
        Amount(task[t].alloc.req) = Amount(GoResolve([pred |-> NoPredictions, base |-> hint], t).req)

Raised(r) == [cpu |-> (12 * r.cpu) \div 10, mem |-> (12 * r.mem) \div 10]

\* With history and no model the averages are used, with 20% on top.
HistoryIsUsed ==
    [][\A t \in TaskNames :
          LET h == EngineHistory(Image[t])
          IN  task[t].phase = "Pending" /\ task'[t].phase = "Active" /\ engine.up /\ ~engine.model /\ h.n > 0 =>
                 task'[t].alloc.req = Quantity(Raised(h.avg))]_vars
=============================================================================
