----------------------------- MODULE Optimizers -----------------------------
(***************************************************************************)
(* The three optimizers the controller may be configured with, answering   *)
(* the same question side by side:                                         *)
(*   local  the Go greedy optimizer in the controller's process,           *)
(*   go     the same Go code behind gRPC (src/cmd/optimizer),              *)
(*   cpp    its C++ port behind gRPC (src/optimizer-service).              *)
(* The controller's Quantity is finer than the wire format: it counts in   *)
(* fractions, Unit of them to a milli-CPU or a MiB, and the gRPC client    *)
(* (src/internal/grpcclient/optimizer_client.go) converts both ways.       *)
(* Images, commands, pod names and predicted durations decide nothing and  *)
(* are left out.                                                           *)
(***************************************************************************)
EXTENDS Quantities

CONSTANTS
    Inputs      \* the questions asked: what Plan is called with

\* What Plan is called with: the spec (tasks, deps, base, max), the statuses
\* (phase, "Absent" for a missing key, and alloc, the requests) and pred.
IsInput(in) ==
    /\ in.tasks \in Seq(TaskNames)
    /\ \A i, j \in DOMAIN in.tasks : in.tasks[i] = in.tasks[j] => i = j
    /\ in.deps \in [TaskNames -> SUBSET TaskNames]
    /\ in.phase \in [TaskNames -> TaskPhases]
    /\ \A t \in TaskNames : IsRequirement(in.base[t]) /\ IsList(in.alloc[t])
    /\ DOMAIN in.pred \subseteq TaskNames
    /\ \A t \in DOMAIN in.pred : IsRequirement(in.pred[t])
    /\ IsList(in.max)

ASSUME OptimizersAssumption == \A in \in Inputs : IsInput(in)

Servers == {"local", "go", "cpp"}

-----------------------------------------------------------------------------
(***************************************************************************)
(* The client's requests, and what the Go server makes of them.            *)
(***************************************************************************)

\* Mutant: memory is rounded up as well.
PlanRequestRoundUp(in) ==
    LET up(l) == [Wire(l) EXCEPT !.mem = (Amount(l).mem + Unit - 1) \div Unit]
    IN  [tasks |-> in.tasks, deps |-> in.deps, phase |-> in.phase,
         alloc |-> [t \in TaskNames |-> up(in.alloc[t])],
         base  |-> [t \in {u \in TaskNames : DOMAIN in.base[u].req # {}} |-> up(in.base[t].req)],
         pred  |-> [t \in DOMAIN in.pred |-> up(in.pred[t].req)],
         max   |-> up(in.max)]

\* OptimizerClient.Plan, before the call.  A hint without requests is not
\* sent; an unset maximum and a zero one mean the same to both servers.
PlanRequest(in) ==
    [tasks |-> in.tasks, deps |-> in.deps, phase |-> in.phase,
     alloc |-> [t \in TaskNames |-> Wire(in.alloc[t])],
     base  |-> [t \in {u \in TaskNames : DOMAIN in.base[u].req # {}} |-> Wire(in.base[t].req)],
     pred  |-> [t \in DOMAIN in.pred |-> Wire(in.pred[t].req)],
     max   |-> Wire(in.max)]

\* protoToSpec, protoToTaskStatuses and protoToPredictions: the Go server
\* rebuilds what the in-process optimizer would have been called with.
protoToInput(w) ==
    [tasks |-> w.tasks, deps |-> w.deps, phase |-> w.phase,
     alloc |-> [t \in TaskNames |->
                  IF w.alloc[t] = NoResource THEN Nothing ELSE Quantity(w.alloc[t])],
     base  |-> [t \in TaskNames |->
                  IF t \in DOMAIN w.base THEN [req |-> Quantity(w.base[t]), lim |-> Nothing]
                  ELSE Unset],
     pred  |-> [t \in DOMAIN w.pred |-> [req |-> Quantity(w.pred[t]),
                                         lim |-> Quantity(Headroom(w.pred[t]))]],
     max   |-> Quantity(w.max)]

-----------------------------------------------------------------------------
(***************************************************************************)
(* What each implementation would give a task, and against which budget.   *)
(***************************************************************************)
\* Mutant: the limits are left at zero, as in TaskAllocation's default.
CppResolveNoLimits(w, t) ==
    LET given == IF t \in DOMAIN w.pred THEN w.pred[t]
                 ELSE IF t \in DOMAIN w.base THEN w.base[t]
                 ELSE DefaultResources
    IN  [req |-> given, lim |-> NoResource]

\* Mutant: the user's hint wins over the prediction.
CppResolveHintFirst(w, t) ==
    IF t \in DOMAIN w.base /\ w.base[t] # NoResource
    THEN [req |-> w.base[t], lim |-> Twice(w.base[t])]
    ELSE IF t \in DOMAIN w.pred THEN [req |-> w.pred[t], lim |-> Headroom(w.pred[t])]
    ELSE [req |-> DefaultResources, lim |-> Twice(DefaultResources)]

\* ResolveResources of greedy_optimizer.cpp: a hint of zero counts as none.
CppResolve(w, t) ==
    IF t \in DOMAIN w.pred THEN [req |-> w.pred[t], lim |-> Headroom(w.pred[t])]
    ELSE IF t \in DOMAIN w.base /\ w.base[t] # NoResource
         THEN [req |-> w.base[t], lim |-> Twice(w.base[t])]
    ELSE [req |-> DefaultResources, lim |-> Twice(DefaultResources)]

\* The loop of GreedyOptimizer.Plan (Go) works on Quantities, ...
GoView(in) ==
    [tasks |-> in.tasks, deps |-> in.deps, phase |-> in.phase,
     alloc |-> [t \in TaskNames |-> Amount(in.alloc[t])],
     give  |-> [t \in TaskNames |-> GoResolve(in, t)],
     max   |-> Amount(in.max)]

\* ... that of GreedyOptimizer::Plan (C++) on the integers of the wire.
CppView(w) ==
    [tasks |-> w.tasks, deps |-> w.deps, phase |-> w.phase, alloc |-> w.alloc,
     give  |-> [t \in TaskNames |-> CppResolve(w, t)],
     max   |-> w.max]

View(s, in) ==
    CASE s = "local" -> GoView(in)
      [] s = "go"    -> GoView(protoToInput(PlanRequest(in)))
      [] s = "cpp"   -> CppView(PlanRequest(in))

Statuses(v) == [t \in TaskNames |-> [phase |-> v.phase[t], alloc |-> v.alloc[t]]]

Need(v, t) == Amount(v.give[t].req)

\* The Go server's answer: requests and limits on the wire, absent ones as zero.
GoResponse(r) == [req |-> Wire(r.req), lim |-> Wire(r.lim)]

\* OptimizerClient.Plan, after the call: both limits are set in any case.
FromResponse(w) == [req |-> Quantity(w.req), lim |-> Quantity(w.lim)]

\* What the controller receives for a task the server scheduled with r.
Received(s, r) ==
    CASE s = "local" -> r
      [] s = "go"    -> FromResponse(GoResponse(r))
      [] s = "cpp"   -> FromResponse(r)

-----------------------------------------------------------------------------
(***************************************************************************)
(* The three of them at work on one input.                                 *)
(***************************************************************************)
VARIABLES
    input,      \* the arguments of Plan
    view,       \* server -> what its loop works on
    state,      \* server -> "asked", "answered" or "error"
    next,       \* server -> index of the task its loop considers next
    current,    \* server -> the loop's currentCPU and currentMem
    chosen,     \* server -> names of the tasks scheduled so far
    answer      \* server -> the plan the controller has: task -> requirement

vars == <<input, view, state, next, current, chosen, answer>>

TypeOK ==
    /\ IsInput(input)
    /\ view = [s \in Servers |-> View(s, input)]
    /\ state \in [Servers -> {"asked", "answered", "error"}]
    /\ next \in [Servers -> 1..(Len(input.tasks) + 1)]
    /\ current \in [Servers -> Resource]
    /\ chosen \in [Servers -> SUBSET TaskNames]
    /\ DOMAIN answer = Servers
    /\ \A s \in Servers :
          /\ DOMAIN answer[s] = IF state[s] = "answered" THEN chosen[s] ELSE {}
          /\ \A t \in DOMAIN answer[s] : IsRequirement(answer[s][t])

Init ==
    /\ input \in Inputs
    /\ view = [s \in Servers |-> View(s, input)]
    /\ state = [s \in Servers |-> "asked"]
    /\ next = [s \in Servers |-> 1]
    /\ current = [s \in Servers |-> ResourceUsage(Statuses(view[s]))]
    /\ chosen = [s \in Servers |-> {}]
    /\ answer = [s \in Servers |-> [t \in {} |-> Unset]]

Looping(s) == state[s] = "asked" /\ next[s] <= Len(input.tasks)

Startable(v, t) ==
    /\ v.phase[t] \in {"Absent", "Pending"}
    /\ \A d \in v.deps[t] : v.phase[d] = "Succeeded"

Fits(s, v, t) == Within(v.max, Plus(current[s], Need(v, t)))

\* The loop's continue: not startable, or not within MaxResources.
Skip(s) ==
    /\ Looping(s)
    /\ LET v == view[s]
           t == v.tasks[next[s]]
       IN  ~(Startable(v, t) /\ Fits(s, v, t))
    /\ next' = [next EXCEPT ![s] = @ + 1]
    /\ UNCHANGED <<input, view, state, current, chosen, answer>>

\* Mutant: the totals are not carried on to the next task.
TakeNoTotal(s) ==
    /\ Looping(s)
    /\ LET v == view[s]
           t == v.tasks[next[s]]
       IN  /\ Startable(v, t)
           /\ Fits(s, v, t)
           /\ chosen' = [chosen EXCEPT ![s] = @ \cup {t}]
    /\ next' = [next EXCEPT ![s] = @ + 1]
    /\ UNCHANGED <<input, view, state, current, answer>>

Take(s) ==
    /\ Looping(s)
    /\ LET v == view[s]
           t == v.tasks[next[s]]
       IN  /\ Startable(v, t)
           /\ Fits(s, v, t)
           /\ current' = [current EXCEPT ![s] = Plus(@, Need(v, t))]
           /\ chosen' = [chosen EXCEPT ![s] = @ \cup {t}]
    /\ next' = [next EXCEPT ![s] = @ + 1]
    /\ UNCHANGED <<input, view, state, answer>>

\* Mutant: the answer has an entry for every task that was looked at.
AnswerAllTasks(s) ==
    /\ state[s] = "asked"
    /\ next[s] > Len(input.tasks)
    /\ state' = [state EXCEPT ![s] = "answered"]
    /\ answer' = [answer EXCEPT ![s] =
                    [t \in TaskNames |-> Received(s, view[s].give[t])]]
    /\ UNCHANGED <<input, view, next, current, chosen>>

Answer(s) ==
    /\ state[s] = "asked"
    /\ next[s] > Len(input.tasks)
    /\ state' = [state EXCEPT ![s] = "answered"]
    /\ answer' = [answer EXCEPT ![s] =
                    [t \in chosen[s] |-> Received(s, view[s].give[t])]]
    /\ UNCHANGED <<input, view, next, current, chosen>>

\* The server cannot be reached or 30 seconds pass.  What it computed by then
\* reaches nobody, so it may as well not have begun.
CallError(s) ==
    /\ s # "local"
    /\ state[s] = "asked"
    /\ next[s] = 1
    /\ state' = [state EXCEPT ![s] = "error"]
    /\ UNCHANGED <<input, view, next, current, chosen, answer>>

Next == \E s \in Servers : Skip(s) \/ Take(s) \/ Answer(s) \/ CallError(s)

Spec == Init /\ [][Next]_vars

-----------------------------------------------------------------------------
(***************************************************************************)
(* Correctness.                                                            *)
(***************************************************************************)
Answered(s) == state[s] = "answered"

\* The question and the needs as the controller's model would put them.
Question(v) == [tasks |-> v.tasks, deps |-> v.deps, base |-> Nothing, max |-> v.max]

Needs(v) == [t \in TaskNames |-> Need(v, t)]

\* Each loop computes, task by task with a running total, exactly the greedy
\* schedule that the controller's model takes the optimizer's answer to be.
LoopIsGreedy ==
    \A s \in Servers : Answered(s) =>
        IsGreedyPlan(Question(view[s]), Statuses(view[s]), Needs(view[s]), chosen[s])

\* What the loop of s keeps on its way.
LoopKept(s) ==
    LET v     == view[s]
        usage == ResourceUsage(Statuses(v))
        seen  == {v.tasks[i] : i \in 1..(next[s] - 1)} \cap Ready(v, Statuses(v))
    IN  /\ Answered(s) => next[s] > Len(input.tasks)
        /\ current[s] = Plus(usage, Total(Needs(v), chosen[s]))
        /\ chosen[s] \subseteq seen
        /\ \A t \in seen :
              t \in chosen[s] <=>
                 Within(v.max, Plus(Plus(usage, Total(Needs(v), {u \in chosen[s] : Before(v, u, t)})),
                                    Need(v, t)))
        /\ \A t \in DOMAIN answer[s] : answer[s][t] = Received(s, v.give[t])

\* At each step of each loop the totals are those of the running tasks and of
\* the tasks taken, and of the tasks looked at, a ready one is taken if and only
\* if it fits next to those taken before it.
LoopInvariant == \A s \in Servers : LoopKept(s)

Requests(s) == [t \in chosen[s] |-> Amount(answer[s][t].req)]

\* What runs after the plan, counted as the pods will request it, is within
\* MaxResources as the user wrote it, in spite of the rounding on the way to a
\* server and back.  Rounding keeps the budget if the CPU maximum is a whole
\* number of millis, the memory maximum is none or at least one MiB (below
\* that it arrives as zero, no maximum at all) and running tasks hold whole MiB.
PlanKeepsBudget ==
    LET max  == Amount(input.max)
        runs == [t \in TaskNames |->
                    IF input.phase[t] = "Running" THEN Amount(input.alloc[t]) ELSE NoResource]
        kept == /\ max.cpu % Unit = 0
                /\ max.mem = 0 \/ max.mem >= Unit
                /\ \A t \in TaskNames : runs[t].mem % Unit = 0
    IN  \A s \in Servers :
            Answered(s) /\ chosen[s] # {} /\ (s = "local" \/ kept) =>
               Within(max, Plus(Total(runs, TaskNames), Total(Requests(s), chosen[s])))

WholeList(l) == \A k \in DOMAIN l : l[k] % Unit = 0

\* Whole quantities only, and every hint names a request above zero.
Plain(in) ==
    /\ WholeList(in.max)
    /\ \A t \in TaskNames :
          /\ WholeList(in.alloc[t])
          /\ WholeList(in.base[t].req)
          /\ in.base[t] = Unset \/ Amount(in.base[t].req) # NoResource
    /\ \A t \in DOMAIN in.pred : WholeList(in.pred[t].req)

\* Whichever optimizer the controller is configured with, it starts the same
\* tasks with the same requests, as long as the input is plain.
ImplementationsAgree ==
    Plain(input) =>
        \A r, s \in Servers : Answered(r) /\ Answered(s) => Requests(r) = Requests(s)

Covers(r) == \A k \in DOMAIN r.lim : Amount(r.req)[k] <= r.lim[k]

\* No allocation asks for more than its own limit, which the API server would
\* refuse to create a pod for, unless a hint or a forecast of the input does.
\* The Go server is exempt where it takes a hint: it forgets the limits, and
\* the client then sets them to zero.
LimitsCoverRequests ==
    /\ \A t \in TaskNames : Covers(input.base[t])
    /\ \A t \in DOMAIN input.pred : Covers(input.pred[t])
    => \A s \in Servers : \A t \in DOMAIN answer[s] :
          \/ s = "go" /\ t \notin DOMAIN input.pred /\ DOMAIN input.base[t].req # {}
          \/ Covers(answer[s][t])
=============================================================================
