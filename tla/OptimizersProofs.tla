-------------------------- MODULE OptimizersProofs --------------------------
(***************************************************************************)
(* What the three optimizers promise, for all inputs and any unit of the   *)
(* wire format: each loop is the greedy schedule, its plan keeps the       *)
(* budget in spite of the rounding, on plain inputs they agree, and they   *)
(* set limits that cover the requests.                                     *)
(***************************************************************************)
EXTENDS Optimizers, QuantitiesProofs

-----------------------------------------------------------------------------
(***************************************************************************)
(* The three views of an input.                                            *)
(***************************************************************************)

\* What of a task's request goes over the wire.
Sent(in, t) ==
    IF t \in DOMAIN in.pred THEN Wire(in.pred[t].req)
    ELSE IF DOMAIN in.base[t].req # {} THEN Wire(in.base[t].req)
    ELSE DefaultResources

\* An input's parts are of their types.
LEMMA InputFacts ==
    ASSUME NEW in, IsInput(in), NEW t \in TaskNames
    PROVE  /\ IsList(in.base[t].req) /\ IsList(in.base[t].lim) /\ IsList(in.alloc[t]) /\ IsList(in.max)
           /\ t \in DOMAIN in.pred => IsList(in.pred[t].req) /\ IsList(in.pred[t].lim)
           /\ Sent(in, t) \in Resource
<1>1. /\ IsList(in.base[t].req) /\ IsList(in.base[t].lim) /\ IsList(in.alloc[t]) /\ IsList(in.max)
      /\ t \in DOMAIN in.pred => IsList(in.pred[t].req) /\ IsList(in.pred[t].lim)
  BY DEF IsInput, IsRequirement
<1>2. QED
  BY <1>1, AmountFacts, DefaultFacts DEF Sent

\* What the Go server works on: everything has come over the wire.
LEMMA GoServerView ==
    ASSUME NEW in, IsInput(in), NEW t \in TaskNames
    PROVE  LET p == protoToInput(PlanRequest(in))
           IN  /\ IsList(p.alloc[t]) /\ Amount(p.alloc[t]) = Quantity(Wire(in.alloc[t]))
               /\ Amount(p.max) = Quantity(Wire(in.max))
               /\ GoResolve(p, t) =
                    IF t \in DOMAIN in.pred
                    THEN [req |-> Quantity(Sent(in, t)), lim |-> Quantity(Headroom(Sent(in, t)))]
                    ELSE IF DOMAIN in.base[t].req # {}
                         THEN [req |-> Quantity(Sent(in, t)), lim |-> Nothing]
                    ELSE DefaultRequirement
<1> DEFINE w == PlanRequest(in)
           p == protoToInput(w)
<1>1. Wire(in.alloc[t]) \in Resource /\ Wire(in.max) \in Resource
  BY InputFacts, AmountFacts
<1>2. w.alloc[t] = Wire(in.alloc[t]) /\ w.max = Wire(in.max)
  BY DEF PlanRequest
<1>3. p.alloc[t] = (IF w.alloc[t] = NoResource THEN Nothing ELSE Quantity(w.alloc[t]))
  BY DEF protoToInput
<1>4. p.max = Quantity(w.max)
  BY DEF protoToInput
<1>5. Quantity(NoResource) = NoResource
  BY UnitAssumption DEF Quantity, NoResource
<1>6. IsList(p.alloc[t]) /\ Amount(p.alloc[t]) = Quantity(Wire(in.alloc[t]))
  <2> HIDE DEF p, w
  <2>1. QED
    BY <1>1, <1>2, <1>3, <1>5, QuantityFacts, AmountFacts
<1>7. Amount(p.max) = Quantity(Wire(in.max))
  <2> HIDE DEF p, w
  <2>1. QED
    BY <1>1, <1>2, <1>4, QuantityFacts
<1>8. CASE t \in DOMAIN in.pred
  <2>1. t \in DOMAIN w.pred /\ w.pred[t] = Wire(in.pred[t].req)
    BY <1>8 DEF PlanRequest
  <2>2. t \in DOMAIN p.pred /\ p.pred[t] = [req |-> Quantity(w.pred[t]), lim |-> Quantity(Headroom(w.pred[t]))]
    BY <2>1 DEF protoToInput
  <2>3. QED
    BY <1>6, <1>7, <1>8, <2>1, <2>2 DEF GoResolve, Sent
<1>9. CASE t \notin DOMAIN in.pred /\ DOMAIN in.base[t].req # {}
  <2>1. t \notin DOMAIN w.pred /\ t \in DOMAIN w.base /\ w.base[t] = Wire(in.base[t].req)
    BY <1>9 DEF PlanRequest
  <2>2. t \notin DOMAIN p.pred /\ p.base[t] = [req |-> Quantity(w.base[t]), lim |-> Nothing]
    BY <2>1 DEF protoToInput
  <2>3. Wire(in.base[t].req) \in Resource
    BY InputFacts, AmountFacts
  <2>4. DOMAIN p.base[t].req = Kinds
    BY <2>1, <2>2, <2>3, QuantityFacts
  <2>5. DOMAIN Unset.req = {} /\ Kinds # {}
    BY DEF Unset, Nothing, Kinds
  <2>6. p.base[t] # Unset
    BY <2>4, <2>5
  <2>7. GoResolve(p, t) = p.base[t]
    BY <2>2, <2>6 DEF GoResolve
  <2>8. GoResolve(p, t) = [req |-> Quantity(Sent(in, t)), lim |-> Nothing]
    BY <1>9, <2>1, <2>2, <2>7 DEF Sent
  <2>9. QED
    BY <1>6, <1>7, <1>9, <2>8
<1>10. CASE t \notin DOMAIN in.pred /\ DOMAIN in.base[t].req = {}
  <2>1. t \notin DOMAIN w.pred /\ t \notin DOMAIN w.base
    BY <1>10 DEF PlanRequest
  <2>2. t \notin DOMAIN p.pred /\ p.base[t] = Unset
    BY <2>1 DEF protoToInput
  <2>3. GoResolve(p, t) = DefaultRequirement
    BY <2>2 DEF GoResolve
  <2>4. QED
    BY <1>6, <1>7, <1>10, <2>3
<1>11. QED
  BY <1>8, <1>9, <1>10

\* What the C++ server gives a task: what was sent, unless it is a hint of zero.
LEMMA CppServerView ==
    ASSUME NEW in, IsInput(in), NEW t \in TaskNames
    PROVE  LET w == PlanRequest(in)
               r == CppResolve(w, t)
           IN  /\ w.alloc[t] = Wire(in.alloc[t]) /\ w.max = Wire(in.max)
               /\ r.req \in Resource /\ r.lim \in Resource
               /\ AtMost(r.req, r.lim)
               /\ r.req = IF t \notin DOMAIN in.pred /\ Sent(in, t) = NoResource
                          THEN DefaultResources ELSE Sent(in, t)
<1> DEFINE w == PlanRequest(in)
           r == CppResolve(w, t)
<1>1. w.alloc[t] = Wire(in.alloc[t]) /\ w.max = Wire(in.max)
  BY DEF PlanRequest
<1>2. /\ DOMAIN w.pred = DOMAIN in.pred
      /\ t \in DOMAIN in.pred => w.pred[t] = Sent(in, t)
      /\ t \in DOMAIN w.base <=> DOMAIN in.base[t].req # {}
      /\ t \notin DOMAIN in.pred /\ t \in DOMAIN w.base => w.base[t] = Sent(in, t)
      /\ t \notin DOMAIN in.pred /\ t \notin DOMAIN w.base => Sent(in, t) = DefaultResources
  BY DEF PlanRequest, Sent
<1>3. DefaultResources # NoResource /\ DefaultResources \in Resource
  <2>1. DefaultResources.cpu = 100 /\ NoResource.cpu = 0
    BY DEF DefaultResources, NoResource
  <2>2. QED
    BY <2>1, DefaultFacts
<1>4. Sent(in, t) \in Resource
  BY InputFacts
<1> HIDE DEF w
<1>5. CASE t \in DOMAIN in.pred
  <2>1. r = [req |-> Sent(in, t), lim |-> Headroom(Sent(in, t))]
    BY <1>2, <1>5 DEF CppResolve
  <2>2. QED
    BY <1>1, <1>4, <1>5, <2>1, HeadroomFacts DEF w
<1>6. CASE t \notin DOMAIN in.pred /\ t \in DOMAIN w.base /\ Sent(in, t) # NoResource
  <2>1. r = [req |-> Sent(in, t), lim |-> Twice(Sent(in, t))]
    BY <1>2, <1>6 DEF CppResolve
  <2>2. QED
    BY <1>1, <1>4, <1>6, <2>1, HeadroomFacts DEF w
<1>7. CASE t \notin DOMAIN in.pred /\ (t \notin DOMAIN w.base \/ Sent(in, t) = NoResource)
  <2>1. r = [req |-> DefaultResources, lim |-> Twice(DefaultResources)]
    BY <1>2, <1>7 DEF CppResolve
  <2>2. Sent(in, t) = DefaultResources \/ Sent(in, t) = NoResource
    BY <1>2, <1>7
  <2>3. QED
    BY <1>1, <1>3, <1>7, <2>1, <2>2, HeadroomFacts DEF w
<1>8. QED
  BY <1>5, <1>6, <1>7

-----------------------------------------------------------------------------
\* Whichever server it is, the loop works on the tasks, dependencies and phases
\* of the input and on resources, and gives requirements.
LEMMA ViewFacts ==
    ASSUME NEW in, IsInput(in), NEW s \in Servers
    PROVE  LET v == View(s, in)
           IN  /\ v.tasks = in.tasks /\ v.deps = in.deps /\ v.phase = in.phase
               /\ v.max \in Resource
               /\ \A t \in TaskNames : /\ v.alloc[t] \in Resource
                                       /\ IsRequirement(v.give[t])
                                       /\ Need(v, t) \in Resource
                                       /\ IsRequirement(Received(s, v.give[t]))
<1> DEFINE v == View(s, in)
           Goal == /\ v.tasks = in.tasks /\ v.deps = in.deps /\ v.phase = in.phase
                   /\ v.max \in Resource
                   /\ \A t \in TaskNames : /\ v.alloc[t] \in Resource
                                           /\ IsRequirement(v.give[t])
                                           /\ IsRequirement(Received(s, v.give[t]))
<1>1. Goal => /\ Goal
              /\ \A t \in TaskNames : Need(v, t) \in Resource
  BY AmountFacts DEF Need, IsRequirement
<1>2. SUFFICES Goal
  BY <1>1
<1>0. IsList(in.max)
  BY DEF IsInput
<1>3. CASE s = "local"
  <2>1. v = GoView(in)
    BY <1>3 DEF View
  <2>2. v.tasks = in.tasks /\ v.deps = in.deps /\ v.phase = in.phase /\ v.max = Amount(in.max)
    BY <2>1 DEF GoView
  <2>3. ASSUME NEW t \in TaskNames
        PROVE  v.alloc[t] \in Resource /\ IsRequirement(v.give[t]) /\ IsRequirement(Received(s, v.give[t]))
    <3>1. v.alloc[t] = Amount(in.alloc[t]) /\ v.give[t] = GoResolve(in, t)
      BY <2>1 DEF GoView
    <3>2. IsRequirement(GoResolve(in, t))
      BY ResolveType DEF IsInput
    <3>3. Received(s, v.give[t]) = v.give[t]
      BY <1>3 DEF Received
    <3>4. QED
      BY <3>1, <3>2, <3>3, InputFacts, AmountFacts
  <2>4. QED
    BY <1>0, <2>2, <2>3, AmountFacts
<1>4. CASE s = "go"
  <2> DEFINE p == protoToInput(PlanRequest(in))
  <2>1. v = GoView(p)
    BY <1>4 DEF View
  <2>2. p.tasks = in.tasks /\ p.deps = in.deps /\ p.phase = in.phase /\ p.max = Quantity(Wire(in.max))
    BY DEF protoToInput, PlanRequest
  <2>3. v.tasks = in.tasks /\ v.deps = in.deps /\ v.phase = in.phase /\ v.max = Amount(p.max)
    BY <2>1, <2>2 DEF GoView
  <2>4. v.max \in Resource
    BY <1>0, <2>2, <2>3, AmountFacts, QuantityFacts
  <2>5. ASSUME NEW t \in TaskNames
        PROVE  v.alloc[t] \in Resource /\ IsRequirement(v.give[t]) /\ IsRequirement(Received(s, v.give[t]))
    <3>1. v.alloc[t] = Amount(p.alloc[t]) /\ v.give[t] = GoResolve(p, t)
      BY <2>1 DEF GoView
    <3>2. v.alloc[t] \in Resource
      BY <3>1, GoServerView, AmountFacts
    <3>3. Sent(in, t) \in Resource
      BY InputFacts
    <3>4. IsRequirement([req |-> Quantity(Sent(in, t)), lim |-> Quantity(Headroom(Sent(in, t)))])
      BY <3>3, HeadroomFacts, QuantityFacts DEF IsRequirement
    <3>5. IsRequirement([req |-> Quantity(Sent(in, t)), lim |-> Nothing])
      BY <3>3, QuantityFacts, AmountFacts DEF IsRequirement
    <3>6. IsRequirement(v.give[t])
      <4> HIDE DEF p
      <4>1. QED
        BY <3>1, <3>4, <3>5, GoServerView, DefaultFacts DEF p
    <3>7. IsRequirement(Received(s, v.give[t]))
      <4>1. Received(s, v.give[t]) = [req |-> Quantity(Wire(v.give[t].req)), lim |-> Quantity(Wire(v.give[t].lim))]
        BY <1>4 DEF Received, FromResponse, GoResponse
      <4>2. QED
        BY <3>6, <4>1, AmountFacts, QuantityFacts DEF IsRequirement
    <3>8. QED
      BY <3>2, <3>6, <3>7
  <2>6. QED
    BY <2>3, <2>4, <2>5
<1>5. CASE s = "cpp"
  <2> DEFINE w == PlanRequest(in)
  <2>1. v = CppView(w)
    BY <1>5 DEF View
  <2>2. w.tasks = in.tasks /\ w.deps = in.deps /\ w.phase = in.phase /\ w.max = Wire(in.max)
    BY DEF PlanRequest
  <2>3. v.tasks = in.tasks /\ v.deps = in.deps /\ v.phase = in.phase /\ v.max = w.max
    BY <2>1, <2>2 DEF CppView
  <2>4. v.max \in Resource
    BY <1>0, <2>2, <2>3, AmountFacts
  <2>5. ASSUME NEW t \in TaskNames
        PROVE  v.alloc[t] \in Resource /\ IsRequirement(v.give[t]) /\ IsRequirement(Received(s, v.give[t]))
    <3>1. v.alloc[t] = w.alloc[t] /\ v.give[t] = CppResolve(w, t)
      BY <2>1 DEF CppView
    <3>2. w.alloc[t] \in Resource /\ v.give[t].req \in Resource /\ v.give[t].lim \in Resource
      <4> HIDE DEF w
      <4>1. QED
        BY <3>1, CppServerView, InputFacts, AmountFacts DEF w
    <3>3. Received(s, v.give[t]) = [req |-> Quantity(v.give[t].req), lim |-> Quantity(v.give[t].lim)]
      BY <1>5 DEF Received, FromResponse
    <3>4. QED
      BY <3>1, <3>2, <3>3, AmountFacts, QuantityFacts DEF IsRequirement
  <2>6. QED
    BY <2>3, <2>4, <2>5
<1>6. QED
  BY <1>3, <1>4, <1>5 DEF Servers

\* The loop's question is a manifest with statuses and needs, as the controller's
\* model has them; what it calls startable is what that model calls ready.
LEMMA ModelFacts ==
    ASSUME NEW in, IsInput(in), NEW s \in Servers
    PROVE  LET v == View(s, in)
               m == Question(v)
           IN  /\ IsManifest(m)
               /\ Statuses(v) \in [TaskNames -> TaskStatus]
               /\ ResourceUsage(Statuses(v)) \in Resource
               /\ AllResources(Needs(v), TaskNames) /\ IsResourceMap(Needs(v))
               /\ Needs(v) = [t \in TaskNames |-> resolveResources(m, Needs(v), t)]
               /\ Ready(m, Statuses(v)) = Ready(v, Statuses(v))
               /\ \A t, u : Before(m, t, u) <=> Before(v, t, u)
               /\ \A i \in DOMAIN v.tasks :
                     /\ v.tasks[i] \in TaskNames
                     /\ Startable(v, v.tasks[i]) <=> v.tasks[i] \in Ready(v, Statuses(v))
<1> DEFINE v == View(s, in)
           m == Question(v)
<1>1. /\ v.tasks = in.tasks /\ v.deps = in.deps /\ v.phase = in.phase /\ v.max \in Resource
      /\ \A t \in TaskNames : v.alloc[t] \in Resource /\ Need(v, t) \in Resource
  BY ViewFacts
<1> HIDE DEF v
<1>2. m.tasks = in.tasks /\ m.deps = in.deps /\ m.base = Nothing /\ m.max = v.max
  BY <1>1 DEF Question
<1>3. IsResourceMap(Nothing)
  BY DEF IsResourceMap, Nothing
<1>4. IsManifest(m)
  BY <1>1, <1>2, <1>3 DEF IsManifest, IsInput
<1>5. Statuses(v) \in [TaskNames -> TaskStatus] /\ \A t \in TaskNames : Statuses(v)[t].phase = in.phase[t]
  BY <1>1 DEF Statuses, TaskStatus, IsInput
<1>6. AllResources(Needs(v), TaskNames) /\ IsResourceMap(Needs(v)) /\ DOMAIN Needs(v) = TaskNames
  BY <1>1 DEF AllResources, IsResourceMap, Needs
<1>7. Needs(v) = [t \in TaskNames |-> resolveResources(m, Needs(v), t)]
  BY <1>6 DEF resolveResources, Needs
<1>8. Ready(m, Statuses(v)) = Ready(v, Statuses(v)) /\ \A t, u : Before(m, t, u) <=> Before(v, t, u)
  BY <1>1, <1>2 DEF Ready, Tasks, Before
<1>9. ASSUME NEW i \in DOMAIN v.tasks
      PROVE  /\ v.tasks[i] \in TaskNames
             /\ Startable(v, v.tasks[i]) <=> v.tasks[i] \in Ready(v, Statuses(v))
  <2>1. v.tasks[i] \in TaskNames
    BY <1>1 DEF IsInput
  <2>2. v.deps[v.tasks[i]] \in SUBSET TaskNames
    BY <1>1, <2>1 DEF IsInput
  <2>3. v.tasks[i] \in Tasks(v)
    BY DEF Tasks
  <2>4. v.deps[v.tasks[i]] \subseteq InPhase(Statuses(v), "Succeeded")
           <=> \A d \in v.deps[v.tasks[i]] : v.phase[d] = "Succeeded"
    BY <1>1, <1>5, <2>2 DEF InPhase
  <2>5. Statuses(v)[v.tasks[i]].phase = v.phase[v.tasks[i]]
    BY <1>1, <1>5, <2>1
  <2>6. QED
    BY <2>1, <2>3, <2>4, <2>5 DEF Startable, Ready
<1>10. ResourceUsage(Statuses(v)) \in Resource
  BY <1>5, UsageType
<1>11. QED
  BY <1>4, <1>5, <1>6, <1>7, <1>8, <1>9, <1>10 DEF v

-----------------------------------------------------------------------------
(***************************************************************************)
(* Types.                                                                  *)
(***************************************************************************)

\* The loop stands at a task of the input.
LEMMA LoopAt ==
    ASSUME TypeOK, NEW s \in Servers, Looping(s)
    PROVE  /\ view[s] = View(s, input)
           /\ view[s].tasks = input.tasks
           /\ next[s] \in DOMAIN view[s].tasks /\ next[s] \in Nat
           /\ next[s] + 1 \in 1..(Len(input.tasks) + 1)
           /\ view[s].tasks[next[s]] \in TaskNames
<1>1. view[s] = View(s, input) /\ IsInput(input) /\ next[s] \in 1..(Len(input.tasks) + 1)
  BY DEF TypeOK
<1>2. view[s].tasks = input.tasks
  BY <1>1, ViewFacts
<1>3. input.tasks \in Seq(TaskNames) /\ Len(input.tasks) \in Nat /\ DOMAIN input.tasks = 1..Len(input.tasks)
  BY <1>1 DEF IsInput
<1>4. next[s] <= Len(input.tasks)
  BY DEF Looping
<1>5. next[s] \in 1..Len(input.tasks) /\ next[s] \in Nat /\ next[s] + 1 \in 1..(Len(input.tasks) + 1)
  BY <1>1, <1>3, <1>4
<1>6. view[s].tasks[next[s]] \in TaskNames
  BY <1>2, <1>3, <1>5
<1>7. QED
  BY <1>1, <1>2, <1>3, <1>5, <1>6

\* Every input is answered with requirements for tasks of the input.
THEOREM TypeCorrect == Spec => []TypeOK
<1>1. Init => TypeOK
  <2> SUFFICES ASSUME Init PROVE TypeOK
    OBVIOUS
  <2>1. IsInput(input) /\ view = [s \in Servers |-> View(s, input)]
    BY OptimizersAssumption DEF Init
  <2>2. Len(input.tasks) \in Nat
    BY <2>1 DEF IsInput
  <2>3. 1 \in 1..(Len(input.tasks) + 1)
    BY <2>2
  <2>4. \A s \in Servers : ResourceUsage(Statuses(view[s])) \in Resource
    BY <2>1, ModelFacts
  <2>5. current \in [Servers -> Resource] /\ next \in [Servers -> 1..(Len(input.tasks) + 1)]
    BY <2>3, <2>4 DEF Init
  <2>6. /\ state \in [Servers -> {"asked", "answered", "error"}]
        /\ chosen \in [Servers -> SUBSET TaskNames]
        /\ DOMAIN answer = Servers
    BY DEF Init
  <2>7. \A s \in Servers : state[s] = "asked" /\ DOMAIN answer[s] = {}
    BY DEF Init
  <2>8. QED
    BY <2>1, <2>5, <2>6, <2>7 DEF TypeOK
<1>2. TypeOK /\ [Next]_vars => TypeOK'
  <2> SUFFICES ASSUME TypeOK, [Next]_vars PROVE TypeOK'
    OBVIOUS
  <2>1. ASSUME NEW s \in Servers, Skip(s) PROVE TypeOK'
    <3>1. next' = [next EXCEPT ![s] = @ + 1] /\ UNCHANGED <<input, view, state, current, chosen, answer>>
      BY <2>1 DEF Skip
    <3>2. next[s] + 1 \in 1..(Len(input.tasks) + 1)
      BY <2>1, LoopAt DEF Skip
    <3>3. next' \in [Servers -> 1..(Len(input.tasks) + 1)]
      BY <3>1, <3>2 DEF TypeOK
    <3>4. QED
      BY <3>1, <3>3 DEF TypeOK
  <2>2. ASSUME NEW s \in Servers, Take(s) PROVE TypeOK'
    <3> DEFINE v == view[s]
               t == v.tasks[next[s]]
    <3>1. /\ next' = [next EXCEPT ![s] = @ + 1]
          /\ current' = [current EXCEPT ![s] = Plus(@, Need(v, t))]
          /\ chosen' = [chosen EXCEPT ![s] = @ \cup {t}]
          /\ UNCHANGED <<input, view, state, answer>>
      BY <2>2 DEF Take
    <3>2. next[s] + 1 \in 1..(Len(input.tasks) + 1) /\ t \in TaskNames /\ v = View(s, input)
      BY <2>2, LoopAt DEF Take
    <3>3. next' \in [Servers -> 1..(Len(input.tasks) + 1)]
      BY <3>1, <3>2 DEF TypeOK
    <3>4. Plus(current[s], Need(v, t)) \in Resource
      <4>1. Need(v, t) \in Resource /\ current[s] \in Resource
        BY <3>2, ViewFacts DEF TypeOK
      <4>2. QED
        BY <4>1, PlusFacts
    <3>5. current' \in [Servers -> Resource]
      BY <3>1, <3>4 DEF TypeOK
    <3>6. chosen' \in [Servers -> SUBSET TaskNames]
      BY <3>1, <3>2 DEF TypeOK
    <3>7. state[s] = "asked"
      BY <2>2 DEF Take, Looping
    <3>8. \A r \in Servers : DOMAIN answer[r] = IF state[r] = "answered" THEN chosen'[r] ELSE {}
      BY <3>1, <3>7 DEF TypeOK
    <3>9. QED
      BY <3>1, <3>3, <3>5, <3>6, <3>8 DEF TypeOK
  <2>3. ASSUME NEW s \in Servers, Answer(s) PROVE TypeOK'
    <3>1. /\ state' = [state EXCEPT ![s] = "answered"]
          /\ answer' = [answer EXCEPT ![s] = [t \in chosen[s] |-> Received(s, view[s].give[t])]]
          /\ UNCHANGED <<input, view, next, current, chosen>>
      BY <2>3 DEF Answer
    <3>2. state' \in [Servers -> {"asked", "answered", "error"}] /\ DOMAIN answer' = Servers
      BY <3>1 DEF TypeOK
    <3>3. \A t \in chosen[s] : IsRequirement(Received(s, view[s].give[t]))
      <4>1. view[s] = View(s, input) /\ IsInput(input) /\ chosen[s] \subseteq TaskNames
        BY DEF TypeOK
      <4>2. QED
        BY <4>1, ViewFacts
    <3>4. ASSUME NEW r \in Servers
          PROVE  /\ DOMAIN answer'[r] = IF state'[r] = "answered" THEN chosen'[r] ELSE {}
                 /\ \A t \in DOMAIN answer'[r] : IsRequirement(answer'[r][t])
      <4>1. CASE r = s
        BY <3>1, <3>3, <4>1 DEF TypeOK
      <4>2. CASE r # s
        BY <3>1, <4>2 DEF TypeOK
      <4>3. QED
        BY <4>1, <4>2
    <3>5. QED
      BY <3>1, <3>2, <3>4 DEF TypeOK
  <2>4. ASSUME NEW s \in Servers, CallError(s) PROVE TypeOK'
    <3>1. /\ state[s] = "asked" /\ state' = [state EXCEPT ![s] = "error"]
          /\ UNCHANGED <<input, view, next, current, chosen, answer>>
      BY <2>4 DEF CallError
    <3>2. /\ state' \in [Servers -> {"asked", "answered", "error"}]
          /\ \A r \in Servers : state'[r] = "answered" <=> state[r] = "answered"
      BY <3>1 DEF TypeOK
    <3>3. QED
      BY <3>1, <3>2 DEF TypeOK
  <2>5. CASE UNCHANGED vars
    BY <2>5 DEF vars, TypeOK
  <2>6. QED
    BY <2>1, <2>2, <2>3, <2>4, <2>5 DEF Next
<1>3. QED
  BY <1>1, <1>2, PTL DEF Spec
-----------------------------------------------------------------------------
(***************************************************************************)
(* The loop.                                                               *)
(***************************************************************************)

\* The loop that stands at the i-th task t: t is none of those before it, all of
\* them come before it, and it comes before none of them.
LEMMA PlaceFacts ==
    ASSUME NEW v, v.tasks \in Seq(TaskNames), NEW i \in DOMAIN v.tasks,
           \A j, k \in DOMAIN v.tasks : v.tasks[j] = v.tasks[k] => j = k
    PROVE  LET t    == v.tasks[i]
               seen == {v.tasks[j] : j \in 1..(i - 1)}
           IN  /\ t \notin seen
               /\ \A u \in seen : Before(v, u, t) /\ ~Before(v, t, u)
               /\ ~Before(v, t, t)
               /\ {v.tasks[j] : j \in 1..((i + 1) - 1)} = seen \cup {t}
<1>1. Len(v.tasks) \in Nat /\ DOMAIN v.tasks = 1..Len(v.tasks) /\ i \in 1..Len(v.tasks)
  OBVIOUS
<1>2. 1..(i - 1) \subseteq DOMAIN v.tasks /\ \A j \in 1..(i - 1) : j < i
  BY <1>1
<1>3. 1..((i + 1) - 1) = 1..(i - 1) \cup {i}
  BY <1>1
<1>4. \A j, k \in DOMAIN v.tasks : j < k => ~(k < j) /\ j # k
  BY <1>1
<1>5. v.tasks[i] \notin {v.tasks[j] : j \in 1..(i - 1)}
  BY <1>2, <1>4
<1>6. \A u \in {v.tasks[j] : j \in 1..(i - 1)} : Before(v, u, v.tasks[i]) /\ ~Before(v, v.tasks[i], u)
  BY <1>2, <1>4 DEF Before
<1>7. ~Before(v, v.tasks[i], v.tasks[i])
  BY <1>4 DEF Before
<1>8. QED
  BY <1>3, <1>5, <1>6, <1>7

\* A loop that does not move keeps what it has.
LEMMA LoopUnmoved ==
    ASSUME NEW s \in Servers, LoopKept(s), UNCHANGED <<input, view>>,
           UNCHANGED <<next[s], current[s], chosen[s], answer[s]>>,
           Answered(s)' => Answered(s)
    PROVE  LoopKept(s)'
BY DEF LoopKept

\* Skipping a task that is not ready or does not fit.
LEMMA LoopSkip ==
    ASSUME TypeOK, NEW s \in Servers, LoopKept(s), Skip(s)
    PROVE  LoopKept(s)'
<1> DEFINE v == view[s]
           t == v.tasks[next[s]]
           ts == Statuses(v)
           usage == ResourceUsage(ts)
           seen == {v.tasks[i] : i \in 1..(next[s] - 1)}
<1>1. next'[s] = next[s] + 1 /\ UNCHANGED <<input, view, state, current, chosen, answer>>
  BY DEF Skip, TypeOK
<1>2. Looping(s) /\ ~(Startable(v, t) /\ Fits(s, v, t))
  BY DEF Skip
<1>3. v = View(s, input) /\ next[s] \in DOMAIN v.tasks /\ v.tasks = input.tasks /\ IsInput(input)
  BY <1>2, LoopAt DEF TypeOK
<1>4. /\ t \notin seen
      /\ \A u \in seen : Before(v, u, t) /\ ~Before(v, t, u)
      /\ {v.tasks[j] : j \in 1..((next[s] + 1) - 1)} = seen \cup {t}
  <2> DEFINE i == next[s]
  <2>1. /\ v.tasks \in Seq(TaskNames) /\ i \in DOMAIN v.tasks
        /\ \A j, k \in DOMAIN v.tasks : v.tasks[j] = v.tasks[k] => j = k
    BY <1>3 DEF IsInput
  <2> HIDE DEF v, i
  <2>2. QED
    BY <2>1, PlaceFacts DEF i
<1>5. Startable(v, t) <=> t \in Ready(v, ts)
  BY <1>3, ModelFacts
<1>6. chosen[s] \subseteq seen
  BY DEF LoopKept
<1>7. t \in Ready(v, ts) => {u \in chosen[s] : Before(v, u, t)} = chosen[s]
  BY <1>4, <1>6
<1>8. t \in Ready(v, ts) =>
         ~Within(v.max, Plus(Plus(usage, Total(Needs(v), {u \in chosen[s] : Before(v, u, t)})), Need(v, t)))
  BY <1>2, <1>5, <1>7 DEF Fits, LoopKept
<1>9. t \notin chosen[s]
  BY <1>4, <1>6
<1>10. state[s] # "answered"
  BY <1>2 DEF Looping
<1>11. seen' = seen \cup {t}
  <2>0. view' = view /\ next'[s] = next[s] + 1
    BY <1>1
  <2>1. seen' = {v.tasks[j] : j \in 1..((next[s] + 1) - 1)}
    BY <2>0, Zenon
  <2>2. QED
    BY <1>4, <2>1
<1>12. \A x \in (seen \cup {t}) \cap Ready(v, ts) :
          x \in chosen[s] <=>
             Within(v.max, Plus(Plus(usage, Total(Needs(v), {u \in chosen[s] : Before(v, u, x)})), Need(v, x)))
  BY <1>8, <1>9 DEF LoopKept
<1> HIDE DEF t
<1>13. QED
  BY <1>1, <1>10, <1>11, <1>12 DEF LoopKept, Answered

\* Taking a task that is ready and fits.
LEMMA LoopTake ==
    ASSUME TypeOK, NEW s \in Servers, LoopKept(s), Take(s)
    PROVE  LoopKept(s)'
<1> DEFINE v == view[s]
           t == v.tasks[next[s]]
           ts == Statuses(v)
           usage == ResourceUsage(ts)
           seen == {v.tasks[i] : i \in 1..(next[s] - 1)}
           C == chosen[s]
<1>1. /\ next'[s] = next[s] + 1 /\ UNCHANGED <<input, view, state, answer>>
      /\ current'[s] = Plus(current[s], Need(v, t))
      /\ chosen'[s] = C \cup {t}
  BY DEF Take, TypeOK
<1>2. Looping(s) /\ Startable(v, t) /\ Fits(s, v, t)
  BY DEF Take
<1>3. /\ v = View(s, input) /\ next[s] \in DOMAIN v.tasks /\ v.tasks = input.tasks /\ IsInput(input)
      /\ t \in TaskNames /\ C \in SUBSET TaskNames
  BY <1>2, LoopAt DEF TypeOK
<1>4. /\ t \notin seen
      /\ \A u \in seen : Before(v, u, t) /\ ~Before(v, t, u)
      /\ ~Before(v, t, t)
      /\ {v.tasks[j] : j \in 1..((next[s] + 1) - 1)} = seen \cup {t}
  <2> DEFINE i == next[s]
  <2>1. /\ v.tasks \in Seq(TaskNames) /\ i \in DOMAIN v.tasks
        /\ \A j, k \in DOMAIN v.tasks : v.tasks[j] = v.tasks[k] => j = k
    BY <1>3 DEF IsInput
  <2> HIDE DEF v, i
  <2>2. QED
    BY <2>1, PlaceFacts DEF i
<1>5. t \in Ready(v, ts)
  BY <1>2, <1>3, ModelFacts
<1>6. C \subseteq seen \cap Ready(v, ts)
  BY DEF LoopKept
<1>7. {u \in C \cup {t} : Before(v, u, t)} = C /\ t \notin C
  BY <1>4, <1>6
<1>8. \A x \in seen : {u \in C \cup {t} : Before(v, u, x)} = {u \in C : Before(v, u, x)}
  BY <1>4
<1>9. usage \in Resource /\ AllResources(Needs(v), TaskNames) /\ Needs(v)[t] = Need(v, t)
  BY <1>3, ModelFacts DEF Needs
<1>10. Plus(current[s], Need(v, t)) = Plus(usage, Total(Needs(v), C \cup {t}))
  <2>1. IsFiniteSet(C) /\ AllResources(Needs(v), C) /\ AllResources(Needs(v), C \cup {t})
    BY <1>3, <1>9, FS_Subset, ManifestAssumption DEF AllResources
  <2>2. Total(Needs(v), C \cup {t}) = Plus(Needs(v)[t], Total(Needs(v), C))
    BY <1>7, <2>1, TotalAdd
  <2>3. Total(Needs(v), C) \in Resource /\ Need(v, t) \in Resource
    BY <1>3, <1>9, <2>1, TotalType DEF AllResources
  <2>4. current[s] = Plus(usage, Total(Needs(v), C))
    BY DEF LoopKept
  <2> DEFINE a == usage
             b == Total(Needs(v), C)
             c == Need(v, t)
  <2> HIDE DEF a, b, c
  <2>5. a \in Resource /\ b \in Resource /\ c \in Resource
    BY <1>9, <2>3 DEF a, b, c
  <2>6. Plus(Plus(a, b), c) = Plus(a, Plus(c, b))
    BY <2>5, PlusAssociates, PlusFacts
  <2>7. QED
    BY <1>9, <2>2, <2>4, <2>6 DEF a, b, c
<1>11. Within(v.max, Plus(Plus(usage, Total(Needs(v), C)), Need(v, t)))
  BY <1>2 DEF Fits, LoopKept
<1>12. state[s] # "answered"
  BY <1>2 DEF Looping
<1>13. seen' = seen \cup {t}
  <2>0. view' = view /\ next'[s] = next[s] + 1
    BY <1>1
  <2>1. seen' = {v.tasks[j] : j \in 1..((next[s] + 1) - 1)}
    BY <2>0, Zenon
  <2>2. QED
    BY <1>4, <2>1
<1>14. \A x \in (seen \cup {t}) \cap Ready(v, ts) :
          x \in C \cup {t} <=>
             Within(v.max, Plus(Plus(usage, Total(Needs(v), {u \in C \cup {t} : Before(v, u, x)})), Need(v, x)))
  <2>1. ASSUME NEW x \in seen \cap Ready(v, ts)
        PROVE  x \in C \cup {t} <=>
                  Within(v.max, Plus(Plus(usage, Total(Needs(v), {u \in C \cup {t} : Before(v, u, x)})), Need(v, x)))
    BY <1>4, <1>8 DEF LoopKept
  <2>2. Within(v.max, Plus(Plus(usage, Total(Needs(v), {u \in C \cup {t} : Before(v, u, t)})), Need(v, t)))
    BY <1>7, <1>11
  <2> HIDE DEF t, seen, C
  <2>3. QED
    BY <2>1, <2>2
<1>15. C \cup {t} \subseteq (seen \cup {t}) \cap Ready(v, ts)
  BY <1>5, <1>6
<1>16. ~Answered(s)' /\ UNCHANGED <<v, ts, usage>>
  BY <1>1, <1>12 DEF Answered
<1>17. \A x \in DOMAIN answer'[s] : answer'[s][x] = Received(s, v.give[x])
  BY <1>1 DEF LoopKept
<1> HIDE DEF t, seen
<1>18. /\ current'[s] = Plus(usage', Total(Needs(v'), chosen'[s]))
       /\ chosen'[s] \subseteq seen' \cap Ready(v', ts')
       /\ \A x \in seen' \cap Ready(v', ts') :
             x \in chosen'[s] <=>
                Within(v'.max, Plus(Plus(usage', Total(Needs(v'), {u \in chosen'[s] : Before(v', u, x)})), Need(v', x)))
  <2> HIDE DEF v, ts, usage, C
  <2>1. QED
    BY <1>1, <1>10, <1>13, <1>14, <1>15, <1>16
<1>19. QED
  BY <1>16, <1>17, <1>18 DEF LoopKept, seen

\* Answering what was taken.
LEMMA LoopAnswer ==
    ASSUME TypeOK, NEW s \in Servers, LoopKept(s), Answer(s)
    PROVE  LoopKept(s)'
<1>1. /\ next[s] > Len(input.tasks) /\ UNCHANGED <<input, view, next, current, chosen>>
      /\ answer'[s] = [t \in chosen[s] |-> Received(s, view[s].give[t])]
  BY DEF Answer, TypeOK
<1>2. \A t \in DOMAIN answer'[s] : answer'[s][t] = Received(s, view[s].give[t])
  BY <1>1
<1>3. QED
  BY <1>1, <1>2 DEF LoopKept

\* At every step of the three loops the running totals are those of the running
\* tasks and of the tasks taken, and each ready task looked at was taken exactly
\* if it fitted next to those taken before it.
THEOREM LoopsKeep == Spec => []LoopInvariant
<1>1. Init => LoopInvariant
  <2> SUFFICES ASSUME Init, NEW s \in Servers PROVE LoopKept(s)
    BY DEF LoopInvariant
  <2>1. /\ state[s] = "asked" /\ next[s] = 1 /\ chosen[s] = {} /\ DOMAIN answer[s] = {}
        /\ current[s] = ResourceUsage(Statuses(view[s]))
        /\ view[s] = View(s, input) /\ IsInput(input)
    BY OptimizersAssumption DEF Init
  <2>2. ResourceUsage(Statuses(view[s])) \in Resource
    BY <2>1, ModelFacts
  <2>3. current[s] = Plus(ResourceUsage(Statuses(view[s])), Total(Needs(view[s]), {}))
    BY <2>1, <2>2, TotalEmpty, PlusFacts DEF NoResource, Resource
  <2>4. 1..(next[s] - 1) = {}
    BY <2>1
  <2>5. QED
    BY <2>1, <2>3, <2>4 DEF LoopKept, Answered
<1>2. TypeOK /\ LoopInvariant /\ [Next]_vars => LoopInvariant'
  <2> SUFFICES ASSUME TypeOK, LoopInvariant, [Next]_vars, NEW r \in Servers
               PROVE  LoopKept(r)'
    BY DEF LoopInvariant, Servers
  <2>0. LoopKept(r)
    BY DEF LoopInvariant
  <2>1. ASSUME NEW s \in Servers, Skip(s) PROVE LoopKept(r)'
    <3>1. CASE r = s
      BY <2>0, <2>1, <3>1, LoopSkip
    <3>2. CASE r # s
      BY <2>0, <2>1, <3>2, LoopUnmoved DEF Skip, TypeOK, Answered
    <3>3. QED
      BY <3>1, <3>2
  <2>2. ASSUME NEW s \in Servers, Take(s) PROVE LoopKept(r)'
    <3>1. CASE r = s
      BY <2>0, <2>2, <3>1, LoopTake
    <3>2. CASE r # s
      BY <2>0, <2>2, <3>2, LoopUnmoved DEF Take, TypeOK, Answered
    <3>3. QED
      BY <3>1, <3>2
  <2>3. ASSUME NEW s \in Servers, Answer(s) PROVE LoopKept(r)'
    <3>1. CASE r = s
      BY <2>0, <2>3, <3>1, LoopAnswer
    <3>2. CASE r # s
      BY <2>0, <2>3, <3>2, LoopUnmoved DEF Answer, TypeOK, Answered
    <3>3. QED
      BY <3>1, <3>2
  <2>4. ASSUME NEW s \in Servers, CallError(s) PROVE LoopKept(r)'
    BY <2>0, <2>4, LoopUnmoved DEF CallError, TypeOK, Answered
  <2>5. CASE UNCHANGED vars
    BY <2>0, <2>5, LoopUnmoved DEF vars, Answered
  <2>6. QED
    BY <2>1, <2>2, <2>3, <2>4, <2>5 DEF Next
<1>3. QED
  BY <1>1, <1>2, TypeCorrect, PTL DEF Spec
-----------------------------------------------------------------------------
(***************************************************************************)
(* The answers.                                                            *)
(***************************************************************************)

\* A loop that has looked at all tasks has computed the greedy schedule.
LEMMA DoneIsGreedy ==
    ASSUME TypeOK, LoopInvariant
    PROVE  LoopIsGreedy
<1> SUFFICES ASSUME NEW s \in Servers, Answered(s)
             PROVE  IsGreedyPlan(Question(view[s]), Statuses(view[s]), Needs(view[s]), chosen[s])
  BY DEF LoopIsGreedy
<1> DEFINE v == view[s]
           m == Question(v)
           ts == Statuses(v)
           seen == {v.tasks[i] : i \in 1..(next[s] - 1)} \cap Ready(v, ts)
<1>1. v = View(s, input) /\ IsInput(input) /\ v.tasks = input.tasks
  BY ViewFacts DEF TypeOK
<1>2. LoopKept(s)
  BY DEF LoopInvariant
<1>3. seen = Ready(v, ts)
  <2>1. input.tasks \in Seq(TaskNames) /\ Len(input.tasks) \in Nat /\ DOMAIN input.tasks = 1..Len(input.tasks)
    BY <1>1 DEF IsInput
  <2>2. next[s] > Len(input.tasks) /\ next[s] \in 1..(Len(input.tasks) + 1)
    BY <1>2 DEF LoopKept, TypeOK
  <2>3. next[s] - 1 = Len(input.tasks)
    BY <2>1, <2>2
  <2>4. QED
    BY <1>1, <2>1, <2>3 DEF Ready, Tasks
<1>4. /\ Ready(m, ts) = Ready(v, ts)
      /\ \A t, u : Before(m, t, u) <=> Before(v, t, u)
      /\ Needs(v) = [t \in TaskNames |-> resolveResources(m, Needs(v), t)]
      /\ Ready(v, ts) \subseteq TaskNames
  <2>1. Ready(v, ts) \subseteq TaskNames
    BY <1>1 DEF Ready, Tasks, IsInput
  <2>2. QED
    BY <1>1, <2>1, ModelFacts
<1>5. m.max = v.max
  BY DEF Question
<1>6. \A t \in Ready(v, ts) : Need(v, t) = Needs(v)[t]
  BY <1>4 DEF Needs
<1>7. /\ chosen[s] \subseteq Ready(v, ts)
      /\ \A t \in Ready(v, ts) :
            t \in chosen[s] <=>
               Within(v.max, Plus(Plus(ResourceUsage(ts), Total(Needs(v), {u \in chosen[s] : Before(v, u, t)})),
                                  Need(v, t)))
  BY <1>2, <1>3 DEF LoopKept
<1>8. \A t : {u \in chosen[s] : Before(m, u, t)} = {u \in chosen[s] : Before(v, u, t)}
  BY <1>4
<1> DEFINE need == [t \in TaskNames |-> resolveResources(m, Needs(v), t)]
<1>9. /\ chosen[s] \subseteq Ready(m, ts)
      /\ \A t \in Ready(m, ts) :
            t \in chosen[s] <=>
               Within(m.max, Plus(Plus(ResourceUsage(ts), Total(need, {u \in chosen[s] : Before(m, u, t)})), need[t]))
  <2>1. need = Needs(v)
    BY <1>4
  <2> HIDE DEF need, m, v, ts
  <2>2. QED
    BY <1>4, <1>5, <1>6, <1>7, <1>8, <2>1
<1>10. QED
  BY <1>9 DEF IsGreedyPlan

\* Each of the three loops answers with the greedy schedule of its question.
THEOREM LoopsAreGreedy == Spec => []LoopIsGreedy
BY TypeCorrect, LoopsKeep, DoneIsGreedy, PTL

-----------------------------------------------------------------------------
\* What the controller receives as a request is what the server's loop counted,
\* in the controller's unit.
LEMMA RequestsFacts ==
    ASSUME TypeOK, LoopInvariant, NEW s \in Servers, Answered(s), NEW t \in chosen[s]
    PROVE  /\ t \in TaskNames
           /\ DOMAIN answer[s] = chosen[s] /\ answer[s][t] = Received(s, View(s, input).give[t])
           /\ Requests(s)[t] =
                 IF s = "cpp" THEN Times(Needs(view[s])[t], Unit) ELSE Needs(view[s])[t]
<1>1. view[s] = View(s, input) /\ IsInput(input) /\ DOMAIN answer[s] = chosen[s] /\ t \in TaskNames
  BY DEF TypeOK, Answered
<1>2. answer[s][t] = Received(s, view[s].give[t])
  BY <1>1 DEF LoopInvariant, LoopKept
<1>3. Requests(s)[t] = Amount(answer[s][t].req) /\ Needs(view[s])[t] = Amount(view[s].give[t].req)
  BY <1>1 DEF Requests, Needs, Need
<1>4. CASE s = "local"
  BY <1>1, <1>2, <1>3, <1>4 DEF Received
<1>5. CASE s = "go"
  <2>1. answer[s][t].req = Quantity(Wire(view[s].give[t].req))
    BY <1>2, <1>5 DEF Received, FromResponse, GoResponse
  <2> DEFINE p == protoToInput(PlanRequest(input))
  <2>2. view[s].give[t] = GoResolve(p, t)
    BY <1>1, <1>5 DEF View, GoView
  <2>3. Sent(input, t) \in Resource
    BY <1>1, InputFacts
  <2>4. PICK w \in Resource : view[s].give[t].req = Quantity(w)
    <3>1. DefaultRequirement.req = Quantity(DefaultResources) /\ DefaultResources \in Resource
      BY DefaultFacts DEF DefaultRequirement
    <3> HIDE DEF p
    <3>2. QED
      BY <1>1, <2>2, <2>3, <3>1, GoServerView DEF p
  <2>5. answer[s][t].req = Quantity(w) /\ Amount(Quantity(w)) = Quantity(w)
    BY <2>1, <2>4, QuantityFacts
  <2>6. QED
    BY <1>1, <1>2, <1>3, <1>5, <2>4, <2>5
<1>6. CASE s = "cpp"
  <2>1. answer[s][t].req = Quantity(view[s].give[t].req)
    BY <1>2, <1>6 DEF Received, FromResponse
  <2>2. view[s].give[t] = CppResolve(PlanRequest(input), t)
    BY <1>1, <1>6 DEF View, CppView
  <2>3. view[s].give[t].req \in Resource
    BY <1>1, <2>2, CppServerView
  <2>4. Amount(view[s].give[t].req) = view[s].give[t].req
    BY <2>3, AmountFacts
  <2>5. Amount(answer[s][t].req) = Times(view[s].give[t].req, Unit)
    BY <2>1, <2>3, QuantityFacts
  <2>6. QED
    BY <1>1, <1>2, <1>3, <1>6, <2>4, <2>5
<1>7. QED
  BY <1>4, <1>5, <1>6 DEF Servers
-----------------------------------------------------------------------------
(***************************************************************************)
(* The budget.                                                             *)
(***************************************************************************)

\* What the running tasks hold, as written and as it is after the wire.
Held(in) ==
    [t \in TaskNames |-> IF in.phase[t] = "Running" THEN Amount(in.alloc[t]) ELSE NoResource]

HeldRounded(in) ==
    [t \in TaskNames |-> IF in.phase[t] = "Running" THEN Quantity(Wire(in.alloc[t])) ELSE NoResource]

\* They are resources.
LEMMA HeldType ==
    ASSUME NEW in, IsInput(in)
    PROVE  /\ AllResources(Held(in), TaskNames) /\ Total(Held(in), TaskNames) \in Resource
           /\ AllResources(HeldRounded(in), TaskNames) /\ Total(HeldRounded(in), TaskNames) \in Resource
<1>1. \A t \in TaskNames : Amount(in.alloc[t]) \in Resource /\ Quantity(Wire(in.alloc[t])) \in Resource
  BY InputFacts, AmountFacts, QuantityFacts
<1>2. AllResources(Held(in), TaskNames) /\ AllResources(HeldRounded(in), TaskNames)
  BY <1>1, AmountFacts DEF AllResources, Held, HeldRounded
<1>3. QED
  BY <1>2, TotalType, ManifestAssumption

\* What the controller receives are resources, too.
LEMMA RequestsType ==
    ASSUME TypeOK, LoopInvariant, NEW s \in Servers, Answered(s)
    PROVE  /\ IsFiniteSet(chosen[s]) /\ chosen[s] \in SUBSET TaskNames
           /\ AllResources(Needs(view[s]), chosen[s]) /\ Total(Needs(view[s]), chosen[s]) \in Resource
           /\ AllResources(Requests(s), chosen[s]) /\ Total(Requests(s), chosen[s]) \in Resource
<1>1. view[s] = View(s, input) /\ IsInput(input) /\ chosen[s] \in SUBSET TaskNames
  BY DEF TypeOK
<1>2. IsFiniteSet(chosen[s])
  BY <1>1, FS_Subset, ManifestAssumption
<1>3. AllResources(Needs(view[s]), chosen[s])
  BY <1>1, ModelFacts DEF AllResources
<1>4. ASSUME NEW t \in chosen[s]
      PROVE  Requests(s)[t] \in Resource
  <2>1. Needs(view[s])[t] \in Resource /\ Unit \in Nat
    BY <1>3, UnitAssumption DEF AllResources
  <2>2. Times(Needs(view[s])[t], Unit) \in Resource
    BY <2>1, TimesFacts
  <2>3. QED
    BY <2>1, <2>2, RequestsFacts
<1>5. AllResources(Requests(s), chosen[s])
  BY <1>4 DEF AllResources
<1>6. QED
  BY <1>1, <1>2, <1>3, <1>5, TotalType

\* What a server's loop has taken fits its budget.
LEMMA LoopBudget ==
    ASSUME TypeOK, LoopInvariant, NEW s \in Servers, Answered(s), chosen[s] # {}
    PROVE  LET v == view[s]
           IN  Within(v.max, Plus(ResourceUsage(Statuses(v)), Total(Needs(v), chosen[s])))
<1> DEFINE v == view[s]
           m == Question(v)
           need == [t \in TaskNames |-> resolveResources(m, Needs(v), t)]
<1>1. v = View(s, input) /\ IsInput(input)
  BY DEF TypeOK
<1>2. /\ IsManifest(m) /\ Statuses(v) \in [TaskNames -> TaskStatus] /\ IsResourceMap(Needs(v))
      /\ need = Needs(v)
  BY <1>1, ModelFacts
<1>3. IsGreedyPlan(m, Statuses(v), Needs(v), chosen[s])
  BY DoneIsGreedy DEF LoopIsGreedy
<1>4. m.max = v.max
  BY DEF Question
<1>5. Within(m.max, Plus(ResourceUsage(Statuses(v)), Total(need, chosen[s])))
  <2> HIDE DEF m, v
  <2>1. QED
    BY <1>2, <1>3, TakenFits
<1>6. QED
  BY <1>2, <1>4, <1>5

\* The in-process optimizer counts what the user wrote and the pods request.
LEMMA LocalBudget ==
    ASSUME TypeOK, LoopInvariant, Answered("local"), chosen["local"] # {}
    PROVE  Within(Amount(input.max),
                  Plus(Total(Held(input), TaskNames), Total(Requests("local"), chosen["local"])))
<1> DEFINE v == view["local"]
<1>0. "local" \in Servers
  BY DEF Servers
<1>1. v = GoView(input) /\ IsInput(input)
  BY <1>0 DEF TypeOK, View
<1>2. v.max = Amount(input.max)
  BY <1>1 DEF GoView
<1>3. \A t \in TaskNames : RunningAllocations(Statuses(v))[t] = Held(input)[t]
  BY <1>1 DEF RunningAllocations, Statuses, Held, GoView
<1>4. ResourceUsage(Statuses(v)) = Total(Held(input), TaskNames)
  BY <1>3, TotalSame, ManifestAssumption DEF ResourceUsage
<1>5. \A t \in chosen["local"] : Needs(v)[t] = Requests("local")[t]
  BY <1>0, RequestsFacts
<1>6. Total(Needs(v), chosen["local"]) = Total(Requests("local"), chosen["local"])
  <2>1. IsFiniteSet(chosen["local"])
    BY <1>0, RequestsType
  <2>2. QED
    BY <1>5, <2>1, TotalSame
<1>7. QED
  BY <1>0, <1>2, <1>4, <1>6, LoopBudget

\* The servers count what came over the wire, against the maximum that did.
LEMMA ServerBudget ==
    ASSUME TypeOK, LoopInvariant, NEW s \in Servers, s # "local", Answered(s), chosen[s] # {}
    PROVE  Within(Quantity(Wire(input.max)),
                  Plus(Total(HeldRounded(input), TaskNames), Total(Requests(s), chosen[s])))
<1> DEFINE v == view[s]
           use == ResourceUsage(Statuses(v))
           got == Total(Needs(v), chosen[s])
<1>1. v = View(s, input) /\ IsInput(input) /\ IsList(input.max)
  BY DEF TypeOK, IsInput
<1>2. Within(v.max, Plus(use, got))
  BY LoopBudget
<1>3. Unit \in Nat /\ Wire(input.max) \in Resource
  BY <1>1, UnitAssumption, AmountFacts
<1>4. AllResources(RunningAllocations(Statuses(v)), TaskNames) /\ use \in Resource /\ got \in Resource
  BY <1>1, ModelFacts, UsageType, RequestsType
<1>5. CASE s = "go"
  <2> DEFINE p == protoToInput(PlanRequest(input))
  <2>1. v = GoView(p)
    BY <1>1, <1>5 DEF View
  <2>2. p.phase = input.phase
    BY DEF protoToInput, PlanRequest
  <2>3. v.max = Amount(p.max) /\ v.phase = input.phase /\ \A t \in TaskNames : v.alloc[t] = Amount(p.alloc[t])
    BY <2>1, <2>2 DEF GoView
  <2>4. \A t \in TaskNames : v.alloc[t] = Quantity(Wire(input.alloc[t]))
    <3> TAKE t \in TaskNames
    <3>1. Amount(p.alloc[t]) = Quantity(Wire(input.alloc[t]))
      BY <1>1, GoServerView
    <3>2. QED
      BY <2>3, <3>1
  <2>5. v.max = Quantity(Wire(input.max))
    <3>1. chosen[s] \in SUBSET TaskNames
      BY RequestsType
    <3>2. PICK t \in TaskNames : TRUE
      BY <3>1
    <3>3. Amount(p.max) = Quantity(Wire(input.max))
      BY <1>1, <3>2, GoServerView
    <3>4. QED
      BY <2>3, <3>3
  <2>6. \A t \in TaskNames : RunningAllocations(Statuses(v))[t] = HeldRounded(input)[t]
    BY <2>3, <2>4 DEF RunningAllocations, Statuses, HeldRounded
  <2>7. use = Total(HeldRounded(input), TaskNames)
    BY <2>6, TotalSame, ManifestAssumption DEF ResourceUsage
  <2>8. \A t \in chosen[s] : Needs(v)[t] = Requests(s)[t]
    BY <1>5, RequestsFacts
  <2>9. got = Total(Requests(s), chosen[s])
    <3>1. IsFiniteSet(chosen[s])
      BY RequestsType
    <3>2. QED
      BY <2>8, <3>1, TotalSame
  <2>10. QED
    BY <1>2, <2>5, <2>7, <2>9
<1>6. CASE s = "cpp"
  <2> DEFINE w == PlanRequest(input)
  <2>1. v = CppView(w)
    BY <1>1, <1>6 DEF View
  <2>2. w.phase = input.phase /\ w.max = Wire(input.max) /\ \A t \in TaskNames : w.alloc[t] = Wire(input.alloc[t])
    BY DEF PlanRequest
  <2>3. v.max = Wire(input.max) /\ v.phase = input.phase /\ \A t \in TaskNames : v.alloc[t] = Wire(input.alloc[t])
    BY <2>1, <2>2 DEF CppView
  <2>4. \A t \in TaskNames : Quantity(Wire(input.alloc[t])) = Times(Wire(input.alloc[t]), Unit)
    BY DEF Quantity, Times
  <2>5. Times(NoResource, Unit) = NoResource
    BY UnitAssumption DEF Times, NoResource
  <2>6. \A t \in TaskNames : HeldRounded(input)[t] = Times(RunningAllocations(Statuses(v))[t], Unit)
    BY <2>3, <2>4, <2>5 DEF RunningAllocations, Statuses, HeldRounded
  <2>7. Total(HeldRounded(input), TaskNames) = Times(use, Unit)
    <3>1. TaskNames \in SUBSET TaskNames
      OBVIOUS
    <3>2. QED
      BY <1>3, <1>4, <2>6, <3>1, TotalScale, ManifestAssumption DEF ResourceUsage
  <2>8. \A t \in chosen[s] : Requests(s)[t] = Times(Needs(v)[t], Unit)
    BY <1>6, RequestsFacts
  <2>9. Total(Requests(s), chosen[s]) = Times(got, Unit)
    <3>1. chosen[s] \in SUBSET chosen[s] /\ IsFiniteSet(chosen[s]) /\ AllResources(Needs(v), chosen[s])
      BY RequestsType
    <3>2. QED
      BY <1>3, <2>8, <3>1, TotalScale
  <2>10. Plus(Times(use, Unit), Times(got, Unit)) = Quantity(Plus(use, got))
    <3>1. Plus(Times(use, Unit), Times(got, Unit)) = Times(Plus(use, got), Unit) /\ Plus(use, got) \in Resource
      BY <1>3, <1>4, TimesFacts, PlusFacts
    <3>2. QED
      BY <3>1, QuantityFacts
  <2>11. Within(Quantity(Wire(input.max)), Quantity(Plus(use, got)))
    <3>1. Plus(use, got) \in Resource
      BY <1>4, PlusFacts
    <3> HIDE DEF use, got, v
    <3>2. QED
      BY <1>2, <1>3, <2>3, <3>1, QuantityOrder
  <2>12. QED
    BY <2>7, <2>9, <2>10, <2>11
<1>7. QED
  BY <1>5, <1>6 DEF Servers

\* What runs after the plan is within MaxResources as the user wrote it, counted
\* as the pods request it, whichever optimizer made the plan; for the servers if
\* rounding the maximum and the running tasks' memory loses nothing.
THEOREM PlansKeepBudget == Spec => []PlanKeepsBudget
<1>1. TypeOK /\ LoopInvariant => PlanKeepsBudget
  <2> SUFFICES ASSUME TypeOK, LoopInvariant PROVE PlanKeepsBudget
    OBVIOUS
  <2> DEFINE max == Amount(input.max)
             runs == Held(input)
             kept == /\ max.cpu % Unit = 0
                     /\ max.mem = 0 \/ max.mem >= Unit
                     /\ \A t \in TaskNames : runs[t].mem % Unit = 0
  <2>1. IsInput(input) /\ IsList(input.max) /\ max \in Resource
    BY AmountFacts DEF TypeOK, IsInput
  <2>2. ASSUME NEW s \in Servers, Answered(s), chosen[s] # {}, s = "local" \/ kept
        PROVE  Within(max, Plus(Total(runs, TaskNames), Total(Requests(s), chosen[s])))
    <3>1. CASE s = "local"
      BY <2>2, <3>1, LocalBudget
    <3>2. CASE s # "local"
      <4> DEFINE q == Quantity(Wire(input.max))
                 a == Total(runs, TaskNames)
                 b == Total(HeldRounded(input), TaskNames)
                 c == Total(Requests(s), chosen[s])
      <4>1. Within(q, Plus(b, c))
        BY <2>2, <3>2, ServerBudget
      <4>2. a \in Resource /\ b \in Resource /\ c \in Resource /\ q \in Resource
        BY <2>1, <2>2, HeldType, RequestsType, AmountFacts, QuantityFacts
      <4>3. ASSUME NEW t \in TaskNames
            PROVE  AtMost(runs[t], HeldRounded(input)[t])
        <5>1. CASE input.phase[t] = "Running"
          <6>1. runs[t] = Amount(input.alloc[t]) /\ HeldRounded(input)[t] = Quantity(Wire(input.alloc[t]))
            BY <5>1 DEF Held, HeldRounded
          <6>2. runs[t].mem % Unit = 0
            BY <2>2, <3>2
          <6>3. IsList(input.alloc[t])
            BY <2>1, InputFacts
          <6>4. Amount(input.alloc[t]) \in Resource
            BY <6>3, AmountFacts
          <6>5. /\ Amount(input.alloc[t]).cpu <= Quantity(Wire(input.alloc[t])).cpu
                /\ Amount(input.alloc[t]).mem = Quantity(Wire(input.alloc[t])).mem
            BY <6>1, <6>2, <6>3, WireRounds
          <6>6. QED
            BY <6>1, <6>4, <6>5 DEF AtMost, Resource
        <5>2. CASE input.phase[t] # "Running"
          BY <5>2 DEF Held, HeldRounded, AtMost, NoResource
        <5>3. QED
          BY <5>1, <5>2
      <4>4. AtMost(a, b)
        <5>1. TaskNames \in SUBSET TaskNames
          OBVIOUS
        <5>2. QED
          BY <2>1, <4>3, <5>1, HeldType, TotalMonotone, ManifestAssumption
      <4>5. max.cpu = q.cpu /\ q.mem <= max.mem /\ (max.mem = 0 \/ q.mem > 0)
        BY <2>1, <2>2, <3>2, WireRounds
      <4> HIDE DEF a, b, c, q, max
      <4>6. Within(q, Plus(a, c))
        <5>1. AtMost(Plus(a, c), Plus(b, c)) /\ Plus(a, c) \in Resource /\ Plus(b, c) \in Resource
          <6>1. Plus(a, c) \in Resource /\ Plus(b, c) \in Resource
            BY <4>2, PlusFacts
          <6>2. AtMost(Plus(a, c), Plus(b, c))
            BY <4>2, <4>4 DEF AtMost, Plus, Resource
          <6>3. QED
            BY <6>1, <6>2
        <5>2. QED
          BY <4>1, <4>2, <5>1, WithinLess
      <4>7. Within(max, Plus(a, c))
        <5>1. Plus(a, c) \in Resource
          BY <4>2, PlusFacts
        <5> DEFINE e == Plus(a, c)
        <5> HIDE DEF e
        <5>2. Within(max, e)
          <6>1. /\ e.cpu \in Nat /\ e.mem \in Nat /\ q.cpu \in Nat /\ q.mem \in Nat
                /\ max.cpu \in Nat /\ max.mem \in Nat
            BY <2>1, <4>2, <5>1 DEF Resource, e
          <6>2. (q.cpu = 0 \/ e.cpu <= q.cpu) /\ (q.mem = 0 \/ e.mem <= q.mem)
            BY <4>6 DEF Within, e
          <6>3. QED
            BY <4>5, <6>1, <6>2 DEF Within
        <5>3. QED
          BY <5>2 DEF e
      <4>8. QED
        BY <4>7 DEF a, c
    <3>3. QED
      BY <3>1, <3>2
  <2>3. runs = [t \in TaskNames |->
                  IF input.phase[t] = "Running" THEN Amount(input.alloc[t]) ELSE NoResource]
    BY DEF Held
  <2> HIDE DEF runs
  <2>4. QED
    BY <2>2, <2>3 DEF PlanKeepsBudget
<1>2. QED
  BY <1>1, TypeCorrect, LoopsKeep, PTL
-----------------------------------------------------------------------------
(***************************************************************************)
(* Agreement.  On plain inputs the three loops look at the same numbers,   *)
(* up to the unit they count in.                                           *)
(***************************************************************************)
Scale(s) == IF s = "cpp" THEN Unit ELSE 1

\* Scaling keeps resources, is undone by comparing, and by one changes nothing.
LEMMA ScaleFacts ==
    ASSUME NEW s \in Servers
    PROVE  /\ Scale(s) \in Nat
           /\ \A a, b \in Resource : Within(Times(a, Scale(s)), Times(b, Scale(s))) <=> Within(a, b)
           /\ Times(NoResource, Scale(s)) = NoResource
           /\ s # "cpp" => \A a \in Resource : Times(a, Scale(s)) = a
           /\ s = "cpp" => \A a \in Resource : Times(a, Scale(s)) = Quantity(a)
<1>1. Scale(s) \in Nat
  BY UnitAssumption DEF Scale
<1>2. ASSUME NEW a \in Resource
      PROVE  Times(a, 1) = a
  <2>1. a.cpu \in Nat /\ a.mem \in Nat /\ a = [cpu |-> a.cpu, mem |-> a.mem]
    BY DEF Resource
  <2>2. a.cpu * 1 = a.cpu /\ a.mem * 1 = a.mem
    BY <2>1
  <2>3. QED
    BY <2>1, <2>2 DEF Times
<1>3. CASE s = "cpp"
  <2>1. Scale(s) = Unit
    BY <1>3 DEF Scale
  <2>2. \A a \in Resource : Times(a, Unit) = Quantity(a)
    BY QuantityFacts
  <2>3. Times(NoResource, Unit) = NoResource
    BY UnitAssumption DEF Times, NoResource
  <2>4. QED
    BY <1>1, <1>3, <2>1, <2>2, <2>3, QuantityOrder
<1>4. CASE s # "cpp"
  <2>1. Scale(s) = 1
    BY <1>4 DEF Scale
  <2>2. QED
    BY <1>1, <1>2, <1>4, <2>1, AmountFacts
<1>5. QED
  BY <1>3, <1>4

\* A list of whole quantities comes back from the wire as it was.
LEMMA WholeListFacts ==
    ASSUME NEW l, IsList(l), WholeList(l)
    PROVE  Quantity(Wire(l)) = Amount(l)
<1>1. 0 % Unit = 0
  BY UnitAssumption
<1>2. Amount(l).cpu % Unit = 0 /\ Amount(l).mem % Unit = 0
  BY <1>1 DEF Amount, WholeList
<1>3. QED
  BY <1>2, WireRounds

\* What a task is given on a plain input: the same by all three.
LEMMA PlainNeed ==
    ASSUME NEW in, IsInput(in), Plain(in), NEW t \in TaskNames
    PROVE  /\ Quantity(Sent(in, t)) = Amount(GoResolve(in, t).req)
           /\ t \notin DOMAIN in.pred => Sent(in, t) # NoResource
<1>1. /\ IsList(in.base[t].req)
      /\ t \in DOMAIN in.pred => IsList(in.pred[t].req)
  BY InputFacts
<1>2. /\ WholeList(in.base[t].req)
      /\ in.base[t] = Unset \/ Amount(in.base[t].req) # NoResource
      /\ t \in DOMAIN in.pred => WholeList(in.pred[t].req)
  BY DEF Plain
<1>3. Quantity(NoResource) = NoResource
  BY UnitAssumption DEF Quantity, NoResource
<1>4. CASE t \in DOMAIN in.pred
  BY <1>1, <1>2, <1>4, WholeListFacts DEF Sent, GoResolve
<1>5. CASE t \notin DOMAIN in.pred /\ in.base[t] = Unset
  <2>1. DOMAIN in.base[t].req = {}
    BY <1>5 DEF Unset, Nothing
  <2>2. Sent(in, t) = DefaultResources /\ GoResolve(in, t) = DefaultRequirement
    BY <1>5, <2>1 DEF Sent, GoResolve
  <2>3. DefaultResources # NoResource
    <3>1. DefaultResources.cpu = 100 /\ NoResource.cpu = 0
      BY DEF DefaultResources, NoResource
    <3>2. QED
      BY <3>1
  <2>4. QED
    BY <2>2, <2>3, DefaultFacts
<1>6. CASE t \notin DOMAIN in.pred /\ in.base[t] # Unset
  <2>1. Amount(in.base[t].req) # NoResource
    BY <1>2, <1>6
  <2>2. DOMAIN in.base[t].req # {}
    BY <2>1 DEF Amount, NoResource
  <2>3. Sent(in, t) = Wire(in.base[t].req) /\ GoResolve(in, t) = in.base[t]
    BY <1>6, <2>2 DEF Sent, GoResolve
  <2>4. Quantity(Sent(in, t)) = Amount(in.base[t].req)
    BY <1>1, <1>2, <2>3, WholeListFacts
  <2>5. QED
    BY <1>3, <2>1, <2>3, <2>4
<1>7. QED
  BY <1>4, <1>5, <1>6

\* So each server works on the in-process optimizer's numbers, up to the scale.
LEMMA PlainView ==
    ASSUME NEW in, IsInput(in), Plain(in), NEW s \in Servers
    PROVE  LET v == View(s, in)
               o == View("local", in)
               k == Scale(s)
           IN  /\ o.max = Times(v.max, k)
               /\ \A t \in TaskNames : /\ o.alloc[t] = Times(v.alloc[t], k)
                                       /\ Needs(o)[t] = Times(Needs(v)[t], k)
<1> DEFINE v == View(s, in)
           o == View("local", in)
           k == Scale(s)
<1>0. "local" \in Servers /\ o = GoView(in)
  BY DEF Servers, View
<1>1. /\ o.max = Amount(in.max)
      /\ \A t \in TaskNames : o.alloc[t] = Amount(in.alloc[t]) /\ Needs(o)[t] = Amount(GoResolve(in, t).req)
  BY <1>0 DEF GoView, Needs, Need
<1>2. /\ IsList(in.max) /\ WholeList(in.max)
      /\ \A t \in TaskNames : IsList(in.alloc[t]) /\ WholeList(in.alloc[t])
  BY DEF IsInput, Plain
<1>3. /\ Quantity(Wire(in.max)) = Amount(in.max)
      /\ \A t \in TaskNames : Quantity(Wire(in.alloc[t])) = Amount(in.alloc[t])
  BY <1>2, WholeListFacts
<1>4. /\ Amount(in.max) \in Resource /\ Wire(in.max) \in Resource
      /\ \A t \in TaskNames : /\ Amount(in.alloc[t]) \in Resource /\ Wire(in.alloc[t]) \in Resource
                              /\ Sent(in, t) \in Resource
  BY <1>2, AmountFacts, InputFacts
<1>5. \A t \in TaskNames : Needs(v)[t] \in Resource /\ Needs(v)[t] = Amount(v.give[t].req)
  BY ViewFacts DEF Needs, Need
<1>6. CASE s = "local"
  <2>1. v.max \in Resource /\ \A t \in TaskNames : v.alloc[t] \in Resource
    BY ViewFacts
  <2>2. QED
    BY <1>5, <1>6, <2>1, ScaleFacts
<1>7. CASE s = "go"
  <2> DEFINE p == protoToInput(PlanRequest(in))
  <2>1. v = GoView(p)
    BY <1>7 DEF View
  <2>2. v.max = Amount(p.max) /\ \A t \in TaskNames : v.alloc[t] = Amount(p.alloc[t]) /\ v.give[t] = GoResolve(p, t)
    BY <2>1 DEF GoView
  <2>3. p.max = Quantity(Wire(in.max))
    BY DEF protoToInput, PlanRequest
  <2>4. v.max = Amount(in.max)
    BY <1>3, <1>4, <2>2, <2>3, QuantityFacts
  <2>5. ASSUME NEW t \in TaskNames
        PROVE  v.alloc[t] = Amount(in.alloc[t]) /\ Needs(v)[t] = Amount(GoResolve(in, t).req)
    <3>1. Amount(p.alloc[t]) = Quantity(Wire(in.alloc[t]))
      BY GoServerView
    <3>2. GoResolve(p, t).req = Quantity(Sent(in, t))
      <4>1. DefaultRequirement.req = Quantity(DefaultResources)
        BY DEF DefaultRequirement
      <4>2. t \notin DOMAIN in.pred /\ DOMAIN in.base[t].req = {} => Sent(in, t) = DefaultResources
        BY DEF Sent
      <4> HIDE DEF p
      <4>3. QED
        BY <4>1, <4>2, GoServerView DEF p
    <3>3. Amount(v.give[t].req) = Quantity(Sent(in, t))
      BY <1>4, <2>2, <3>2, QuantityFacts
    <3>4. QED
      BY <1>3, <1>5, <2>2, <3>1, <3>3, PlainNeed
  <2>6. QED
    BY <1>1, <1>4, <1>5, <1>7, <2>4, <2>5, ScaleFacts
<1>8. CASE s = "cpp"
  <2> DEFINE w == PlanRequest(in)
  <2>1. v = CppView(w)
    BY <1>8 DEF View
  <2>2. v.max = w.max /\ \A t \in TaskNames : v.alloc[t] = w.alloc[t] /\ v.give[t] = CppResolve(w, t)
    BY <2>1 DEF CppView
  <2>3. w.max = Wire(in.max) /\ \A t \in TaskNames : w.alloc[t] = Wire(in.alloc[t])
    BY DEF PlanRequest
  <2>4. ASSUME NEW t \in TaskNames
        PROVE  Needs(v)[t] = Sent(in, t)
    <3>1. v.give[t].req = Sent(in, t)
      <4> HIDE DEF w
      <4>1. QED
        BY <2>2, CppServerView, PlainNeed DEF w
    <3>2. QED
      BY <1>4, <1>5, <3>1, AmountFacts
  <2>5. QED
    BY <1>1, <1>3, <1>4, <1>8, <2>2, <2>3, <2>4, PlainNeed, ScaleFacts
<1>9. QED
  BY <1>6, <1>7, <1>8 DEF Servers

\* What fits next to which others is the same for each server.
LEMMA PlainFits ==
    ASSUME NEW in, IsInput(in), Plain(in), NEW s \in Servers,
           NEW T \in SUBSET TaskNames, NEW t \in TaskNames
    PROVE  LET v == View(s, in)
               o == View("local", in)
           IN  Within(o.max, Plus(Plus(ResourceUsage(Statuses(o)), Total(Needs(o), T)), Needs(o)[t]))
                 <=> Within(v.max, Plus(Plus(ResourceUsage(Statuses(v)), Total(Needs(v), T)), Needs(v)[t]))
<1> DEFINE v == View(s, in)
           o == View("local", in)
           k == Scale(s)
           ra == RunningAllocations(Statuses(v))
           a == ResourceUsage(Statuses(v))
           b == Total(Needs(v), T)
           c == Needs(v)[t]
<1>0. "local" \in Servers /\ k \in Nat /\ IsFiniteSet(TaskNames) /\ IsFiniteSet(T)
  BY ScaleFacts, ManifestAssumption, FS_Subset DEF Servers
<1>1. /\ o.max = Times(v.max, k)
      /\ \A x \in TaskNames : o.alloc[x] = Times(v.alloc[x], k) /\ Needs(o)[x] = Times(Needs(v)[x], k)
  BY PlainView
<1>2. v.phase = in.phase /\ o.phase = in.phase /\ v.max \in Resource
  BY <1>0, ViewFacts
<1>3. /\ AllResources(ra, TaskNames) /\ a \in Resource
      /\ AllResources(Needs(v), TaskNames)
  BY ModelFacts, UsageType
<1>4. AllResources(Needs(v), T) /\ b \in Resource /\ c \in Resource
  BY <1>0, <1>3, TotalType DEF AllResources
<1>5. \A x \in TaskNames : RunningAllocations(Statuses(o))[x] = Times(ra[x], k)
  BY <1>1, <1>2, ScaleFacts DEF RunningAllocations, Statuses
<1>6. ResourceUsage(Statuses(o)) = Times(a, k)
  <2>1. TaskNames \in SUBSET TaskNames
    OBVIOUS
  <2> DEFINE q == RunningAllocations(Statuses(o))
  <2> HIDE DEF ra, q, k
  <2>2. \A U \in SUBSET TaskNames : Total(q, U) = Times(Total(ra, U), k)
    BY <1>0, <1>3, <1>5, TotalScale DEF q
  <2>3. QED
    BY <2>1, <2>2 DEF ra, q, ResourceUsage
<1>7. Total(Needs(o), T) = Times(b, k)
  <2> DEFINE q == Needs(o)
             n == Needs(v)
  <2> HIDE DEF q, n, k
  <2>1. \A x \in TaskNames : q[x] = Times(n[x], k)
    BY <1>1 DEF q, n
  <2>2. AllResources(n, TaskNames)
    BY <1>3 DEF n
  <2>3. \A U \in SUBSET TaskNames : Total(q, U) = Times(Total(n, U), k)
    BY <1>0, <2>1, <2>2, TotalScale
  <2>4. QED
    BY <2>3 DEF q, n
<1>8. Needs(o)[t] = Times(c, k)
  BY <1>1
<1> HIDE DEF a, b, c, k
<1>9. Plus(Plus(Times(a, k), Times(b, k)), Times(c, k)) = Times(Plus(Plus(a, b), c), k)
  <2>1. Plus(a, b) \in Resource
    BY <1>3, <1>4, PlusFacts
  <2>2. QED
    BY <1>0, <1>3, <1>4, <2>1, TimesFacts
<1>10. Plus(Plus(a, b), c) \in Resource
  BY <1>3, <1>4, PlusFacts
<1> DEFINE e == Plus(Plus(a, b), c)
<1> HIDE DEF e, v, o
<1>11. Within(Times(v.max, k), Times(e, k)) <=> Within(v.max, e)
  BY <1>2, <1>10, ScaleFacts DEF k, e
<1>12. QED
  BY <1>1, <1>6, <1>7, <1>8, <1>9, <1>11 DEF a, b, c, e, v, o

\* Whichever optimizer the controller is configured with, it starts the same
\* tasks with the same requests, as long as the input is plain.
THEOREM OptimizersAgree == Spec => []ImplementationsAgree
<1>1. TypeOK /\ LoopInvariant => ImplementationsAgree
  <2> SUFFICES ASSUME TypeOK, LoopInvariant, Plain(input), NEW r \in Servers, NEW s \in Servers,
                      Answered(r), Answered(s)
               PROVE  Requests(r) = Requests(s)
    BY DEF ImplementationsAgree
  <2> DEFINE v == view[r]
             w == view[s]
             o == View("local", input)
             m == Question(v)
             n == Question(w)
  <2>1. v = View(r, input) /\ w = View(s, input) /\ IsInput(input)
    BY DEF TypeOK
  <2>2. IsGreedyPlan(m, Statuses(v), Needs(v), chosen[r]) /\ IsGreedyPlan(n, Statuses(w), Needs(w), chosen[s])
    BY DoneIsGreedy DEF LoopIsGreedy
  <2>3. /\ v.tasks = input.tasks /\ v.deps = input.deps /\ v.phase = input.phase
        /\ w.tasks = input.tasks /\ w.deps = input.deps /\ w.phase = input.phase
    BY <2>1, ViewFacts
  <2>4. n.tasks = m.tasks /\ n.deps = m.deps /\ m.max = v.max /\ n.max = w.max
    BY <2>3 DEF Question
  <2>5. /\ IsManifest(m)
        /\ Needs(v) = [t \in TaskNames |-> resolveResources(m, Needs(v), t)]
        /\ Needs(w) = [t \in TaskNames |-> resolveResources(n, Needs(w), t)]
    BY <2>1, ModelFacts
  <2>6. Ready(n, Statuses(w)) = Ready(m, Statuses(v))
    <3>1. \A t \in TaskNames : Statuses(w)[t].phase = Statuses(v)[t].phase
      BY <2>3 DEF Statuses
    <3>2. InPhase(Statuses(w), "Succeeded") = InPhase(Statuses(v), "Succeeded")
      BY <3>1 DEF InPhase
    <3>3. Tasks(n) = Tasks(m) /\ Tasks(m) \subseteq TaskNames
      BY <2>4, <2>5 DEF Tasks, IsManifest
    <3> HIDE DEF m, n, v, w
    <3>4. QED
      BY <2>4, <3>1, <3>2, <3>3 DEF Ready
  <2>7. \A T \in SUBSET TaskNames : \A t \in TaskNames :
           Within(m.max, Plus(Plus(ResourceUsage(Statuses(v)), Total(Needs(v), T)), Needs(v)[t]))
             <=> Within(n.max, Plus(Plus(ResourceUsage(Statuses(w)), Total(Needs(w), T)), Needs(w)[t]))
    <3> TAKE T \in SUBSET TaskNames
    <3> TAKE t \in TaskNames
    <3> HIDE DEF v, w
    <3>1. Within(o.max, Plus(Plus(ResourceUsage(Statuses(o)), Total(Needs(o), T)), Needs(o)[t]))
            <=> Within(v.max, Plus(Plus(ResourceUsage(Statuses(v)), Total(Needs(v), T)), Needs(v)[t]))
      BY <2>1, PlainFits
    <3>2. Within(o.max, Plus(Plus(ResourceUsage(Statuses(o)), Total(Needs(o), T)), Needs(o)[t]))
            <=> Within(w.max, Plus(Plus(ResourceUsage(Statuses(w)), Total(Needs(w), T)), Needs(w)[t]))
      BY <2>1, PlainFits
    <3>3. QED
      BY <2>4, <3>1, <3>2
  <2>8. chosen[r] = chosen[s]
    <3> DEFINE ts == Statuses(v)
               us == Statuses(w)
               p == Needs(v)
               q == Needs(w)
               need == [u \in TaskNames |-> resolveResources(m, p, u)]
               want == [u \in TaskNames |-> resolveResources(n, q, u)]
    <3>1. need = p /\ want = q
      BY <2>5
    <3> HIDE DEF ts, us, p, q, m, n, need, want
    <3>2. \A T \in SUBSET TaskNames : \A t \in TaskNames :
             Within(m.max, Plus(Plus(ResourceUsage(ts), Total(need, T)), need[t]))
               <=> Within(n.max, Plus(Plus(ResourceUsage(us), Total(want, T)), want[t]))
      BY <2>7, <3>1 DEF ts, us, p, q
    <3>3. IsGreedyPlan(m, ts, p, chosen[r]) /\ IsGreedyPlan(n, us, q, chosen[s]) /\ Ready(n, us) = Ready(m, ts)
      BY <2>2, <2>6 DEF ts, us, p, q
    <3>4. QED
      BY <2>4, <2>5, <3>2, <3>3, GreedyUnique DEF need, want
  <2>9. ASSUME NEW t \in chosen[r]
        PROVE  Requests(r)[t] = Requests(s)[t]
    <3>1. t \in TaskNames
      BY DEF TypeOK
    <3>2. Needs(v)[t] \in Resource /\ Needs(w)[t] \in Resource
      BY <2>1, <3>1, ModelFacts DEF AllResources
    <3>3. Requests(r)[t] = Times(Needs(v)[t], Scale(r))
      BY <3>2, RequestsFacts, ScaleFacts DEF Scale
    <3>4. Requests(s)[t] = Times(Needs(w)[t], Scale(s))
      BY <2>8, <3>2, RequestsFacts, ScaleFacts DEF Scale
    <3>5. Times(Needs(v)[t], Scale(r)) = Needs(o)[t] /\ Times(Needs(w)[t], Scale(s)) = Needs(o)[t]
      BY <2>1, <3>1, PlainView
    <3>6. QED
      BY <3>3, <3>4, <3>5
  <2>10. Requests(r) = [t \in chosen[r] |-> Requests(r)[t]] /\ Requests(s) = [t \in chosen[s] |-> Requests(s)[t]]
    BY DEF Requests
  <2>11. QED
    BY <2>8, <2>9, <2>10
<1>2. QED
  BY <1>1, TypeCorrect, LoopsKeep, PTL

-----------------------------------------------------------------------------
(***************************************************************************)
(* Limits.                                                                 *)
(***************************************************************************)

\* Resources cover those that are at most they.
LEMMA AtMostCovers ==
    ASSUME NEW r, r.req \in Resource, r.lim \in Resource, AtMost(r.req, r.lim)
    PROVE  Covers(r)
<1>1. Amount(r.req) = r.req /\ DOMAIN r.lim = Kinds
  BY AmountFacts
<1>2. QED
  BY <1>1 DEF Covers, AtMost, Kinds, Resource

\* If no hint and no forecast of the input asks for more than its own limit, no
\* allocation does, except where the Go server took a hint.
THEOREM LimitsCover == Spec => []LimitsCoverRequests
<1>1. TypeOK /\ LoopInvariant => LimitsCoverRequests
  <2> SUFFICES ASSUME TypeOK, LoopInvariant,
                      \A t \in TaskNames : Covers(input.base[t]),
                      \A t \in DOMAIN input.pred : Covers(input.pred[t]),
                      NEW s \in Servers, NEW t \in DOMAIN answer[s],
                      ~(s = "go" /\ t \notin DOMAIN input.pred /\ DOMAIN input.base[t].req # {})
               PROVE  Covers(answer[s][t])
    BY DEF LimitsCoverRequests
  <2> DEFINE v == View(s, input)
  <2>1. Answered(s) /\ t \in chosen[s] /\ IsInput(input)
    BY DEF TypeOK, Answered
  <2>2. answer[s][t] = Received(s, v.give[t]) /\ t \in TaskNames
    BY <2>1, RequestsFacts
  <2>3. DefaultRequirement.req \in Resource /\ DefaultRequirement.lim \in Resource
    BY DefaultFacts, HeadroomFacts, QuantityFacts DEF DefaultRequirement
  <2>4. Covers(DefaultRequirement)
    BY <2>3, DefaultFacts, AtMostCovers
  <2>5. Sent(input, t) \in Resource
    BY <2>1, <2>2, InputFacts
  <2>6. CASE s = "local"
    <3>1. answer[s][t] = GoResolve(input, t)
      BY <2>2, <2>6 DEF View, GoView, Received
    <3>2. QED
      BY <2>2, <2>4, <3>1 DEF GoResolve
  <2>7. CASE s = "go"
    <3> DEFINE p == protoToInput(PlanRequest(input))
    <3>1. v.give[t] = GoResolve(p, t)
      BY <2>2, <2>7 DEF View, GoView
    <3>2. PICK a \in Resource, b \in Resource :
             AtMost(a, b) /\ GoResolve(p, t) = [req |-> Quantity(a), lim |-> Quantity(b)]
      <4>1. CASE t \in DOMAIN input.pred
        <5>1. GoResolve(p, t) = [req |-> Quantity(Sent(input, t)), lim |-> Quantity(Headroom(Sent(input, t)))]
          BY <2>1, <2>2, <4>1, GoServerView
        <5>2. QED
          BY <2>5, <5>1, HeadroomFacts
      <4>2. CASE t \notin DOMAIN input.pred
        <5>1. GoResolve(p, t) = DefaultRequirement
          BY <2>1, <2>2, <2>7, <4>2, GoServerView
        <5>2. QED
          BY <5>1, DefaultFacts, HeadroomFacts DEF DefaultRequirement
      <4>3. QED
        BY <4>1, <4>2
    <3>3. answer[s][t] = [req |-> Quantity(Wire(v.give[t].req)), lim |-> Quantity(Wire(v.give[t].lim))]
      BY <2>2, <2>7 DEF Received, FromResponse, GoResponse
    <3> HIDE DEF p, v
    <3>4. answer[s][t] = [req |-> Quantity(a), lim |-> Quantity(b)]
      BY <3>1, <3>2, <3>3, QuantityFacts
    <3>5. AtMost(Quantity(a), Quantity(b)) /\ Quantity(a) \in Resource /\ Quantity(b) \in Resource
      BY <3>2, QuantityOrder, QuantityFacts
    <3>6. QED
      BY <3>4, <3>5, AtMostCovers
  <2>8. CASE s = "cpp"
    <3>1. v.give[t] = CppResolve(PlanRequest(input), t)
      BY <2>2, <2>8 DEF View, CppView
    <3>2. v.give[t].req \in Resource /\ v.give[t].lim \in Resource /\ AtMost(v.give[t].req, v.give[t].lim)
      BY <2>1, <2>2, <3>1, CppServerView
    <3>3. answer[s][t] = [req |-> Quantity(v.give[t].req), lim |-> Quantity(v.give[t].lim)]
      BY <2>2, <2>8 DEF Received, FromResponse
    <3> DEFINE a == v.give[t].req
               b == v.give[t].lim
    <3> HIDE DEF a, b
    <3>4. a \in Resource /\ b \in Resource /\ AtMost(a, b) /\ answer[s][t] = [req |-> Quantity(a), lim |-> Quantity(b)]
      BY <3>2, <3>3 DEF a, b
    <3>5. AtMost(Quantity(a), Quantity(b)) /\ Quantity(a) \in Resource /\ Quantity(b) \in Resource
      BY <3>4, QuantityOrder, QuantityFacts
    <3>6. QED
      BY <3>4, <3>5, AtMostCovers
  <2>9. QED
    BY <2>6, <2>7, <2>8 DEF Servers
<1>2. QED
  BY <1>1, TypeCorrect, LoopsKeep, PTL
=============================================================================
