---------------------------- MODULE MCOptimizers ----------------------------
(***************************************************************************)
(* Small inputs for Optimizers: two fractions to a milli-CPU and to a MiB, *)
(* so that an odd quantity is one that the wire format cannot hold.        *)
(***************************************************************************)
EXTENDS Optimizers

MCTasks == {"A", "B", "C"}

NoManifests == {}

NoManifest == [id \in {} |-> {}]

L(c, m) == [cpu |-> c, mem |-> m]

\* Hints with requests and limits, with one kind only, and with limits only.
Hints == {Unset,
          [req |-> L(2, 2), lim |-> L(4, 4)],
          [req |-> L(2, 3), lim |-> Nothing],
          [req |-> [mem |-> 1], lim |-> Nothing],
          [req |-> Nothing, lim |-> [cpu |-> 2]]}

\* The budget is absent, admits two small tasks or one, is less than a MiB, is
\* no whole number of MiB, or holds one task with default resources.
Budgets == {Nothing, L(4, 6), [cpu |-> 2], [mem |-> 1], [mem |-> 5], L(202, 260)}

BaselineOf(base) == [t \in {u \in MCTasks : base[u] # Unset} |-> base[t]]

NoPredictions == [t \in {} |-> Unset]

Learned == [t \in {"A", "B"} |-> [req |-> L(4, 2), lim |-> L(6, 2)]]

\* C waits for A; A has yet to start, runs or has succeeded; the statuses do
\* not know B, as when it was added to the spec later.
MCInputs ==
    UNION {
      {[tasks |-> <<"A", "B", "C">>, deps |-> [A |-> {}, B |-> {}, C |-> {"A"}],
        base |-> base, max |-> max, pred |-> pred,
        phase |-> [A |-> a.phase, B |-> "Absent", C |-> "Pending"],
        alloc |-> [A |-> a.alloc, B |-> Nothing, C |-> Nothing]] :
           max \in Budgets, pred \in {NoPredictions, Learned, BaselineOf(base)},
           a \in {[phase |-> "Pending", alloc |-> Nothing],
                  [phase |-> "Running", alloc |-> L(2, 2)],
                  [phase |-> "Running", alloc |-> L(2, 3)],
                  [phase |-> "Succeeded", alloc |-> L(2, 2)]}} :
      base \in {[A |-> a, B |-> b, C |-> Unset] :
                   a \in Hints, b \in {h \in Hints : DOMAIN h.req # {}}}}
=============================================================================
