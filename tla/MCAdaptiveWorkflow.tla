------------------------- MODULE MCAdaptiveWorkflow -------------------------
(***************************************************************************)
(* Small instances of AdaptiveWorkflow for TLC.                            *)
(***************************************************************************)
EXTENDS AdaptiveWorkflowInvariants

R(c, m) == [cpu |-> c, mem |-> m]

Two   == {"A", "B"}
Three == {"A", "B", "C"}
Four  == {"A", "B", "C", "D"}
NotC  == Four \ {"C"}

\* Each task has a pod name of its own, or those of A and C collide, as the
\* names of tasks that differ only in case do.
OwnPod    == [t \in TaskNames |-> t]
SharedPod == [t \in TaskNames |-> IF t = "C" THEN "A" ELSE t]

Deps(d) == [t \in TaskNames |-> IF t \in DOMAIN d THEN d[t] ELSE {}]

\* chain: B after A; the budget would hold both.
\* fork:  C waits for A; A fits next to B and next to C, B and C exclude each
\*        other.  C comes first in the spec and is preferred once A is done.
\* late:  C waits for A and needs the whole budget, B waits for D.
\* pair:  A and B exclude each other.
\* cycle: B and C wait for each other, A comes after them.
\* adrift: B waits for C, which is no task, A comes after it.
\* heavy: B is too big for the budget, A comes after it.
\* bare:  no tasks.
\* wider: chain with two tasks added, one without a hint, and no budget.
MCManifest ==
    [chain |-> [tasks |-> <<"A", "B">>, deps |-> Deps([B |-> {"A"}]),
                base  |-> [A |-> R(1, 1), B |-> R(1, 1)],
                max   |-> R(2, 0)],
     fork  |-> [tasks |-> <<"C", "A", "B">>, deps |-> Deps([C |-> {"A"}]),
                base  |-> [A |-> R(1, 1), B |-> R(1, 2), C |-> R(2, 2)],
                max   |-> R(3, 3)],
     late  |-> [tasks |-> <<"C", "A", "D", "B">>, deps |-> Deps([C |-> {"A"}, B |-> {"D"}]),
                base  |-> [A |-> R(1, 1), B |-> R(1, 1), C |-> R(2, 1), D |-> R(1, 1)],
                max   |-> R(2, 0)],
     pair  |-> [tasks |-> <<"A", "B">>, deps |-> Deps([t \in {} |-> {}]),
                base  |-> [A |-> R(1, 1), B |-> R(1, 1)],
                max   |-> R(0, 1)],
     cycle |-> [tasks |-> <<"B", "C", "A">>, deps |-> Deps([B |-> {"C"}, C |-> {"B"}]),
                base  |-> [A |-> R(1, 1), B |-> R(1, 1), C |-> R(1, 1)],
                max   |-> R(2, 0)],
     adrift |-> [tasks |-> <<"B", "A">>, deps |-> Deps([B |-> {"C"}]),
                base  |-> [A |-> R(1, 1), B |-> R(1, 1)],
                max   |-> R(2, 0)],
     heavy |-> [tasks |-> <<"B", "A">>, deps |-> Deps([t \in {} |-> {}]),
                base  |-> [A |-> R(1, 1), B |-> R(3, 1)],
                max   |-> R(2, 0)],
     bare  |-> [tasks |-> <<>>, deps |-> Deps([t \in {} |-> {}]),
                base  |-> [t \in {} |-> NoResource],
                max   |-> R(0, 0)],
     wider |-> [tasks |-> <<"A", "B", "C", "D">>, deps |-> Deps([B |-> {"A"}]),
                base  |-> [A |-> R(1, 1), B |-> R(1, 1), C |-> R(1, 1)],
                max   |-> R(0, 0)]]

Chain == {"chain"}
Fork  == {"fork"}
PairAndStuck == {"pair", "cycle", "adrift", "heavy", "bare"}
Late  == {"late"}
ChainAndWider == {"chain", "wider"}

NoForecasts == {}

\* A remote engine that changes its estimate of A as history accumulates.
TwoForecasts == {[A |-> R(1, 1), B |-> R(1, 1)], [A |-> R(1, 2), B |-> R(1, 1)]}
=============================================================================
