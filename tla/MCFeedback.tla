----------------------------- MODULE MCFeedback -----------------------------
(***************************************************************************)
(* A small learning loop for TLC: two tasks with an image each, and two    *)
(* fractions to a milli-CPU and to a MiB.                                  *)
(***************************************************************************)
EXTENDS Feedback

MCTasks == {"A", "B"}

NoManifests == {}

NoManifest == [id \in {} |-> {}]

MCImage == [A |-> "x", B |-> "y"]

L(c, m) == [cpu |-> c, mem |-> m]

\* Plain hints and none, hints that name less than a MiB only or CPU only, and
\* a limit without a request.
MCHintings ==
    {[A |-> [req |-> L(4, 6), lim |-> L(8, 8)], B |-> [req |-> [mem |-> 1], lim |-> Nothing]],
     [A |-> Unset, B |-> [req |-> [cpu |-> 3], lim |-> Nothing]]}

\* The model answers with too little CPU and enough memory.
MCEstimates == {L(0, 30)}

\* More than any forecast.
MCMeasured == {L(900, 900)}
=============================================================================
