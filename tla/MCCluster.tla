----------------------------- MODULE MCCluster -----------------------------
(***************************************************************************)
(* A small cluster for TLC: two workflow names and two clients.            *)
(***************************************************************************)
EXTENDS Cluster

R(c, m) == [cpu |-> c, mem |-> m]

MCTasks == {"A", "B"}

\* Pod "2" is B's in workflow "v" and A's in workflow "w".
MCPods == {"1", "2", "3"}

MCPodName == [v |-> [A |-> "1", B |-> "2"], w |-> [A |-> "2", B |-> "3"]]

NoDeps == [t \in MCTasks |-> {}]

\* void: no tasks; head: A; tail: B; chain: B after A, one at a time.
MCManifest ==
    [void  |-> [tasks |-> <<>>, deps |-> NoDeps,
                base |-> [t \in {} |-> NoResource], max |-> NoResource],
     head  |-> [tasks |-> <<"A">>, deps |-> NoDeps,
                base |-> [A |-> R(1, 1)], max |-> NoResource],
     tail  |-> [tasks |-> <<"B">>, deps |-> NoDeps,
                base |-> [B |-> R(1, 1)], max |-> NoResource],
     chain |-> [tasks |-> <<"A", "B">>, deps |-> [A |-> {}, B |-> {"A"}],
                base |-> [A |-> R(1, 1), B |-> R(1, 1)], max |-> R(1, 0)]]

MCIds == DOMAIN MCManifest

F(name, spec) == [name |-> name, spec |-> spec]

\* Workflow "v" may be without tasks or meet "w" on pod "2"; "w" has a pod of
\* its own, "3", when it runs tail.
MCFiles == {F("v", "void"), F("v", "chain"), F("w", "head"), F("w", "tail")}

\* The controller starts in a cluster where "v" waits already, without tasks.
MCInstalled == {F("v", "void")}
=============================================================================
