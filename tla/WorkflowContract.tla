-------------------------- MODULE WorkflowContract --------------------------
(***************************************************************************)
(* What the controller promises to whoever watches the stored workflow     *)
(* object: a board of task phases and a verdict that change only in these  *)
(* ways.  There are no caches, pods, passes, conflicts or crashes here;    *)
(* AdaptiveWorkflow implements this specification.                         *)
(***************************************************************************)
EXTENDS Scheduling

CONSTANTS MaxUid

VARIABLES
    live,       \* the workflow exists
    uid,        \* which incarnation of the name it is
    spec,       \* its manifest
    board,      \* task name -> phase
    verdict     \* the workflow's phase

board_vars == <<live, uid, spec, board, verdict>>

Blank == [t \in TaskNames |-> "Absent"]

At(b, p) == {t \in TaskNames : b[t] = p}

Empty ==
    /\ live = FALSE
    /\ uid = 0
    /\ board = Blank
    /\ verdict = "None"
    /\ spec \in ManifestIds

Submit ==
    /\ ~live
    /\ uid < MaxUid
    /\ live' = TRUE
    /\ uid' = uid + 1
    /\ spec' \in ManifestIds
    /\ board' = Blank
    /\ verdict' = "None"

\* The user replaces the manifest; nothing that happened is forgotten.
Edit ==
    /\ live
    /\ spec' \in ManifestIds
    /\ UNCHANGED <<live, uid, board, verdict>>

Remove ==
    /\ live
    /\ live' = FALSE
    /\ spec' \in ManifestIds
    /\ board' = Blank
    /\ verdict' = "None"
    /\ UNCHANGED uid

Admit ==
    /\ live
    /\ board = Blank
    /\ board' = [t \in TaskNames |->
                    IF t \in Tasks(Manifest[spec]) THEN "Pending" ELSE "Absent"]
    /\ verdict' = "Pending"
    /\ UNCHANGED <<live, uid, spec>>

Open == verdict \notin {"Completed", "Failed"}

Finish(t) == board[t] = "Running" /\ board'[t] \in {"Succeeded", "Failed"}

\* A task begins when it was waiting, the manifest has it, and everything it
\* depends on is shown as Succeeded by the time it is shown as Running.
Begin(t) ==
    /\ board[t] \in {"Absent", "Pending"}
    /\ board'[t] = "Running"
    /\ t \in Tasks(Manifest[spec])
    /\ Manifest[spec].deps[t] \subseteq At(board', "Succeeded")

\* One stored status: results come in and ready tasks begin, none has failed
\* and something is left to do.
Advance ==
    /\ live
    /\ Open
    /\ board' \in [TaskNames -> TaskPhases]
    /\ \A t \in TaskNames : board'[t] = board[t] \/ Finish(t) \/ Begin(t)
    /\ At(board', "Failed") = {}
    /\ verdict' = "Running"
    /\ UNCHANGED <<live, uid, spec>>

\* A verdict is stored with the results that decide it, and nothing begins.
Conclude ==
    /\ live
    /\ Open
    /\ board' \in [TaskNames -> TaskPhases]
    /\ \A t \in TaskNames : board'[t] = board[t] \/ Finish(t)
    /\ \/ /\ At(board', "Failed") # {}
          /\ verdict' = "Failed"
       \/ /\ At(board', "Succeeded") # {}
          /\ TaskNames = At(board', "Succeeded") \cup At(board', "Absent")
          /\ verdict' = "Completed"
    /\ UNCHANGED <<live, uid, spec>>

Change == Submit \/ Edit \/ Remove \/ Admit \/ Advance \/ Conclude

Contract == Empty /\ [][Change]_board_vars
=============================================================================
