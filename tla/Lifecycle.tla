------------------------------ MODULE Lifecycle ------------------------------
(***************************************************************************)
(* What the pipeline promises of a task, whatever happens inside a run:    *)
(* one task runs at a time; its status is the only one that changes; it    *)
(* is committed at most once while it runs; and the run ends with the task *)
(* done or, with nothing committed, blocked.                               *)
(*                                                                         *)
(* Once there is trouble (a crash, an I/O error, an interrupt) a run may   *)
(* also be abandoned with the task still in-progress, and a commit may be  *)
(* made that the run itself takes for a failure.                           *)
(***************************************************************************)
EXTENDS Naturals, Sequences

CONSTANTS Tasks, None

VARIABLES
  status,   \* [Tasks -> {"new", "in-progress", "blocked", "done"}]
  running,  \* the task of the run in progress, or None
  landed,   \* the run in progress knows that it has made its commit
  commits,  \* the task of each commit
  trouble   \* there has been some

lvars == <<status, running, landed, commits, trouble>>

LInit ==
  /\ status = [t \in Tasks |-> "new"]
  /\ running = None /\ landed = FALSE /\ commits = <<>> /\ trouble = FALSE

\* A run of an open task starts.
Start(t) ==
  /\ running = None /\ status[t] \in {"new", "in-progress"}
  /\ running' = t /\ landed' = FALSE
  /\ status' = [status EXCEPT ![t] = "in-progress"]
  /\ UNCHANGED commits

\* The running task is committed.
Land ==
  /\ running # None /\ ~landed
  /\ commits' = Append(commits, running) /\ landed' = TRUE
  /\ UNCHANGED <<status, running>>

\* It is committed, but the command that did so was killed and reports failure.
LandUnseen ==
  /\ trouble' /\ running # None /\ ~landed
  /\ commits' = Append(commits, running)
  /\ UNCHANGED <<status, running, landed>>

\* The run ends done, or blocked if it knows of no commit.
Settle(s) ==
  /\ running # None
  /\ s = "blocked" => ~landed
  /\ status' = [status EXCEPT ![running] = s]
  /\ running' = None /\ landed' = FALSE
  /\ UNCHANGED commits

\* The run stops and leaves the task as it is.
Abandon ==
  /\ trouble' /\ running # None
  /\ running' = None /\ landed' = FALSE
  /\ UNCHANGED <<status, commits>>

\* Between runs a human sets a blocked task back to new.
Reopen(t) ==
  /\ running = None /\ status[t] = "blocked"
  /\ status' = [status EXCEPT ![t] = "new"]
  /\ UNCHANGED <<running, landed, commits>>

\* Trouble comes at any time, with a step of the run or by itself, and is remembered.
Trouble == trouble' \in BOOLEAN /\ (trouble => trouble')

LNext == /\ Trouble
         /\ \/ \E t \in Tasks : Start(t) \/ Reopen(t)
            \/ Land \/ LandUnseen \/ Abandon
            \/ \E s \in {"done", "blocked"} : Settle(s)
            \/ UNCHANGED <<status, running, landed, commits>>

LSpec == LInit /\ [][LNext]_lvars
=============================================================================
