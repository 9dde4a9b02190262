------------------------------ MODULE Recovery ------------------------------
(***************************************************************************)
(* What `recover` reports (internal/recovery/recovery.go), from whatever   *)
(* the pipeline has left behind when it is run.  Analyze only reads, so    *)
(* the report is a function of the durable state.                          *)
(***************************************************************************)
EXTENDS Executor, FiniteSetsExt

\* A task that BACKLOG.md shows as in-progress is taken for one a crash cut short.
InterruptedTasks == {t \in Tasks : backlog[t] = "in-progress"}
Interrupted == InterruptedTasks # {}

\* The report names the first of them in the file.
ReportedTask == Min(InterruptedTasks)

AtRest == pc \in {"idle", "down"}

\* Between runs, what recovery reports is what happened and what will happen: one
\* task at most is interrupted; CURRENT.md, printed beside it, is about that task;
\* all that Claude left in the tree is its work; and a further `start` goes on with
\* it and no other.  (Not so when someone reopened a task of higher priority.)
ReportIsRight ==
  AtRest /\ Interrupted /\ env.reopens = 0 =>
    /\ InterruptedTasks = {ReportedTask}
    /\ current.task = ReportedTask
    /\ tree.by \subseteq {ReportedTask, Human}
    /\ ReportedTask \in Open /\ First(ReportedTask)
=============================================================================
