------------------------- MODULE ExecutorRefinement -------------------------
(***************************************************************************)
(* The pipeline implements Lifecycle.  A run counts as running from the    *)
(* write that marks its task in-progress to the write that settles it.     *)
(***************************************************************************)
EXTENDS Executor

InRun == {"implement", "implemented", "verify", "gates", "repair", "repairing", "review",
          "reviewing", "revise", "revising", "committing", "commit", "changelog",
          "mark-done", "fail", "block"}

RunningTask == IF pc \in InRun THEN task ELSE None
KnowsCommit == pc \in InRun /\ commit # 0
CommitTasks == [i \in DOMAIN history |-> history[i].task]
Troubled    == env.faults + env.crashes + env.cancels > 0

Promise == INSTANCE Lifecycle WITH
  status <- backlog, running <- RunningTask, landed <- KnowsCommit,
  commits <- CommitTasks, trouble <- Troubled

\* Every step of the pipeline is a step Lifecycle allows, or changes nothing it
\* can see: no stage touches another task's status, commits twice in a run,
\* settles a task twice, or blocks one whose commit it has recorded, and none is
\* abandoned unless a crash, an error or an interrupt has come.
ImplementsLifecycle == Promise!LSpec
=============================================================================
