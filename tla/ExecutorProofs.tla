--------------------------- MODULE ExecutorProofs ---------------------------
(***************************************************************************)
(* Type correctness of the pipeline, its promises about commits, about     *)
(* what its documents record and about what it leaves behind, what         *)
(* `recover` reports of that, that it implements Lifecycle, and that a run *)
(* takes a bounded number of steps: for any backlog, any attempt limits    *)
(* and any number of faults, crashes, interrupts and edits.                *)
(***************************************************************************)
EXTENDS Recovery, ExecutorRefinement, TLAPS

\* Every label but the two at which no run is in progress.
Running == Labels \ {"idle", "down"}

\* While a run is in progress it has a task.
TaskChosen == pc \in Running => task \in Tasks

\* The loops enter another attempt only while attempts are left.
AttemptsLeft ==
  /\ pc \in {"repair", "repairing"} => repairs < MaxRepairAttempts
  /\ pc \in {"revise", "revising"} => revisions < MaxReviewAttempts

\* Past requireCleanTree, the tree holds the task's own work, and perhaps a human's.
TreeIsOwn == pc \in Running \ {"clean"} => tree.by \subseteq {task, Human}

\* Past the gates, the tree is verified, and past the review approved, unless a
\* human, or the reviewer, has touched it since.
TreeIsChecked ==
  ~ReviewerEdits /\ Human \notin tree.by =>
    /\ pc \in {"review", "reviewing", "revise", "revising", "committing", "commit"} => tree.verified
    /\ pc \in {"committing", "commit"} /\ ReviewEnabled => tree.approved

IInv == TypeOK /\ TaskChosen /\ AttemptsLeft /\ TreeIsOwn /\ TreeIsChecked
               /\ PipelineCommitsChecked /\ CommitsOwnWork
-----------------------------------------------------------------------------
\* Appending an element of S to a sequence over S.
LEMMA AppendType ==
  ASSUME NEW S, NEW s \in Seq(S), NEW e \in S
  PROVE  Append(s, e) \in Seq(S)
OBVIOUS

\* What a write of CHANGELOG.md may leave, whole or cut short, has the type of one.
LEMMA ChangelogStep ==
  ASSUME changelog \in Logs, task \in Tasks, commit \in Nat
  PROVE  Entered \in Logs /\ Torn \in Logs
<1>1. [task |-> task, commit |-> commit] \in Entries
  BY DEF Entries
<1>2. Append(changelog.entries, [task |-> task, commit |-> commit]) \in Seq(Entries)
  BY <1>1, AppendType DEF Logs
<1>3. <<>> \in Seq(Entries)
  OBVIOUS
<1> QED
  BY <1>2, <1>3 DEF Entered, Torn, Logs

\* The two ways the tree is replaced, and what a commit records of it, are typed.
LEMMA PristineIsWork == Pristine \in Work
BY DEF Pristine, Work

\* An edit adds its author and voids the checks.
LEMMA EditedIsWork ==
  ASSUME RepositoryOK, NEW w \in Who
  PROVE  Edited(w) \in Work
BY DEF RepositoryOK, Edited, Work

\* A commit records the tree.
LEMMA NewCommitIsCommit ==
  ASSUME RepositoryOK, task \in Tasks
  PROVE  NewCommit \in Commits
BY DEF RepositoryOK, NewCommit, Work, Commits

\* Spending from a budget leaves every budget a count.
LEMMA SpendKeepsBudgets ==
  ASSUME env \in Budgets, NEW max, NEW f \in {"faults", "crashes", "cancels", "edits", "reopens"},
         Spend(f, max)
  PROVE  (env \in Budgets)'
BY DEF Spend, Budgets

\* A step leaves the environment's record alone or spends from one of its budgets.
LEMMA EnvStep ==
  ASSUME [Next]_vars
  PROVE  \/ env' = env
         \/ \E f \in {"faults", "crashes", "cancels", "edits", "reopens"}, max \in
                {MaxFaults, MaxCrashes, MaxCancels, MaxEdits, MaxReopens} : Spend(f, max)
<1>1. CASE Process
  <2> USE DEF durable, counts, At, Goto, Fail, Return, IOFails, GitFails
  <2>1. CASE Begin
    <3>1. env' = env \/ Spend("faults", MaxFaults)
      BY <2>1 DEF Begin, SelectTask, RequireCleanTree, MarkCurrent, MarkInProgress
    <3> QED
      BY <3>1
  <2>2. CASE Build
    <3>1. env' = env \/ Spend("faults", MaxFaults)
      BY <2>2 DEF Build, Implement, CheckpointImplemented, StartVerify, RunGates,
      StartRepair, Repair, Session, WriteCheckpoint, UpdateStage, UpdateStageUnlessCancelled
    <3> QED
      BY <3>1
  <2>3. CASE Critique
    <3>1. env' = env \/ Spend("faults", MaxFaults)
      BY <2>3 DEF Critique, StartReview, Review, StartRevise, Revise, Session, UpdateStage,
      UpdateStageUnlessCancelled
    <3> QED
      BY <3>1
  <2>4. CASE Conclude
    <3>1. env' = env \/ Spend("faults", MaxFaults)
      BY <2>4 DEF Conclude, StartCommit, Commit, RecordChangelog, MarkDone, ClearCurrent,
      CheckpointDone, WriteCheckpoint, UpdateStage
    <3> QED
      BY <3>1
  <2>5. CASE GiveUp
    <3>1. env' = env \/ Spend("faults", MaxFaults)
      BY <2>5 DEF GiveUp, RecordFailure, MarkBlocked, CheckpointFailure, WriteCheckpoint
    <3> QED
      BY <3>1
  <2>6. CASE Exit \/ Restart
    BY <2>6 DEF Exit, Restart
  <2> QED
    BY <1>1, <2>1, <2>2, <2>3, <2>4, <2>5, <2>6 DEF Process
<1>2. CASE Outside
  <2>1. \/ env' = env
        \/ Spend("cancels", MaxCancels) \/ Spend("crashes", MaxCrashes)
        \/ Spend("edits", MaxEdits) \/ Spend("reopens", MaxReopens)
    BY <1>2 DEF Outside, Cancel, CommitKilled, Crash, HumanEdit, HumanTidies, HumanReopens
  <2> QED
    BY <2>1
<1>3. CASE UNCHANGED vars
  BY <1>3 DEF vars
<1> QED
  BY <1>1, <1>2, <1>3 DEF Next

\* The environment's budgets stay counts.
LEMMA BudgetsStep ==
  ASSUME env \in Budgets, [Next]_vars
  PROVE  (env \in Budgets)'
BY EnvStep, SpendKeepsBudgets

\* The settings are those the run started with.
LEMMA SettingsKept ==
  ASSUME env \in Budgets, [Next]_vars
  PROVE  /\ env'.set = env.set
         /\ ReviewEnabled' = ReviewEnabled /\ ReviewerEdits' = ReviewerEdits
         /\ AutoCommit' = AutoCommit /\ StateIgnored' = StateIgnored
<1>1. env'.set = env.set
  BY EnvStep DEF Spend, Budgets
<1> QED
  BY <1>1 DEF ReviewEnabled, ReviewerEdits, AutoCommit, StateIgnored

\* A loop is entered again only below its limit.
LEMMA AttemptsStep ==
  ASSUME RunOK, AttemptsLeft, [Next]_vars
  PROVE  AttemptsLeft'
<1> USE ConstantsAssumption
    DEF durable, counts, At, Goto, Fail, Return, IOFails, GitFails, Spend,
        AttemptsLeft, RunOK
<1>1. CASE Begin
  BY <1>1 DEF Begin, SelectTask, RequireCleanTree, MarkCurrent, MarkInProgress, Open
<1>2. CASE Build
  BY <1>2 DEF Build, Implement, CheckpointImplemented, StartVerify, RunGates,
  StartRepair, Repair, Session, WriteCheckpoint, UpdateStage, UpdateStageUnlessCancelled
<1>3. CASE Critique
  BY <1>3 DEF Critique, StartReview, Review, ReviewerLeaves, StartRevise, Revise, Session, UpdateStage,
  UpdateStageUnlessCancelled
<1>4. CASE Conclude
  BY <1>4 DEF Conclude, StartCommit, Commit, RecordChangelog, MarkDone, ClearCurrent,
  CheckpointDone, WriteCheckpoint, UpdateStage
<1>5. CASE GiveUp
  BY <1>5 DEF GiveUp, RecordFailure, MarkBlocked, CheckpointFailure, WriteCheckpoint
<1>6. CASE Exit \/ Restart \/ Cancel
  BY <1>6 DEF Exit, Restart, Cancel
<1>7. CASE CommitKilled \/ Crash
  BY <1>7 DEF CommitKilled, Crash
<1>8. CASE HumanEdit \/ HumanTidies
  BY <1>8 DEF HumanEdit, HumanTidies
<1>9. ASSUME NEW t \in Tasks, HumanReopens(t) PROVE AttemptsLeft'
  BY <1>9 DEF HumanReopens
<1>10. CASE UNCHANGED vars
  BY <1>10 DEF vars
<1> QED
  BY <1>1, <1>2, <1>3, <1>4, <1>5, <1>6, <1>7, <1>8, <1>9, <1>10 DEF Next, Process,
  Outside

\* A run has a task from its selection to its return.
LEMMA TaskStep ==
  ASSUME RunOK, TaskChosen, [Next]_vars
  PROVE  TaskChosen'
<1> USE ConstantsAssumption
    DEF durable, counts, At, Goto, Fail, Return, IOFails, GitFails, Spend,
        TaskChosen, RunOK, Running, Labels
<1>1. CASE Begin
  <2>1. CASE SelectTask
    BY <2>1 DEF SelectTask, Open
  <2>2. CASE RequireCleanTree
    BY <2>2 DEF RequireCleanTree
  <2>3. CASE MarkCurrent
    BY <2>3 DEF MarkCurrent
  <2>4. CASE MarkInProgress
    BY <2>4 DEF MarkInProgress
  <2> QED
    BY <1>1, <2>1, <2>2, <2>3, <2>4 DEF Begin
<1>2. CASE Build
  <2>1. CASE Implement
    BY <2>1 DEF Implement, Session
  <2>2. CASE CheckpointImplemented
    BY <2>2 DEF CheckpointImplemented, WriteCheckpoint
  <2>3. CASE StartVerify
    BY <2>3 DEF StartVerify, UpdateStage
  <2>4. CASE RunGates
    BY <2>4 DEF RunGates
  <2>5. CASE StartRepair
    BY <2>5 DEF StartRepair, UpdateStageUnlessCancelled, UpdateStage
  <2>6. CASE Repair
    BY <2>6 DEF Repair, Session
  <2> QED
    BY <1>2, <2>1, <2>2, <2>3, <2>4, <2>5, <2>6 DEF Build
<1>3. CASE Critique
  <2>1. CASE StartReview
    BY <2>1 DEF StartReview, UpdateStageUnlessCancelled, UpdateStage
  <2>2. CASE Review
    BY <2>2 DEF Review, ReviewerLeaves
  <2>3. CASE StartRevise
    BY <2>3 DEF StartRevise, UpdateStage
  <2>4. CASE Revise
    BY <2>4 DEF Revise, Session
  <2> QED
    BY <1>3, <2>1, <2>2, <2>3, <2>4 DEF Critique
<1>4. CASE Conclude
  <2>1. CASE StartCommit
    BY <2>1 DEF StartCommit, UpdateStage
  <2>2. CASE Commit
    BY <2>2 DEF Commit
  <2>3. CASE RecordChangelog
    BY <2>3 DEF RecordChangelog
  <2>4. CASE MarkDone
    BY <2>4 DEF MarkDone
  <2>5. CASE ClearCurrent
    BY <2>5 DEF ClearCurrent
  <2>6. CASE CheckpointDone
    BY <2>6 DEF CheckpointDone, WriteCheckpoint
  <2> QED
    BY <1>4, <2>1, <2>2, <2>3, <2>4, <2>5, <2>6 DEF Conclude
<1>5. CASE GiveUp
  BY <1>5 DEF GiveUp, RecordFailure, MarkBlocked, CheckpointFailure, WriteCheckpoint
<1>6. CASE Exit \/ Restart \/ Cancel
  BY <1>6 DEF Exit, Restart, Cancel
<1>7. CASE CommitKilled \/ Crash
  BY <1>7 DEF CommitKilled, Crash
<1>8. CASE HumanEdit \/ HumanTidies
  BY <1>8 DEF HumanEdit, HumanTidies
<1>9. ASSUME NEW t \in Tasks, HumanReopens(t) PROVE TaskChosen'
  BY <1>9 DEF HumanReopens
<1>10. CASE UNCHANGED vars
  BY <1>10 DEF vars
<1> QED
  BY <1>1, <1>2, <1>3, <1>4, <1>5, <1>6, <1>7, <1>8, <1>9, <1>10 DEF Next, Process,
  Outside

\* The documents under .ai/ keep their types.
LEMMA DocumentsStep ==
  ASSUME DocumentsOK, RunOK, TaskChosen, [Next]_vars
  PROVE  DocumentsOK'
<1> USE ConstantsAssumption
    DEF durable, counts, At, Goto, Fail, Return, IOFails, GitFails, Spend,
        DocumentsOK, Status
<1>0. /\ pc # "idle" /\ pc # "down" => task \in Tasks
      /\ commit \in Nat
  BY DEF RunOK, TaskChosen, Running
<1>00. /\ \A s \in Stage : [current EXCEPT !.stage = s] \in Notes
       /\ \A t \in Tasks, s \in Stage : [task |-> t, stage |-> s] \in Notes
       /\ [task |-> None, stage |-> "done"] \in Notes
       /\ [task |-> task, stage |-> current.stage] \in Notes
       /\ {"implementing", "verifying", "repairing", "reviewing", "committing", "done"} \subseteq Stage
  BY DEF DocumentsOK, Notes, Stage, RunOK
<1> USE <1>0, <1>00
<1>1. CASE Begin
  <2>1. CASE SelectTask
    BY <2>1 DEF SelectTask, Open
  <2>2. CASE RequireCleanTree
    BY <2>2 DEF RequireCleanTree
  <2>3. CASE MarkCurrent
    BY <2>3 DEF MarkCurrent
  <2>4. CASE MarkInProgress
    BY <2>4 DEF MarkInProgress
  <2> QED
    BY <1>1, <2>1, <2>2, <2>3, <2>4 DEF Begin
<1>2. CASE Build
  BY <1>2 DEF Build, Implement, CheckpointImplemented, StartVerify, RunGates,
  StartRepair, Repair, Session, WriteCheckpoint, UpdateStage, UpdateStageUnlessCancelled
<1>3. CASE Critique
  <2>1. CASE StartReview
    BY <2>1 DEF StartReview, UpdateStageUnlessCancelled, UpdateStage
  <2>2. CASE Review
    BY <2>2 DEF Review, ReviewerLeaves
  <2>3. CASE StartRevise
    BY <2>3 DEF StartRevise, UpdateStage
  <2>4. CASE Revise
    BY <2>4 DEF Revise, Session
  <2> QED
    BY <1>3, <2>1, <2>2, <2>3, <2>4 DEF Critique
<1>4. CASE Conclude
  <2>1. CASE StartCommit
    BY <2>1 DEF StartCommit, UpdateStage
  <2>2. CASE Commit
    BY <2>2 DEF Commit
  <2>3. CASE RecordChangelog
    <3>1. changelog' \in Logs
      BY <2>3, ChangelogStep DEF RecordChangelog, CutShort
    <3>2. backlog' \in [Tasks -> Status] /\ current' \in Notes /\ ckpt' \in Notes
      BY <2>3 DEF RecordChangelog
    <3> QED
      BY <3>1, <3>2
  <2>4. CASE MarkDone
    BY <2>4 DEF MarkDone
  <2>5. CASE ClearCurrent
    BY <2>5 DEF ClearCurrent
  <2>6. CASE CheckpointDone
    BY <2>6 DEF CheckpointDone, WriteCheckpoint
  <2> QED
    BY <1>4, <2>1, <2>2, <2>3, <2>4, <2>5, <2>6 DEF Conclude
<1>5. CASE GiveUp
  BY <1>5 DEF GiveUp, RecordFailure, MarkBlocked, CheckpointFailure, WriteCheckpoint
<1>6. CASE Exit \/ Restart \/ Cancel
  BY <1>6 DEF Exit, Restart, Cancel
<1>7. CASE CommitKilled
  BY <1>7 DEF CommitKilled
<1>71. CASE Crash
  <2>1. changelog' \in Logs
    BY <1>71, ChangelogStep DEF Crash, CutShort
  <2> QED
    BY <1>71, <2>1 DEF Crash
<1>8. CASE HumanEdit \/ HumanTidies
  BY <1>8 DEF HumanEdit, HumanTidies
<1>9. ASSUME NEW t \in Tasks, HumanReopens(t) PROVE DocumentsOK'
  BY <1>9 DEF HumanReopens
<1>10. CASE UNCHANGED vars
  BY <1>10 DEF vars
<1> QED
  BY <1>1, <1>2, <1>3, <1>4, <1>5, <1>6, <1>7, <1>71, <1>8, <1>9, <1>10 DEF Next, Process,
  Outside

\* So do the history and the tree.
LEMMA RepositoryStep ==
  ASSUME RepositoryOK, RunOK, TaskChosen, [Next]_vars
  PROVE  RepositoryOK'
<1> USE ConstantsAssumption
    DEF durable, counts, At, Goto, Fail, Return, IOFails, GitFails, Spend,
        RepositoryOK
<1>0. pc # "idle" /\ pc # "down" => task \in Tasks
  BY DEF RunOK, TaskChosen, Running
<1> USE <1>0
<1>1. CASE Begin
  BY <1>1 DEF Begin, SelectTask, RequireCleanTree, MarkCurrent, MarkInProgress, Open
<1>2. CASE Build
  <2>1. /\ history' = history
        /\ \/ tree' \in {tree, Edited(task), Pristine}
           \/ tree' = [tree EXCEPT !.verified = TRUE]
           \/ tree' = [tree EXCEPT !.approved = TRUE]
    BY <1>2 DEF Build, Implement, CheckpointImplemented, StartVerify, RunGates,
    StartRepair, Repair, Session, WriteCheckpoint, UpdateStage,
    UpdateStageUnlessCancelled, SessionLeaves
  <2>2. task \in Tasks => Edited(task) \in Work
    BY EditedIsWork DEF Who
  <2>3. task \in Tasks
    BY <1>2 DEF Build, Implement, CheckpointImplemented, StartVerify, RunGates,
    StartRepair, Repair, Session, WriteCheckpoint, UpdateStage,
    UpdateStageUnlessCancelled
  <2> QED
    BY <2>1, <2>2, <2>3, PristineIsWork DEF Work
<1>3. CASE Critique
  <2>1. /\ history' = history
        /\ \/ tree' \in {tree, Edited(task), Pristine}
           \/ tree' = [tree EXCEPT !.verified = TRUE]
           \/ tree' = [tree EXCEPT !.approved = TRUE]
    BY <1>3 DEF Critique, StartReview, Review, ReviewerLeaves, StartRevise, Revise, Session, UpdateStage,
    UpdateStageUnlessCancelled, SessionLeaves
  <2>2. task \in Tasks => Edited(task) \in Work
    BY EditedIsWork DEF Who
  <2>3. task \in Tasks
    BY <1>3 DEF Critique, StartReview, Review, ReviewerLeaves, StartRevise, Revise, Session, UpdateStage,
    UpdateStageUnlessCancelled
  <2> QED
    BY <2>1, <2>2, <2>3, PristineIsWork DEF Work
<1>4. CASE Conclude
  <2>1. \/ UNCHANGED <<history, tree>>
        \/ At("commit") /\ history' = Append(history, NewCommit) /\ tree' = Pristine
    BY <1>4 DEF Conclude, StartCommit, Commit, RecordChangelog, MarkDone, ClearCurrent,
             CheckpointDone, WriteCheckpoint, UpdateStage
  <2> QED
    BY <2>1, NewCommitIsCommit, PristineIsWork
<1>5. CASE GiveUp
  BY <1>5 DEF GiveUp, RecordFailure, MarkBlocked, CheckpointFailure, WriteCheckpoint
<1>6. CASE Exit \/ Restart \/ Cancel
  BY <1>6 DEF Exit, Restart, Cancel
<1>7. CASE CommitKilled
  BY <1>7, NewCommitIsCommit, PristineIsWork DEF CommitKilled
<1>8. CASE Crash
  BY <1>8 DEF Crash
<1>9. CASE HumanEdit
  BY <1>9, EditedIsWork DEF HumanEdit, Who
<1>10. CASE HumanTidies
  BY <1>10, PristineIsWork DEF HumanTidies
<1>11. ASSUME NEW t \in Tasks, HumanReopens(t) PROVE RepositoryOK'
  BY <1>11 DEF HumanReopens
<1>12. CASE UNCHANGED vars
  BY <1>12 DEF vars
<1> QED
  BY <1>1, <1>2, <1>3, <1>4, <1>5, <1>6, <1>7, <1>8, <1>9, <1>10, <1>11, <1>12 DEF Next,
  Process, Outside

\* So does the state of the run, attempt counters included.
LEMMA RunStep ==
  ASSUME RunOK, RepositoryOK, AttemptsLeft, RepositoryOK', [Next]_vars
  PROVE  RunOK'
<1> USE ConstantsAssumption
    DEF durable, counts, At, Goto, Fail, Return, IOFails, GitFails, Spend,
        RunOK, RepositoryOK, AttemptsLeft, Labels, Result
<1>1. CASE Begin
  <2>1. CASE SelectTask
    BY <2>1 DEF SelectTask, Open
  <2>2. CASE RequireCleanTree
    BY <2>2 DEF RequireCleanTree
  <2>3. CASE MarkCurrent
    BY <2>3 DEF MarkCurrent
  <2>4. CASE MarkInProgress
    BY <2>4 DEF MarkInProgress
  <2> QED
    BY <1>1, <2>1, <2>2, <2>3, <2>4 DEF Begin
<1>2. CASE Build
  <2>1. CASE Implement
    BY <2>1 DEF Implement, Session
  <2>2. CASE CheckpointImplemented
    BY <2>2 DEF CheckpointImplemented, WriteCheckpoint
  <2>3. CASE StartVerify
    BY <2>3 DEF StartVerify, UpdateStage
  <2>4. CASE RunGates
    BY <2>4 DEF RunGates
  <2>5. CASE StartRepair
    BY <2>5 DEF StartRepair, UpdateStageUnlessCancelled, UpdateStage
  <2>6. CASE Repair
    BY <2>6 DEF Repair, Session
  <2> QED
    BY <1>2, <2>1, <2>2, <2>3, <2>4, <2>5, <2>6 DEF Build
<1>3. CASE Critique
  <2>1. CASE StartReview
    BY <2>1 DEF StartReview, UpdateStageUnlessCancelled, UpdateStage
  <2>2. CASE Review
    BY <2>2 DEF Review, ReviewerLeaves
  <2>3. CASE StartRevise
    BY <2>3 DEF StartRevise, UpdateStage
  <2>4. CASE Revise
    BY <2>4 DEF Revise, Session
  <2> QED
    BY <1>3, <2>1, <2>2, <2>3, <2>4 DEF Critique
<1>4. CASE Conclude
  <2>1. CASE StartCommit
    BY <2>1 DEF StartCommit, UpdateStage
  <2>2. CASE Commit
    BY <2>2 DEF Commit
  <2>3. CASE RecordChangelog
    BY <2>3 DEF RecordChangelog
  <2>4. CASE MarkDone
    BY <2>4 DEF MarkDone
  <2>5. CASE ClearCurrent
    BY <2>5 DEF ClearCurrent
  <2>6. CASE CheckpointDone
    BY <2>6 DEF CheckpointDone, WriteCheckpoint
  <2> QED
    BY <1>4, <2>1, <2>2, <2>3, <2>4, <2>5, <2>6 DEF Conclude
<1>5. CASE GiveUp
  BY <1>5 DEF GiveUp, RecordFailure, MarkBlocked, CheckpointFailure, WriteCheckpoint
<1>6. CASE Exit \/ Restart \/ Cancel
  <2>1. CASE Exit
    BY <2>1 DEF Exit
  <2>2. CASE Restart
    BY <2>2 DEF Restart
  <2>3. CASE Cancel
    BY <2>3 DEF Cancel
  <2> QED
    BY <1>6, <2>1, <2>2, <2>3
<1>7. CASE Crash
  <2>1. /\ task' \in Tasks \cup {None} /\ commit' \in Nat /\ cancelled' \in BOOLEAN
        /\ result' \in Result /\ pc' \in Labels
    BY <1>7 DEF Crash
  <2>2. repairs' = 0 /\ revisions' = 0
    BY <1>7 DEF Crash
  <2>3. 0 \in 0..MaxRepairAttempts /\ 0 \in 0..MaxReviewAttempts
    OBVIOUS
  <2> QED
    BY <2>1, <2>2, <2>3
<1>8. CASE CommitKilled
  BY <1>8 DEF CommitKilled
<1>9. CASE HumanEdit \/ HumanTidies
  BY <1>9 DEF HumanEdit, HumanTidies
<1>10. ASSUME NEW t \in Tasks, HumanReopens(t) PROVE RunOK'
  BY <1>10 DEF HumanReopens
<1>11. CASE UNCHANGED vars
  BY <1>11 DEF vars
<1> QED
  BY <1>1, <1>2, <1>3, <1>4, <1>5, <1>6, <1>7, <1>8, <1>9, <1>10, <1>11 DEF Next,
  Process, Outside

\* Past requireCleanTree only the task itself, or a human, adds to the tree.
LEMMA OwnStep ==
  ASSUME RepositoryOK, RunOK, TreeIsOwn, [Next]_vars
  PROVE  TreeIsOwn'
<1> USE ConstantsAssumption
    DEF durable, counts, At, Goto, Fail, Return, IOFails, GitFails, Spend,
        TreeIsOwn, RepositoryOK, RunOK, Work, Running, Labels
<1>1. CASE Begin
  <2>1. CASE SelectTask
    BY <2>1 DEF SelectTask, Open
  <2>2. CASE RequireCleanTree
    BY <2>2 DEF RequireCleanTree, RealWorkClean
  <2>3. CASE MarkCurrent
    BY <2>3 DEF MarkCurrent
  <2>4. CASE MarkInProgress
    BY <2>4 DEF MarkInProgress
  <2> QED
    BY <1>1, <2>1, <2>2, <2>3, <2>4 DEF Begin
<1>2. CASE Build
  <2>1. CASE Implement
    BY <2>1 DEF Implement, Session, SessionLeaves, Edited, Pristine
  <2>2. CASE CheckpointImplemented
    BY <2>2 DEF CheckpointImplemented, WriteCheckpoint
  <2>3. CASE StartVerify
    BY <2>3 DEF StartVerify, UpdateStage
  <2>4. CASE RunGates
    BY <2>4 DEF RunGates
  <2>5. CASE StartRepair
    BY <2>5 DEF StartRepair, UpdateStageUnlessCancelled, UpdateStage
  <2>6. CASE Repair
    BY <2>6 DEF Repair, Session, SessionLeaves, Edited, Pristine
  <2> QED
    BY <1>2, <2>1, <2>2, <2>3, <2>4, <2>5, <2>6 DEF Build
<1>3. CASE Critique
  <2>1. CASE StartReview
    BY <2>1 DEF StartReview, UpdateStageUnlessCancelled, UpdateStage
  <2>2. CASE Review
    <3>1. /\ pc = "reviewing" /\ task' = task
          /\ tree' \in {tree, [tree EXCEPT !.approved = TRUE], Edited(task)}
      BY <2>2 DEF Review, ReviewerLeaves
    <3>2. CASE tree' = tree
      BY <3>1, <3>2
    <3>3. CASE tree' = [tree EXCEPT !.approved = TRUE]
      <4>1. tree'.by = tree.by
        BY <3>3
      <4> QED
        BY <3>1, <4>1
    <3>4. CASE tree' = Edited(task)
      <4>1. tree'.by = tree.by \cup {task}
        BY <3>4 DEF Edited
      <4> QED
        BY <3>1, <4>1
    <3> QED
      BY <3>1, <3>2, <3>3, <3>4
  <2>3. CASE StartRevise
    BY <2>3 DEF StartRevise, UpdateStage
  <2>4. CASE Revise
    BY <2>4 DEF Revise, Session, SessionLeaves, Edited, Pristine
  <2> QED
    BY <1>3, <2>1, <2>2, <2>3, <2>4 DEF Critique
<1>4. CASE Conclude
  <2>1. CASE StartCommit
    BY <2>1 DEF StartCommit, UpdateStage
  <2>2. CASE Commit
    BY <2>2 DEF Commit, NewCommit, Pristine
  <2>3. CASE RecordChangelog
    BY <2>3 DEF RecordChangelog
  <2>4. CASE MarkDone
    BY <2>4 DEF MarkDone
  <2>5. CASE ClearCurrent
    BY <2>5 DEF ClearCurrent
  <2>6. CASE CheckpointDone
    BY <2>6 DEF CheckpointDone, WriteCheckpoint
  <2> QED
    BY <1>4, <2>1, <2>2, <2>3, <2>4, <2>5, <2>6 DEF Conclude
<1>5. CASE GiveUp
  BY <1>5 DEF GiveUp, RecordFailure, MarkBlocked, CheckpointFailure, WriteCheckpoint
<1>6. CASE Exit \/ Restart \/ Cancel
  BY <1>6 DEF Exit, Restart, Cancel
<1>7. CASE CommitKilled \/ Crash
  BY <1>7 DEF CommitKilled, Crash, NewCommit, Pristine
<1>8. CASE HumanEdit \/ HumanTidies
  BY <1>8 DEF HumanEdit, HumanTidies, Edited, Pristine
<1>9. ASSUME NEW t \in Tasks, HumanReopens(t) PROVE TreeIsOwn'
  BY <1>9 DEF HumanReopens
<1>10. CASE UNCHANGED vars
  BY <1>10 DEF vars
<1> QED
  BY <1>1, <1>2, <1>3, <1>4, <1>5, <1>6, <1>7, <1>8, <1>9, <1>10 DEF Next, Process,
  Outside

\* The stages between the gates and the commit leave the tree alone, and those
\* that change it lead back to the gates.
LEMMA CheckedStep ==
  ASSUME RepositoryOK, RunOK, env \in Budgets, TreeIsChecked, [Next]_vars
  PROVE  TreeIsChecked'
<1>0. ReviewEnabled' = ReviewEnabled /\ ReviewerEdits' = ReviewerEdits
  BY SettingsKept
<1> USE <1>0, ConstantsAssumption
    DEF durable, counts, At, Goto, Fail, Return, IOFails, GitFails, Spend,
        TreeIsChecked, RepositoryOK, RunOK, Work
<1>1. CASE Begin
  <2>1. CASE SelectTask
    BY <2>1 DEF SelectTask, Open
  <2>2. CASE RequireCleanTree
    BY <2>2 DEF RequireCleanTree, RealWorkClean
  <2>3. CASE MarkCurrent
    BY <2>3 DEF MarkCurrent
  <2>4. CASE MarkInProgress
    BY <2>4 DEF MarkInProgress
  <2> QED
    BY <1>1, <2>1, <2>2, <2>3, <2>4 DEF Begin
<1>2. CASE Build
  <2>1. CASE Implement
    BY <2>1 DEF Implement, Session, SessionLeaves, Edited, Pristine
  <2>2. CASE CheckpointImplemented
    BY <2>2 DEF CheckpointImplemented, WriteCheckpoint
  <2>3. CASE StartVerify
    BY <2>3 DEF StartVerify, UpdateStage
  <2>4. CASE RunGates
    BY <2>4 DEF RunGates
  <2>5. CASE StartRepair
    BY <2>5 DEF StartRepair, UpdateStageUnlessCancelled, UpdateStage
  <2>6. CASE Repair
    BY <2>6 DEF Repair, Session, SessionLeaves, Edited, Pristine
  <2> QED
    BY <1>2, <2>1, <2>2, <2>3, <2>4, <2>5, <2>6 DEF Build
<1>3. CASE Critique
  <2>1. CASE StartReview
    BY <2>1 DEF StartReview, UpdateStageUnlessCancelled, UpdateStage
  <2>2. CASE Review
    BY <2>2 DEF Review, ReviewerLeaves, Edited
  <2>3. CASE StartRevise
    BY <2>3 DEF StartRevise, UpdateStage
  <2>4. CASE Revise
    BY <2>4 DEF Revise, Session, SessionLeaves, Edited, Pristine
  <2> QED
    BY <1>3, <2>1, <2>2, <2>3, <2>4 DEF Critique
<1>4. CASE Conclude
  <2>1. CASE StartCommit
    BY <2>1 DEF StartCommit, UpdateStage
  <2>2. CASE Commit
    BY <2>2 DEF Commit, NewCommit, Pristine
  <2>3. CASE RecordChangelog
    BY <2>3 DEF RecordChangelog
  <2>4. CASE MarkDone
    BY <2>4 DEF MarkDone
  <2>5. CASE ClearCurrent
    BY <2>5 DEF ClearCurrent
  <2>6. CASE CheckpointDone
    BY <2>6 DEF CheckpointDone, WriteCheckpoint
  <2> QED
    BY <1>4, <2>1, <2>2, <2>3, <2>4, <2>5, <2>6 DEF Conclude
<1>5. CASE GiveUp
  BY <1>5 DEF GiveUp, RecordFailure, MarkBlocked, CheckpointFailure, WriteCheckpoint
<1>6. CASE Exit \/ Restart \/ Cancel
  BY <1>6 DEF Exit, Restart, Cancel
<1>7. CASE CommitKilled \/ Crash
  BY <1>7 DEF CommitKilled, Crash, NewCommit, Pristine
<1>8. CASE HumanEdit \/ HumanTidies
  BY <1>8 DEF HumanEdit, HumanTidies, Edited, Pristine
<1>9. ASSUME NEW t \in Tasks, HumanReopens(t) PROVE TreeIsChecked'
  BY <1>9 DEF HumanReopens
<1>10. CASE UNCHANGED vars
  BY <1>10 DEF vars
<1> QED
  BY <1>1, <1>2, <1>3, <1>4, <1>5, <1>6, <1>7, <1>8, <1>9, <1>10 DEF Next, Process,
  Outside

\* The history grows only in a commit, by the record of the tree as it is.
LEMMA HistoryGrows ==
  ASSUME [Next]_vars
  PROVE  \/ history' = history
         \/ pc = "commit" /\ ~cancelled /\ history' = Append(history, NewCommit)
<1> USE DEF durable, counts, At, Goto, Fail, Return, IOFails, GitFails, Spend
<1>1. CASE Begin
  BY <1>1 DEF Begin, SelectTask, RequireCleanTree, MarkCurrent, MarkInProgress
<1>2. CASE Build
  BY <1>2 DEF Build, Implement, CheckpointImplemented, StartVerify, RunGates, StartRepair,
              Repair, Session, WriteCheckpoint, UpdateStage, UpdateStageUnlessCancelled
<1>3. CASE Critique
  BY <1>3 DEF Critique, StartReview, Review, ReviewerLeaves, StartRevise, Revise, Session, UpdateStage,
              UpdateStageUnlessCancelled
<1>4. CASE Conclude
  BY <1>4 DEF Conclude, StartCommit, Commit, RecordChangelog, MarkDone, ClearCurrent,
              CheckpointDone, WriteCheckpoint, UpdateStage
<1>5. CASE GiveUp
  BY <1>5 DEF GiveUp, RecordFailure, MarkBlocked, CheckpointFailure, WriteCheckpoint
<1>6. CASE Exit \/ Restart
  BY <1>6 DEF Exit, Restart
<1>7. CASE CommitKilled
  BY <1>7 DEF CommitKilled
<1>8. CASE Cancel \/ Crash \/ HumanEdit \/ HumanTidies \/ \E t \in Tasks : HumanReopens(t)
  BY <1>8 DEF Cancel, Crash, HumanEdit, HumanTidies, HumanReopens
<1>9. CASE UNCHANGED vars
  BY <1>9 DEF vars
<1> QED
  BY <1>1, <1>2, <1>3, <1>4, <1>5, <1>6, <1>7, <1>8, <1>9 DEF Next, Process, Outside

\* The record of a commit is checked and of the task's own work, because the tree is.
LEMMA CommitsStep ==
  ASSUME RepositoryOK, env \in Budgets, TaskChosen, TreeIsOwn, TreeIsChecked,
         PipelineCommitsChecked, CommitsOwnWork, [Next]_vars
  PROVE  PipelineCommitsChecked' /\ CommitsOwnWork'
<1>0. ReviewEnabled' = ReviewEnabled /\ ReviewerEdits' = ReviewerEdits
  BY SettingsKept
<1>1. CASE history' = history
  BY <1>0, <1>1 DEF PipelineCommitsChecked, CommitsOwnWork, Checked
<1>2. CASE pc = "commit" /\ history' = Append(history, NewCommit)
  <2>1. /\ NewCommit.task = task /\ NewCommit.by = tree.by
        /\ NewCommit.verified = tree.verified /\ NewCommit.approved = tree.approved
    BY DEF NewCommit
  <2>2. NewCommit.by \subseteq {NewCommit.task, Human}
    BY <1>2, <2>1 DEF TreeIsOwn, Running, Labels
  <2>3. ~ReviewerEdits /\ Human \notin NewCommit.by => Checked(NewCommit)
    BY <1>2, <2>1 DEF TreeIsChecked, Checked
  <2>4. \A i \in DOMAIN history' : \/ i \in DOMAIN history /\ history'[i] = history[i]
                                   \/ history'[i] = NewCommit
    BY <1>2 DEF RepositoryOK
  <2>5. PipelineCommitsChecked'
    BY <1>0, <2>3, <2>4 DEF PipelineCommitsChecked, Checked
  <2>6. CommitsOwnWork'
    BY <2>2, <2>4 DEF CommitsOwnWork
  <2> QED
    BY <2>5, <2>6
<1> QED
  BY <1>1, <1>2, HistoryGrows

\* The inductive invariant holds initially ...
LEMMA InitIInv == Init => IInv
<1> SUFFICES ASSUME Init PROVE IInv
  OBVIOUS
<1> USE ConstantsAssumption DEF Init
<1>1. DocumentsOK
  BY DEF DocumentsOK, Status, Notes, Logs
<1>2. RepositoryOK
  BY PristineIsWork DEF RepositoryOK
<1>3. RunOK /\ env \in Budgets
  <2>0. PICK set \in Settings :
          env = [set |-> set, faults |-> 0, crashes |-> 0, cancels |-> 0, edits |-> 0, reopens |-> 0]
    OBVIOUS
  <2>1. /\ task \in Tasks \cup {None} /\ commit \in Nat /\ cancelled \in BOOLEAN
        /\ pc \in Labels /\ result \in Result
    BY DEF Labels, Result
  <2>2. repairs \in 0..MaxRepairAttempts /\ revisions \in 0..MaxReviewAttempts
    OBVIOUS
  <2>3. env \in Budgets
    BY <2>0 DEF Budgets
  <2> QED
    BY <2>1, <2>2, <2>3 DEF RunOK
<1>4. TaskChosen /\ AttemptsLeft /\ TreeIsOwn /\ TreeIsChecked
  BY DEF TaskChosen, AttemptsLeft, TreeIsOwn, TreeIsChecked, Running
<1>5. PipelineCommitsChecked /\ CommitsOwnWork
  BY DEF PipelineCommitsChecked, CommitsOwnWork
<1> QED
  BY <1>1, <1>2, <1>3, <1>4, <1>5 DEF IInv, TypeOK

\* ... and every step preserves it.
LEMMA NextIInv == IInv /\ [Next]_vars => IInv'
<1> SUFFICES ASSUME IInv, [Next]_vars PROVE IInv'
  OBVIOUS
<1> USE DEF IInv, TypeOK
<1>1. DocumentsOK' /\ (env \in Budgets)'
  BY DocumentsStep, BudgetsStep
<1>2. RepositoryOK'
  BY RepositoryStep
<1>3. RunOK'
  BY <1>2, RunStep
<1>4. TaskChosen' /\ AttemptsLeft'
  BY TaskStep, AttemptsStep
<1>5. TreeIsOwn' /\ TreeIsChecked'
  BY OwnStep, CheckedStep
<1>6. PipelineCommitsChecked' /\ CommitsOwnWork'
  BY CommitsStep
<1> QED
  BY <1>1, <1>2, <1>3, <1>4, <1>5, <1>6

\* Hence it holds throughout: what the tree may contain, and how it was checked,
\* follows from where the pipeline stands.
THEOREM Invariance == Spec => []IInv
BY InitIInv, NextIInv, PTL DEF Spec

\* The type invariant, with the limits on repairs and revisions in it: whatever
\* the gates and the reviewer say, a run makes no more attempts than configured.
THEOREM TypeCorrect == Spec => []TypeOK
<1>1. IInv => TypeOK
  BY DEF IInv
<1> QED
  BY <1>1, Invariance, PTL

\* Content that Claude alone produced is committed only after it passed every
\* gate and, where there is a reviewer, was approved, provided a review session
\* writes nothing itself.
THEOREM CommitsAreChecked == Spec => []PipelineCommitsChecked
<1>1. IInv => PipelineCommitsChecked
  BY DEF IInv
<1> QED
  BY <1>1, Invariance, PTL

\* A commit for a task never holds the work of another task.
THEOREM CommitsAreOwn == Spec => []CommitsOwnWork
<1>1. IInv => CommitsOwnWork
  BY DEF IInv
<1> QED
  BY <1>1, Invariance, PTL

\* Once the operator interrupts, the history no longer grows.
THEOREM InterruptStopsCommits == Spec => [][cancelled => history' = history]_vars
<1>1. [Next]_vars => [cancelled => history' = history]_vars
  BY HistoryGrows
<1> QED
  BY <1>1, PTL DEF Spec
-----------------------------------------------------------------------------
\* What the second half of this module needs to know of where the pipeline stands.

\* Between runs there is no task.
Idle == pc \in {"idle", "down"} => task = None

\* Up to the write that marks it, the selected task is the first of the open ones.
Selected == pc \in {"clean", "mark-current", "mark-backlog"} => task \in Open /\ First(task)

\* CURRENT.md names the task before BACKLOG.md marks it.
Named == pc = "mark-backlog" => current.task = task

\* From then on the task is in-progress, and after markDone it is done.
Marked == pc \in InRun => backlog[task] = "in-progress"
Closed == pc \in {"clear-current", "done"} => backlog[task] = "done"

\* The changelog entry comes before the status.
Noted == pc = "mark-done" =>
           \E i \in DOMAIN changelog.entries : changelog.entries[i].task = task

\* The commit a run remembers is the one made for its task.
CommitKnown ==
  IF pc \in {"changelog", "mark-done", "clear-current", "done"}
    THEN commit # 0 => commit \in DOMAIN history /\ history[commit].task = task
    ELSE commit = 0

\* Past requireCleanTree only a human can have touched the tree.
Prepared == pc \in {"mark-current", "mark-backlog"} => tree.by \subseteq {Human}

\* With AutoCommit nothing of Claude's is left past the commit; without, there is
\* no commit, and what is left is checked.
Delivered ==
  /\ pc \in {"committing", "commit"} => AutoCommit
  /\ pc \in {"changelog", "mark-done"} =>
       IF AutoCommit THEN tree.by \subseteq {Human}
                     ELSE Human \notin tree.by /\ ~ReviewerEdits => Checked(tree)

\* Only a fault or a crash leaves a changelog that cannot be read.
Traced == ~changelog.whole => ~Undisturbed

\* The places of one run, and what each says of the documents and the tree.
Standing == Idle /\ Marked /\ Closed /\ Named /\ Noted
Placed   == Standing /\ Selected /\ CommitKnown /\ Prepared /\ Delivered /\ Traced

\* A run that has committed its task, and cannot commit any more.
Committed == {"changelog", "mark-done", "fail", "block"}

\* A task is not open again once it is committed.
CommittedOnce ==
  Undisturbed /\ env.reopens = 0 =>
    \A i \in DOMAIN history :
      \/ backlog[history[i].task] \in {"done", "blocked"}
      \/ history[i].task = task /\ pc \in Committed

\* Without faults and crashes only the task of the run in progress is in-progress.
InProgressIsRunning ==
  Undisturbed => \A t \in Tasks : backlog[t] = "in-progress" => t = task /\ pc \in InRun

\* With them, it is still the task that CURRENT.md names and whose work is in the
\* tree, and the first in line: so the next run takes it up again.
OneInProgress ==
  env.reopens = 0 =>
    \A t \in Tasks : backlog[t] = "in-progress" =>
      /\ First(t) /\ current.task = t /\ tree.by \subseteq {t, Human}
      /\ pc \in Running => task = t

Records == /\ Placed /\ CommittedOnce /\ InProgressIsRunning /\ OneInProgress
           /\ ChangelogTruthful /\ OneCommitPerTask /\ LeftoverIsVisible
-----------------------------------------------------------------------------
\* What a step may do to the record of tasks and commits.

\* The run goes on, or nothing runs, and the record stays.
Works == /\ pc \in InRun /\ pc' \in InRun /\ task' = task /\ commit' = commit
         /\ pc \in Committed => pc' \in Committed
         /\ UNCHANGED <<backlog, history>>
Rests == pc \notin InRun /\ pc' \notin InRun /\ UNCHANGED <<backlog, history>>

\* The task is marked in-progress.
Marks == /\ pc = "mark-backlog" /\ pc' = "implement" /\ task' = task /\ commit' = commit
         /\ backlog' = [backlog EXCEPT ![task] = "in-progress"]
         /\ UNCHANGED <<current, tree, history, env>>

\* A commit is made, and the run knows of it, or not.
Lands == /\ pc = "commit" /\ pc' = "changelog" /\ task' = task /\ commit' = Len(history')
         /\ history' = Append(history, NewCommit)
         /\ UNCHANGED <<backlog, env>>
LandsUnseen == /\ pc = "commit" /\ pc' = "fail" /\ task' = task /\ commit' = commit
               /\ history' = Append(history, NewCommit)
               /\ UNCHANGED backlog
               /\ Spend("cancels", MaxCancels)

\* The task is done or blocked.
Settles(s) == /\ \/ pc = "mark-done" /\ pc' = "clear-current" /\ s = "done"
                 \/ pc = "block" /\ pc' = "failed" /\ s = "blocked"
              /\ backlog' = [backlog EXCEPT ![task] = s]
              /\ UNCHANGED <<task, history, tree, current, env>>

\* The run ends without a word on the task.
Abandons == /\ pc \in InRun /\ pc' \notin InRun
            /\ UNCHANGED <<backlog, history>>
            /\ \/ Spend("faults", MaxFaults) \/ Spend("crashes", MaxCrashes)
               \/ ~changelog.whole /\ UNCHANGED env
-----------------------------------------------------------------------------
\* CURRENT.md keeps its task but where a run begins or has recorded its end.
NoteKept   == current' = current \/ current'.task = current.task
NoteMarks  == pc = "mark-current" /\ current'.task = task /\ task' = task /\ UNCHANGED <<backlog, tree>>
NoteClears == pc = "clear-current" /\ task' = task /\ UNCHANGED <<backlog, tree>>

\* A run chooses its task once, keeps it, and drops it when it ends.
Keeps   == task' = task /\ (pc' \in Running => pc \in Running)
Chooses == task' \in Open /\ First(task')
Drops   == task' = None /\ pc' \notin Running

\* The tree is written by the run's own sessions, by a human, by git; or it is judged.
TreeWorks  == pc \in InRun /\ task' = task /\ tree' = Edited(task) /\ UNCHANGED backlog
TreeJudged == \/ tree' = [tree EXCEPT !.verified = TRUE]
              \/ tree' = [tree EXCEPT !.approved = TRUE]

\* The changelog gets the entry of the run in progress, or is cut short in its place.
Enters == pc = "changelog" /\ changelog.whole /\ changelog' = Entered /\ UNCHANGED history
Tears  == /\ pc = "changelog" /\ changelog.whole /\ changelog' = Torn /\ UNCHANGED history
          /\ Spend("faults", MaxFaults) \/ Spend("crashes", MaxCrashes)
-----------------------------------------------------------------------------
\* A step does one of these things to the record of tasks and commits.
LEMMA StepKinds ==
  ASSUME RunOK, Idle, [Next]_vars
  PROVE  \/ Works \/ Rests \/ Marks \/ Lands \/ LandsUnseen \/ Abandons
         \/ Settles("done") \/ Settles("blocked")
         \/ \E u \in Tasks : HumanReopens(u)
<1> USE ConstantsAssumption
    DEF durable, counts, At, Goto, Fail, Return, IOFails, GitFails, Spend,
        Works, Rests, Marks, Lands, LandsUnseen, Settles, Abandons,
        InRun, Committed, RunOK, Idle
<1>1. CASE Begin
  BY <1>1 DEF Begin, SelectTask, RequireCleanTree, MarkCurrent, MarkInProgress
<1>2. CASE Build
  BY <1>2 DEF Build, Implement, CheckpointImplemented, StartVerify, RunGates, StartRepair, Repair,
              Session, WriteCheckpoint, UpdateStage, UpdateStageUnlessCancelled
<1>3. CASE Critique
  BY <1>3 DEF Critique, StartReview, Review, ReviewerLeaves, StartRevise, Revise, Session, UpdateStage,
              UpdateStageUnlessCancelled
<1>4. CASE Conclude
  BY <1>4 DEF Conclude, StartCommit, Commit, RecordChangelog, MarkDone, ClearCurrent, CheckpointDone,
              WriteCheckpoint, UpdateStage
<1>5. CASE GiveUp
  BY <1>5 DEF GiveUp, RecordFailure, MarkBlocked, CheckpointFailure, WriteCheckpoint
<1>6. CASE Exit \/ Restart \/ Cancel
  BY <1>6 DEF Exit, Restart, Cancel
<1>7. CASE CommitKilled \/ Crash
  BY <1>7 DEF CommitKilled, Crash
<1>8. CASE HumanEdit \/ HumanTidies
  BY <1>8 DEF HumanEdit, HumanTidies
<1>9. ASSUME NEW t \in Tasks, HumanReopens(t)
      PROVE  \/ Works \/ Rests \/ Marks \/ Lands \/ LandsUnseen \/ Abandons
         \/ Settles("done") \/ Settles("blocked")
         \/ \E u \in Tasks : HumanReopens(u)
  BY <1>9 DEF HumanReopens
<1>10. CASE UNCHANGED vars
  BY <1>10 DEF vars
<1> QED
  BY <1>1, <1>2, <1>3, <1>4, <1>5, <1>6, <1>7, <1>8, <1>9, <1>10 DEF Next, Process, Outside

\* What a step does to the task of the run ...
LEMMA TaskMoves ==
  ASSUME RunOK, Idle, [Next]_vars
  PROVE  Keeps \/ Drops \/ Chooses
<1> USE ConstantsAssumption
    DEF durable, counts, At, Goto, Fail, Return, IOFails, GitFails, Spend,
        Keeps, Drops, Chooses, RunOK, Idle, Running, Labels
<1>1. CASE Begin
  BY <1>1 DEF Begin, SelectTask, RequireCleanTree, MarkCurrent, MarkInProgress
<1>2. CASE Build
  BY <1>2 DEF Build, Implement, CheckpointImplemented, StartVerify, RunGates, StartRepair, Repair,
              Session, WriteCheckpoint, UpdateStage, UpdateStageUnlessCancelled
<1>3. CASE Critique
  BY <1>3 DEF Critique, StartReview, Review, ReviewerLeaves, StartRevise, Revise, Session, UpdateStage,
              UpdateStageUnlessCancelled
<1>4. CASE Conclude
  BY <1>4 DEF Conclude, StartCommit, Commit, RecordChangelog, MarkDone, ClearCurrent, CheckpointDone,
              WriteCheckpoint, UpdateStage
<1>5. CASE GiveUp
  BY <1>5 DEF GiveUp, RecordFailure, MarkBlocked, CheckpointFailure, WriteCheckpoint
<1>6. CASE Exit \/ Restart \/ Cancel
  BY <1>6 DEF Exit, Restart, Cancel
<1>7. CASE CommitKilled \/ Crash
  BY <1>7 DEF CommitKilled, Crash
<1>8. CASE HumanEdit \/ HumanTidies
  BY <1>8 DEF HumanEdit, HumanTidies
<1>9. ASSUME NEW t \in Tasks, HumanReopens(t) PROVE Keeps \/ Drops \/ Chooses
  BY <1>9 DEF HumanReopens
<1>10. CASE UNCHANGED vars
  BY <1>10 DEF vars
<1> QED
  BY <1>1, <1>2, <1>3, <1>4, <1>5, <1>6, <1>7, <1>8, <1>9, <1>10 DEF Next, Process, Outside

\* ... to CURRENT.md ...
LEMMA CurrentMoves ==
  ASSUME DocumentsOK, [Next]_vars
  PROVE  NoteKept \/ NoteMarks \/ NoteClears
<1> USE ConstantsAssumption
    DEF durable, counts, At, Goto, Fail, Return, IOFails, GitFails, Spend,
        NoteKept, NoteMarks, NoteClears, DocumentsOK, Notes
<1>1. CASE Begin
  BY <1>1 DEF Begin, SelectTask, RequireCleanTree, MarkCurrent, MarkInProgress
<1>2. CASE Build
  BY <1>2 DEF Build, Implement, CheckpointImplemented, StartVerify, RunGates, StartRepair, Repair,
              Session, WriteCheckpoint, UpdateStage, UpdateStageUnlessCancelled
<1>3. CASE Critique
  BY <1>3 DEF Critique, StartReview, Review, ReviewerLeaves, StartRevise, Revise, Session, UpdateStage,
              UpdateStageUnlessCancelled
<1>4. CASE Conclude
  BY <1>4 DEF Conclude, StartCommit, Commit, RecordChangelog, MarkDone, ClearCurrent, CheckpointDone,
              WriteCheckpoint, UpdateStage
<1>5. CASE GiveUp
  BY <1>5 DEF GiveUp, RecordFailure, MarkBlocked, CheckpointFailure, WriteCheckpoint
<1>6. CASE Exit \/ Restart \/ Cancel
  BY <1>6 DEF Exit, Restart, Cancel
<1>7. CASE CommitKilled \/ Crash
  BY <1>7 DEF CommitKilled, Crash
<1>8. CASE HumanEdit \/ HumanTidies
  BY <1>8 DEF HumanEdit, HumanTidies
<1>9. ASSUME NEW t \in Tasks, HumanReopens(t) PROVE NoteKept \/ NoteMarks \/ NoteClears
  BY <1>9 DEF HumanReopens
<1>10. CASE UNCHANGED vars
  BY <1>10 DEF vars
<1> QED
  BY <1>1, <1>2, <1>3, <1>4, <1>5, <1>6, <1>7, <1>8, <1>9, <1>10 DEF Next, Process, Outside

\* ... to CHANGELOG.md ...
LEMMA ChangelogMoves ==
  ASSUME RunOK, [Next]_vars
  PROVE  changelog' = changelog \/ Enters \/ Tears
<1> USE ConstantsAssumption
    DEF durable, counts, At, Goto, Fail, Return, IOFails, GitFails, Spend,
        Enters, Tears, CutShort, RunOK
<1>1. CASE Begin
  BY <1>1 DEF Begin, SelectTask, RequireCleanTree, MarkCurrent, MarkInProgress
<1>2. CASE Build
  BY <1>2 DEF Build, Implement, CheckpointImplemented, StartVerify, RunGates, StartRepair, Repair,
              Session, WriteCheckpoint, UpdateStage, UpdateStageUnlessCancelled
<1>3. CASE Critique
  BY <1>3 DEF Critique, StartReview, Review, ReviewerLeaves, StartRevise, Revise, Session, UpdateStage,
              UpdateStageUnlessCancelled
<1>4. CASE Conclude
  BY <1>4 DEF Conclude, StartCommit, Commit, RecordChangelog, MarkDone, ClearCurrent, CheckpointDone,
              WriteCheckpoint, UpdateStage
<1>5. CASE GiveUp
  BY <1>5 DEF GiveUp, RecordFailure, MarkBlocked, CheckpointFailure, WriteCheckpoint
<1>6. CASE Exit \/ Restart \/ Cancel
  BY <1>6 DEF Exit, Restart, Cancel
<1>7. CASE CommitKilled \/ Crash
  BY <1>7 DEF CommitKilled, Crash
<1>8. CASE HumanEdit \/ HumanTidies
  BY <1>8 DEF HumanEdit, HumanTidies
<1>9. ASSUME NEW t \in Tasks, HumanReopens(t) PROVE changelog' = changelog \/ Enters \/ Tears
  BY <1>9 DEF HumanReopens
<1>10. CASE UNCHANGED vars
  BY <1>10 DEF vars
<1> QED
  BY <1>1, <1>2, <1>3, <1>4, <1>5, <1>6, <1>7, <1>8, <1>9, <1>10 DEF Next, Process, Outside

\* ... and to the tree.
LEMMA TreeMoves ==
  ASSUME RunOK, [Next]_vars
  PROVE  \/ tree' = tree \/ tree' = Pristine \/ tree' = Edited(Human)
         \/ TreeJudged \/ TreeWorks
<1> USE ConstantsAssumption
    DEF durable, counts, At, Goto, Fail, Return, IOFails, GitFails, Spend,
        TreeJudged, TreeWorks, InRun, SessionLeaves
<1>1. CASE Begin
  BY <1>1 DEF Begin, SelectTask, RequireCleanTree, MarkCurrent, MarkInProgress
<1>2. CASE Build
  BY <1>2 DEF Build, Implement, CheckpointImplemented, StartVerify, RunGates, StartRepair, Repair,
              Session, WriteCheckpoint, UpdateStage, UpdateStageUnlessCancelled
<1>3. CASE Critique
  BY <1>3 DEF Critique, StartReview, Review, ReviewerLeaves, StartRevise, Revise, Session, UpdateStage,
              UpdateStageUnlessCancelled
<1>4. CASE Conclude
  BY <1>4 DEF Conclude, StartCommit, Commit, RecordChangelog, MarkDone, ClearCurrent, CheckpointDone,
              WriteCheckpoint, UpdateStage
<1>5. CASE GiveUp
  BY <1>5 DEF GiveUp, RecordFailure, MarkBlocked, CheckpointFailure, WriteCheckpoint
<1>6. CASE Exit \/ Restart \/ Cancel
  BY <1>6 DEF Exit, Restart, Cancel
<1>7. CASE CommitKilled \/ Crash
  BY <1>7 DEF CommitKilled, Crash
<1>8. CASE HumanEdit \/ HumanTidies
  BY <1>8 DEF HumanEdit, HumanTidies
<1>9. ASSUME NEW t \in Tasks, HumanReopens(t)
      PROVE  \/ tree' = tree \/ tree' = Pristine \/ tree' = Edited(Human)
         \/ TreeJudged \/ TreeWorks
  BY <1>9 DEF HumanReopens
<1>10. CASE UNCHANGED vars
  BY <1>10 DEF vars
<1> QED
  BY <1>1, <1>2, <1>3, <1>4, <1>5, <1>6, <1>7, <1>8, <1>9, <1>10 DEF Next, Process, Outside

\* Appending keeps what was there and adds one element at the end.
LEMMA AppendElements ==
  ASSUME NEW S, NEW s \in Seq(S), NEW e \in S
  PROVE  /\ Len(Append(s, e)) = Len(s) + 1
         /\ Append(s, e)[Len(s) + 1] = e
         /\ \A i \in DOMAIN s : i \in DOMAIN Append(s, e) /\ Append(s, e)[i] = s[i]
         /\ \A i \in DOMAIN Append(s, e) : i \in DOMAIN s \/ i = Len(s) + 1
         /\ Len(s) + 1 \in DOMAIN Append(s, e) /\ Len(s) + 1 \notin DOMAIN s
OBVIOUS

\* A commit, whether the run knows of it or not, is one more element of the history.
LEMMA CommitAppends ==
  ASSUME RepositoryOK, task \in Tasks, history' = Append(history, NewCommit)
  PROVE  /\ Len(history') = Len(history) + 1 /\ Len(history') # 0
         /\ Len(history) + 1 \in DOMAIN history' /\ Len(history) + 1 \notin DOMAIN history
         /\ history'[Len(history) + 1].task = task
         /\ \A i \in DOMAIN history : i \in DOMAIN history' /\ history'[i] = history[i]
         /\ \A i \in DOMAIN history' : i \in DOMAIN history \/ i = Len(history) + 1
<1>1. NewCommit \in Commits /\ NewCommit.task = task
  BY NewCommitIsCommit DEF NewCommit
<1> QED
  BY <1>1, AppendElements DEF RepositoryOK

\* A run passes its places in order, and each keeps what the one before left.
LEMMA StandingStep ==
  ASSUME RunOK, DocumentsOK, TaskChosen, Standing, [Next]_vars
  PROVE  Standing'
<1> USE ConstantsAssumption
    DEF durable, counts, At, Goto, Fail, Return, IOFails, GitFails, Spend,
        Standing, Idle, Marked, Closed, Named, Noted, RunOK, DocumentsOK,
        TaskChosen, Running, Labels, InRun, Notes
<1>1. CASE Begin
  BY <1>1 DEF Begin, SelectTask, RequireCleanTree, MarkCurrent, MarkInProgress
<1>2. CASE Build
  BY <1>2 DEF Build, Implement, CheckpointImplemented, StartVerify, RunGates, StartRepair, Repair,
              Session, WriteCheckpoint, UpdateStage, UpdateStageUnlessCancelled
<1>3. CASE Critique
  BY <1>3 DEF Critique, StartReview, Review, ReviewerLeaves, StartRevise, Revise, Session, UpdateStage,
              UpdateStageUnlessCancelled
<1>4. CASE Conclude
  <2>1. CASE StartCommit
    BY <2>1 DEF StartCommit, UpdateStage
  <2>2. CASE Commit
    BY <2>2 DEF Commit
  <2>3. CASE RecordChangelog
    BY <2>3 DEF RecordChangelog, Entered
  <2>4. CASE MarkDone
    BY <2>4 DEF MarkDone
  <2>5. CASE ClearCurrent
    BY <2>5 DEF ClearCurrent
  <2>6. CASE CheckpointDone
    BY <2>6 DEF CheckpointDone, WriteCheckpoint
  <2> QED
    BY <1>4, <2>1, <2>2, <2>3, <2>4, <2>5, <2>6 DEF Conclude
<1>5. CASE GiveUp
  BY <1>5 DEF GiveUp, RecordFailure, MarkBlocked, CheckpointFailure, WriteCheckpoint
<1>6. CASE Exit \/ Restart \/ Cancel
  BY <1>6 DEF Exit, Restart, Cancel
<1>7. CASE CommitKilled \/ Crash
  BY <1>7 DEF CommitKilled, Crash
<1>8. CASE HumanEdit \/ HumanTidies
  BY <1>8 DEF HumanEdit, HumanTidies
<1>9. ASSUME NEW t \in Tasks, HumanReopens(t) PROVE Standing'
  BY <1>9 DEF HumanReopens
<1>10. CASE UNCHANGED vars
  BY <1>10 DEF vars
<1> QED
  BY <1>1, <1>2, <1>3, <1>4, <1>5, <1>6, <1>7, <1>8, <1>9, <1>10 DEF Next, Process, Outside

\* No step before markInProgress changes a status.
LEMMA SelectedStep ==
  ASSUME RunOK, DocumentsOK, Selected, [Next]_vars
  PROVE  Selected'
<1> USE ConstantsAssumption
    DEF durable, counts, At, Goto, Fail, Return, IOFails, GitFails, Spend,
        Selected, RunOK, DocumentsOK, Open, First, IsOpenStatus
<1>1. CASE Begin
  BY <1>1 DEF Begin, SelectTask, RequireCleanTree, MarkCurrent, MarkInProgress
<1>2. CASE Build
  BY <1>2 DEF Build, Implement, CheckpointImplemented, StartVerify, RunGates, StartRepair, Repair,
              Session, WriteCheckpoint, UpdateStage, UpdateStageUnlessCancelled
<1>3. CASE Critique
  BY <1>3 DEF Critique, StartReview, Review, ReviewerLeaves, StartRevise, Revise, Session, UpdateStage,
              UpdateStageUnlessCancelled
<1>4. CASE Conclude
  BY <1>4 DEF Conclude, StartCommit, Commit, RecordChangelog, MarkDone, ClearCurrent, CheckpointDone,
              WriteCheckpoint, UpdateStage
<1>5. CASE GiveUp
  BY <1>5 DEF GiveUp, RecordFailure, MarkBlocked, CheckpointFailure, WriteCheckpoint
<1>6. CASE Exit \/ Restart \/ Cancel
  BY <1>6 DEF Exit, Restart, Cancel
<1>7. CASE CommitKilled \/ Crash
  BY <1>7 DEF CommitKilled, Crash
<1>8. CASE HumanEdit \/ HumanTidies
  BY <1>8 DEF HumanEdit, HumanTidies
<1>9. ASSUME NEW t \in Tasks, HumanReopens(t) PROVE Selected'
  BY <1>9 DEF HumanReopens
<1>10. CASE UNCHANGED vars
  BY <1>10 DEF vars
<1> QED
  BY <1>1, <1>2, <1>3, <1>4, <1>5, <1>6, <1>7, <1>8, <1>9, <1>10 DEF Next, Process, Outside

\* No step before the first session lets Claude write.
LEMMA PreparedStep ==
  ASSUME RunOK, RepositoryOK, Prepared, [Next]_vars
  PROVE  Prepared'
<1> USE ConstantsAssumption
    DEF durable, counts, At, Goto, Fail, Return, IOFails, GitFails, Spend,
        Prepared, RunOK, RepositoryOK, RealWorkClean, Edited, Pristine
<1>1. CASE Begin
  BY <1>1 DEF Begin, SelectTask, RequireCleanTree, MarkCurrent, MarkInProgress
<1>2. CASE Build
  BY <1>2 DEF Build, Implement, CheckpointImplemented, StartVerify, RunGates, StartRepair, Repair,
              Session, WriteCheckpoint, UpdateStage, UpdateStageUnlessCancelled
<1>3. CASE Critique
  BY <1>3 DEF Critique, StartReview, Review, ReviewerLeaves, StartRevise, Revise, Session, UpdateStage,
              UpdateStageUnlessCancelled
<1>4. CASE Conclude
  BY <1>4 DEF Conclude, StartCommit, Commit, RecordChangelog, MarkDone, ClearCurrent, CheckpointDone,
              WriteCheckpoint, UpdateStage
<1>5. CASE GiveUp
  BY <1>5 DEF GiveUp, RecordFailure, MarkBlocked, CheckpointFailure, WriteCheckpoint
<1>6. CASE Exit \/ Restart \/ Cancel
  BY <1>6 DEF Exit, Restart, Cancel
<1>7. CASE CommitKilled \/ Crash
  BY <1>7 DEF CommitKilled, Crash
<1>8. CASE HumanEdit \/ HumanTidies
  BY <1>8 DEF HumanEdit, HumanTidies
<1>9. ASSUME NEW t \in Tasks, HumanReopens(t) PROVE Prepared'
  BY <1>9 DEF HumanReopens
<1>10. CASE UNCHANGED vars
  BY <1>10 DEF vars
<1> QED
  BY <1>1, <1>2, <1>3, <1>4, <1>5, <1>6, <1>7, <1>8, <1>9, <1>10 DEF Next, Process, Outside

\* A run reaches the changelog through its commit or, without AutoCommit, straight from
\* the gates or the review.
LEMMA DeliveredStep ==
  ASSUME RunOK, RepositoryOK, env \in Budgets, TreeIsOwn, TreeIsChecked, Delivered, [Next]_vars
  PROVE  Delivered'
<1> USE ConstantsAssumption
    DEF durable, counts, At, Goto, Fail, Return, IOFails, GitFails, Spend,
        Delivered, RunOK, RepositoryOK, TreeIsOwn, TreeIsChecked,
        Running, Labels, IsClean, RealWorkClean, Checked, Edited, Pristine, Work, SessionLeaves
<1>0. /\ ReviewEnabled' = ReviewEnabled /\ ReviewerEdits' = ReviewerEdits
      /\ AutoCommit' = AutoCommit
  BY SettingsKept
<1> USE <1>0
<1>1. CASE Begin
  BY <1>1 DEF Begin, SelectTask, RequireCleanTree, MarkCurrent, MarkInProgress
<1>2. CASE Build
  BY <1>2 DEF Build, Implement, CheckpointImplemented, StartVerify, RunGates, StartRepair, Repair,
              Session, WriteCheckpoint, UpdateStage, UpdateStageUnlessCancelled
<1>3. CASE Critique
  BY <1>3 DEF Critique, StartReview, Review, ReviewerLeaves, StartRevise, Revise, Session, UpdateStage,
              UpdateStageUnlessCancelled
<1>4. CASE Conclude
  BY <1>4 DEF Conclude, StartCommit, Commit, RecordChangelog, MarkDone, ClearCurrent, CheckpointDone,
              WriteCheckpoint, UpdateStage
<1>5. CASE GiveUp
  BY <1>5 DEF GiveUp, RecordFailure, MarkBlocked, CheckpointFailure, WriteCheckpoint
<1>6. CASE Exit \/ Restart \/ Cancel
  BY <1>6 DEF Exit, Restart, Cancel
<1>7. CASE CommitKilled \/ Crash
  BY <1>7 DEF CommitKilled, Crash
<1>8. CASE HumanEdit \/ HumanTidies
  BY <1>8 DEF HumanEdit, HumanTidies
<1>9. ASSUME NEW t \in Tasks, HumanReopens(t) PROVE Delivered'
  BY <1>9 DEF HumanReopens
<1>10. CASE UNCHANGED vars
  BY <1>10 DEF vars
<1> QED
  BY <1>1, <1>2, <1>3, <1>4, <1>5, <1>6, <1>7, <1>8, <1>9, <1>10 DEF Next, Process, Outside

\* The run takes the commit it just made, and forgets it when it returns.
LEMMA CommitKnownStep ==
  ASSUME RunOK, RepositoryOK, TaskChosen, CommitKnown, [Next]_vars
  PROVE  CommitKnown'
<1> USE ConstantsAssumption
    DEF durable, counts, At, Goto, Fail, Return, IOFails, GitFails, Spend,
        CommitKnown, RunOK, RepositoryOK, TaskChosen, Running, Labels
<1>1. CASE Begin
  BY <1>1 DEF Begin, SelectTask, RequireCleanTree, MarkCurrent, MarkInProgress
<1>2. CASE Build
  BY <1>2 DEF Build, Implement, CheckpointImplemented, StartVerify, RunGates, StartRepair, Repair,
              Session, WriteCheckpoint, UpdateStage, UpdateStageUnlessCancelled
<1>3. CASE Critique
  BY <1>3 DEF Critique, StartReview, Review, ReviewerLeaves, StartRevise, Revise, Session, UpdateStage,
              UpdateStageUnlessCancelled
<1>4. CASE Conclude
  <2>1. CASE StartCommit
    BY <2>1 DEF StartCommit, UpdateStage
  <2>2. CASE Commit
    BY <2>2, CommitAppends DEF Commit
  <2>3. CASE RecordChangelog
    BY <2>3 DEF RecordChangelog
  <2>4. CASE MarkDone
    BY <2>4 DEF MarkDone
  <2>5. CASE ClearCurrent
    BY <2>5 DEF ClearCurrent
  <2>6. CASE CheckpointDone
    BY <2>6 DEF CheckpointDone, WriteCheckpoint
  <2> QED
    BY <1>4, <2>1, <2>2, <2>3, <2>4, <2>5, <2>6 DEF Conclude
<1>5. CASE GiveUp
  BY <1>5 DEF GiveUp, RecordFailure, MarkBlocked, CheckpointFailure, WriteCheckpoint
<1>6. CASE Exit \/ Restart \/ Cancel
  BY <1>6 DEF Exit, Restart, Cancel
<1>7. CASE CommitKilled \/ Crash
  BY <1>7, CommitAppends DEF CommitKilled, Crash
<1>8. CASE HumanEdit \/ HumanTidies
  BY <1>8 DEF HumanEdit, HumanTidies
<1>9. ASSUME NEW t \in Tasks, HumanReopens(t) PROVE CommitKnown'
  BY <1>9 DEF HumanReopens
<1>10. CASE UNCHANGED vars
  BY <1>10 DEF vars
<1> QED
  BY <1>1, <1>2, <1>3, <1>4, <1>5, <1>6, <1>7, <1>8, <1>9, <1>10 DEF Next, Process, Outside

\* Two open tasks cannot both be the first.
LEMMA FirstIsUnique ==
  ASSUME NEW t \in Open, NEW u \in Open, First(t), First(u)
  PROVE  t = u
BY ConstantsAssumption DEF First, Open

\* With fewer open tasks the first stays the first.
LEMMA FirstStays ==
  ASSUME NEW t, First(t), Open' \subseteq Open
  PROVE  First(t)'
BY DEF First

\* The open tasks become fewer, unless a human reopens one.
LEMMA OpenShrinks ==
  ASSUME RunOK, DocumentsOK, TaskChosen, Idle, Selected, [Next]_vars
  PROVE  Open' \subseteq Open \/ \E u \in Tasks : HumanReopens(u)
<1>1. CASE UNCHANGED backlog
  BY <1>1 DEF Open
<1>2. CASE Marks
  BY <1>2 DEF Marks, Selected, Open, DocumentsOK
<1>3. CASE Settles("done") \/ Settles("blocked")
  BY <1>3 DEF Settles, Open, IsOpenStatus, DocumentsOK, RunOK, TaskChosen, Running, Labels
<1> QED
  BY <1>1, <1>2, <1>3, StepKinds DEF Works, Rests, Lands, LandsUnseen, Abandons

\* Faults, crashes and reopenings are never forgotten.
LEMMA TroubleStays ==
  ASSUME env \in Budgets, [Next]_vars
  PROVE  /\ Undisturbed' => Undisturbed
         /\ env'.reopens = 0 => env.reopens = 0
         /\ Spend("faults", MaxFaults) \/ Spend("crashes", MaxCrashes) => ~Undisturbed'
         /\ \A u \in Tasks : HumanReopens(u) => env'.reopens # 0
<1>1. \/ env' = env
      \/ \E f \in {"faults", "crashes", "cancels", "edits", "reopens"} : env' = [env EXCEPT ![f] = @ + 1]
  BY EnvStep DEF Spend
<1>2. /\ Undisturbed' => Undisturbed
      /\ env'.reopens = 0 => env.reopens = 0
  BY <1>1 DEF Undisturbed, Budgets
<1>3. Spend("faults", MaxFaults) \/ Spend("crashes", MaxCrashes) => ~Undisturbed'
  BY DEF Spend, Undisturbed, Budgets
<1>4. \A u \in Tasks : HumanReopens(u) => env'.reopens # 0
  BY DEF HumanReopens, Spend, Budgets
<1> QED
  BY <1>2, <1>3, <1>4

\* The tear and its cause come in one step.
LEMMA TracedStep ==
  ASSUME env \in Budgets, RunOK, Traced, [Next]_vars
  PROVE  Traced'
<1>1. CASE changelog' = changelog
  BY <1>1, TroubleStays DEF Traced
<1>2. CASE Enters
  BY <1>2 DEF Enters, Entered, Traced
<1>3. CASE Tears
  BY <1>3, TroubleStays DEF Tears, Traced
<1> QED
  BY <1>1, <1>2, <1>3, ChangelogMoves

\* A second commit of a task would need the task to be open again.
LEMMA CommittedOnceStep ==
  ASSUME TypeOK, TaskChosen, Placed, CommittedOnce, OneCommitPerTask, [Next]_vars
  PROVE  CommittedOnce' /\ OneCommitPerTask'
<1> USE DEF TypeOK
<1> SUFFICES ASSUME Undisturbed', env'.reopens = 0
             PROVE  /\ \A i \in DOMAIN history' :
                         \/ backlog'[history'[i].task] \in {"done", "blocked"}
                         \/ history'[i].task = task' /\ pc' \in Committed
                    /\ \A i, j \in DOMAIN history' : history'[i].task = history'[j].task => i = j
  BY DEF CommittedOnce, OneCommitPerTask
<1>0. /\ Undisturbed /\ env.reopens = 0
      /\ ~ Abandons /\ \A u \in Tasks : ~ HumanReopens(u)
  BY TroubleStays DEF Abandons, Placed, Traced
<1>1. \A i \in DOMAIN history : history[i].task \in Tasks
  <2>1. \A i \in DOMAIN history : history[i] \in Commits
    BY DEF RepositoryOK
  <2> QED
    BY <2>1 DEF Commits
<1>2. /\ \A i \in DOMAIN history : \/ backlog[history[i].task] \in {"done", "blocked"}
                                   \/ history[i].task = task /\ pc \in Committed
      /\ \A i, j \in DOMAIN history : history[i].task = history[j].task => i = j
  BY <1>0 DEF CommittedOnce, OneCommitPerTask
<1> USE DEF Committed
<1>3. CASE Works
  BY <1>2, <1>3 DEF Works
<1>4. CASE Rests
  BY <1>2, <1>4 DEF Rests, InRun
<1>5. CASE Marks
  BY <1>1, <1>2, <1>5 DEF Marks, Placed, Selected, Open, IsOpenStatus, DocumentsOK
<1>6. CASE Lands \/ LandsUnseen
  <2>1. /\ task \in Tasks /\ backlog[task] = "in-progress" /\ pc = "commit"
        /\ task' = task /\ pc' \in Committed /\ backlog' = backlog
        /\ history' = Append(history, NewCommit)
    BY <1>6 DEF Lands, LandsUnseen, Placed, Standing, Marked, InRun, TaskChosen, Running, Labels
  <2>2. \A i \in DOMAIN history : history[i].task # task
    BY <1>2, <2>1
  <2> QED
    BY <1>2, <2>1, <2>2, CommitAppends
<1>7. CASE Settles("done") \/ Settles("blocked")
  <2>1. task \in Tasks
    BY <1>7 DEF Settles, TaskChosen, Running, Labels
  <2> QED
    BY <1>1, <1>2, <1>7, <2>1 DEF Settles, DocumentsOK
<1> QED
  BY <1>0, <1>3, <1>4, <1>5, <1>6, <1>7, StepKinds DEF Placed, Standing

\* Nothing but a fault or a crash leaves a task in-progress.
LEMMA InProgressStep ==
  ASSUME TypeOK, TaskChosen, Placed, InProgressIsRunning, [Next]_vars
  PROVE  InProgressIsRunning'
<1> USE DEF TypeOK
<1> SUFFICES ASSUME Undisturbed', NEW t \in Tasks, backlog'[t] = "in-progress"
             PROVE  t = task' /\ pc' \in InRun
  BY DEF InProgressIsRunning
<1>1. Undisturbed /\ ~ Abandons
  BY TroubleStays DEF Abandons, Placed, Traced
<1>2. backlog[t] = "in-progress" => t = task /\ pc \in InRun
  BY <1>1 DEF InProgressIsRunning
<1>3. CASE Works \/ Rests \/ Lands \/ LandsUnseen
  BY <1>2, <1>3 DEF Works, Rests, Lands, LandsUnseen, InRun
<1>4. CASE Marks
  BY <1>2, <1>4 DEF Marks, InRun, DocumentsOK
<1>5. CASE Settles("done") \/ Settles("blocked")
  BY <1>2, <1>5 DEF Settles, DocumentsOK
<1>6. ASSUME NEW u \in Tasks, HumanReopens(u) PROVE t = task' /\ pc' \in InRun
  BY <1>2, <1>6 DEF HumanReopens, InRun, DocumentsOK
<1> QED
  BY <1>1, <1>3, <1>4, <1>5, <1>6, StepKinds DEF Placed, Standing

\* A status becomes done, or in-progress, in one place each.
LEMMA BecomesDone ==
  ASSUME RunOK, DocumentsOK, Idle, [Next]_vars, NEW t \in Tasks, backlog'[t] = "done"
  PROVE  backlog[t] = "done" \/ (pc = "mark-done" /\ t = task)
<1>1. CASE UNCHANGED backlog
  BY <1>1
<1>2. CASE Marks \/ Settles("blocked")
  BY <1>2 DEF Marks, Settles, DocumentsOK
<1>3. CASE Settles("done")
  BY <1>3 DEF Settles, DocumentsOK
<1>4. ASSUME NEW u \in Tasks, HumanReopens(u) PROVE backlog[t] = "done"
  BY <1>4 DEF HumanReopens, DocumentsOK
<1> QED
  BY <1>1, <1>2, <1>3, <1>4, StepKinds DEF Works, Rests, Lands, LandsUnseen, Abandons

LEMMA BecomesInProgress ==
  ASSUME RunOK, DocumentsOK, Idle, [Next]_vars, NEW t \in Tasks, backlog'[t] = "in-progress"
  PROVE  backlog[t] = "in-progress" \/ (Marks /\ t = task)
<1>1. CASE UNCHANGED backlog
  BY <1>1
<1>2. CASE Marks
  BY <1>2 DEF Marks, DocumentsOK
<1>3. CASE Settles("done") \/ Settles("blocked")
  BY <1>3 DEF Settles, DocumentsOK
<1>4. ASSUME NEW u \in Tasks, HumanReopens(u) PROVE backlog[t] = "in-progress"
  BY <1>4 DEF HumanReopens, DocumentsOK
<1> QED
  BY <1>1, <1>2, <1>3, <1>4, StepKinds DEF Works, Rests, Lands, LandsUnseen, Abandons

\* What a step does to the authors of the tree and to its checks.
LEMMA TreeBecomes ==
  ASSUME RepositoryOK, RunOK, [Next]_vars
  PROVE  \/ TreeWorks /\ tree'.by = tree.by \cup {task}
         \/ tree'.by = {}
         \/ tree'.by = tree.by \cup {Human}
         \/ /\ tree'.by = tree.by
            /\ tree.verified => tree'.verified
            /\ tree.approved => tree'.approved
<1>1. CASE TreeWorks
  BY <1>1 DEF TreeWorks, Edited
<1>2. CASE tree' = Pristine
  BY <1>2 DEF Pristine
<1>3. CASE tree' = Edited(Human)
  BY <1>3 DEF Edited
<1>4. CASE TreeJudged
  BY <1>4 DEF TreeJudged, RepositoryOK, Work
<1>5. CASE tree' = tree
  BY <1>5
<1> QED
  BY <1>1, <1>2, <1>3, <1>4, <1>5, TreeMoves

\* The entry recordCompletion writes is there when the status becomes done, or the
\* changelog cannot be read.
LEMMA ChangelogTruthStep ==
  ASSUME TypeOK, TaskChosen, Placed, ChangelogTruthful, [Next]_vars
  PROVE  ChangelogTruthful'
<1> USE DEF TypeOK
<1> DEFINE old == changelog.entries
           new == changelog'.entries
<1> SUFFICES ASSUME changelog'.whole
             PROVE  /\ \A t \in Tasks : backlog'[t] = "done" => \E i \in DOMAIN new : new[i].task = t
                    /\ \A i \in DOMAIN new :
                         new[i].commit # 0 => /\ new[i].commit \in DOMAIN history'
                                              /\ history'[new[i].commit].task = new[i].task
  BY DEF ChangelogTruthful
<1>0. (changelog' = changelog \/ Enters) /\ changelog.whole
  BY ChangelogMoves DEF Tears, Torn, Enters
<1>1. /\ \A i \in DOMAIN old : i \in DOMAIN new /\ new[i] = old[i]
      /\ \A i \in DOMAIN history : i \in DOMAIN history' /\ history'[i] = history[i]
  <2>1. CASE Enters
    <3>1. pc = "changelog" /\ task \in Tasks /\ [task |-> task, commit |-> commit] \in Entries
      BY <2>1 DEF Enters, TaskChosen, Running, Labels, RunOK, Entries
    <3>2. old \in Seq(Entries) /\ new = Append(old, [task |-> task, commit |-> commit])
      BY <2>1 DEF Enters, Entered, DocumentsOK, Logs
    <3> HIDE DEF old, new
    <3> QED
      BY <2>1, <3>1, <3>2, AppendElements DEF Enters
  <2>2. CASE changelog' = changelog
    <3>1. CASE history' = history
      BY <2>2, <3>1
    <3>2. CASE pc = "commit" /\ history' = Append(history, NewCommit)
      BY <2>2, <3>2, CommitAppends DEF TaskChosen, Running, Labels
    <3> QED
      BY <3>1, <3>2, HistoryGrows
  <2> QED
    BY <1>0, <2>1, <2>2
<1>2. ASSUME NEW t \in Tasks, backlog'[t] = "done"
      PROVE  \E i \in DOMAIN new : new[i].task = t
  <2>1. backlog[t] = "done" \/ (pc = "mark-done" /\ t = task)
    BY <1>2, BecomesDone DEF Placed, Standing
  <2>2. \E i \in DOMAIN old : old[i].task = t
    BY <1>0, <2>1 DEF ChangelogTruthful, Placed, Standing, Noted
  <2> QED
    BY <1>1, <2>2
<1>3. ASSUME NEW i \in DOMAIN new, new[i].commit # 0
      PROVE  /\ new[i].commit \in DOMAIN history'
             /\ history'[new[i].commit].task = new[i].task
  <2>1. CASE i \in DOMAIN old
    BY <1>0, <1>1, <1>3, <2>1 DEF ChangelogTruthful
  <2>2. CASE i \notin DOMAIN old
    <3>1. Enters
      BY <1>0, <2>2
    <3>2. pc = "changelog" /\ task \in Tasks /\ [task |-> task, commit |-> commit] \in Entries
      BY <3>1 DEF Enters, TaskChosen, Running, Labels, RunOK, Entries
    <3>3. old \in Seq(Entries) /\ new = Append(old, [task |-> task, commit |-> commit])
      BY <3>1 DEF Enters, Entered, DocumentsOK, Logs
    <3>4. new[i] = [task |-> task, commit |-> commit]
      <4> HIDE DEF old, new
      <4> QED
        BY <2>2, <3>2, <3>3, AppendElements
    <3>5. commit # 0 => commit \in DOMAIN history /\ history[commit].task = task
      BY <3>2 DEF Placed, CommitKnown
    <3> QED
      BY <1>1, <1>3, <3>4, <3>5
  <2> QED
    BY <2>1, <2>2
<1> QED
  BY <1>2, <1>3

\* What is left of Claude's work belongs to the task of the run, or of a run before.
LEMMA LeftoverStep ==
  ASSUME TypeOK, TaskChosen, TreeIsOwn, Placed, LeftoverIsVisible, [Next]_vars
  PROVE  LeftoverIsVisible'
<1> USE DEF TypeOK
<1>0. /\ ReviewEnabled' = ReviewEnabled /\ ReviewerEdits' = ReviewerEdits
      /\ AutoCommit' = AutoCommit
  BY SettingsKept
<1>1. (env'.reopens = 0 => env.reopens = 0) /\ \A u \in Tasks : HumanReopens(u) => env'.reopens # 0
  BY TroubleStays
<1> SUFFICES ASSUME NEW t \in tree'.by \ {Human}
             PROVE  /\ tree'.by \subseteq {t, Human}
                    /\ env'.reopens = 0 => backlog'[t] \in {"in-progress", "blocked", "done"}
                    /\ backlog'[t] = "done" =>
                         ~AutoCommit /\ (Human \notin tree'.by /\ ~ReviewerEdits => Checked(tree)')
  BY <1>0 DEF LeftoverIsVisible
<1>2. t \in tree.by \/ (TreeWorks /\ t = task)
  BY TreeBecomes
<1>3. t \in Tasks
  BY RepositoryStep DEF RepositoryOK, Work, Who
<1>4. CASE TreeWorks
  <2>1. /\ tree.by \subseteq {task, Human} /\ task \in Tasks /\ backlog[task] = "in-progress"
        /\ tree'.by = tree.by \cup {task} /\ task # Human
    BY <1>4, ConstantsAssumption
    DEF TreeWorks, InRun, TreeIsOwn, Placed, Standing, Marked, TaskChosen, Running, Labels, Edited
  <2>2. backlog' = backlog
    BY <1>4 DEF TreeWorks
  <2> QED
    BY <2>1, <2>2
<1>5. CASE ~ TreeWorks
  <2>1. /\ tree.by \subseteq {t, Human}
        /\ env.reopens = 0 => backlog[t] \in {"in-progress", "blocked", "done"}
        /\ backlog[t] = "done" =>
             ~AutoCommit /\ (Human \notin tree.by /\ ~ReviewerEdits => Checked(tree))
    BY <1>2, <1>5 DEF LeftoverIsVisible
  <2>2. \/ tree'.by = tree.by \cup {Human}
        \/ /\ tree'.by = tree.by
           /\ (tree.verified => tree'.verified) /\ (tree.approved => tree'.approved)
    BY <1>5, TreeBecomes
  <2>3. tree'.by \subseteq {t, Human}
    BY <2>1, <2>2
  <2>4. ASSUME env'.reopens = 0
        PROVE  backlog'[t] \in {"in-progress", "blocked", "done"}
    BY <1>1, <1>3, <2>1, <2>4, StepKinds
    DEF Placed, Standing, Works, Rests, Marks, Lands, LandsUnseen, Abandons, Settles, DocumentsOK
  <2>5. ASSUME backlog'[t] = "done"
        PROVE  ~AutoCommit /\ (Human \notin tree'.by /\ ~ReviewerEdits => Checked(tree)')
    <3>1. backlog[t] = "done" \/ (pc = "mark-done" /\ t = task)
      BY <1>3, <2>5, BecomesDone DEF Placed, Standing
    <3>2. ~AutoCommit /\ (Human \notin tree.by /\ ~ReviewerEdits => Checked(tree))
      BY <1>2, <1>5, <2>1, <3>1 DEF Placed, Delivered
    <3> QED
      BY <1>0, <2>2, <3>2 DEF Checked
  <2> QED
    BY <2>3, <2>4, <2>5
<1> QED
  BY <1>4, <1>5

\* One task at most is in-progress, and everything recovery looks at points to it.
LEMMA OneInProgressStep ==
  ASSUME TypeOK, TaskChosen, TreeIsOwn, Placed, OneInProgress, [Next]_vars
  PROVE  OneInProgress'
<1> USE DEF TypeOK
<1> SUFFICES ASSUME env'.reopens = 0, NEW t \in Tasks, backlog'[t] = "in-progress"
             PROVE  /\ First(t)' /\ current'.task = t /\ tree'.by \subseteq {t, Human}
                    /\ pc' \in Running => task' = t
  BY DEF OneInProgress
<1>0. env.reopens = 0 /\ \A u \in Tasks : ~ HumanReopens(u)
  BY TroubleStays
<1>1. Open' \subseteq Open
  BY <1>0, OpenShrinks DEF Placed, Standing
<1>2. CASE backlog[t] = "in-progress"
  <2>1. /\ First(t) /\ current.task = t /\ tree.by \subseteq {t, Human} /\ t \in Open
        /\ pc \in Running => task = t
    BY <1>0, <1>2 DEF OneInProgress, Open, IsOpenStatus
  <2>2. First(t)'
    BY <1>1, <2>1, FirstStays
  <2>3. current'.task = t
    BY <1>2, <2>1, CurrentMoves
    DEF NoteKept, NoteMarks, NoteClears, Running, Labels, Placed, Standing, Closed
  <2>4. tree'.by \subseteq {t, Human}
    BY <2>1, TreeBecomes DEF TreeWorks, InRun, Running, Labels
  <2>5. pc' \in Running => task' = t
    <3>1. CASE Chooses
      BY <2>1, <3>1, FirstIsUnique DEF Chooses
    <3>2. CASE Keeps
      BY <2>1, <3>2 DEF Keeps
    <3> QED
      BY <3>1, <3>2, TaskMoves DEF Drops, Placed, Standing
  <2> QED
    BY <2>2, <2>3, <2>4, <2>5
<1>3. CASE backlog[t] # "in-progress"
  <2>1. Marks /\ t = task
    BY <1>3, BecomesInProgress DEF Placed, Standing
  <2>2. First(t) /\ current.task = t /\ tree.by \subseteq {Human}
    BY <2>1 DEF Marks, Placed, Standing, Selected, Named, Prepared
  <2> QED
    BY <1>1, <2>1, <2>2, FirstStays DEF Marks
<1> QED
  BY <1>2, <1>3
-----------------------------------------------------------------------------
\* The records are in order at the start ...
LEMMA InitRecords == Init => Records
<1> SUFFICES ASSUME Init PROVE Records
  OBVIOUS
<1>1. Placed
  BY DEF Init, Placed, Standing, Idle, Marked, Closed, Named, Noted, Selected, CommitKnown, Traced,
         Prepared, Delivered, InRun
<1>2. CommittedOnce /\ OneCommitPerTask /\ ChangelogTruthful
  BY DEF Init, CommittedOnce, OneCommitPerTask, ChangelogTruthful
<1>3. InProgressIsRunning /\ OneInProgress
  BY DEF Init, InProgressIsRunning, OneInProgress
<1>4. LeftoverIsVisible
  BY DEF Init, LeftoverIsVisible, Pristine
<1> QED
  BY <1>1, <1>2, <1>3, <1>4 DEF Records

\* ... and every step keeps them so.
LEMMA NextRecords == IInv /\ Records /\ [Next]_vars => Records'
<1> SUFFICES ASSUME IInv, Records, [Next]_vars PROVE Records'
  OBVIOUS
<1>0. /\ TypeOK /\ TaskChosen /\ TreeIsOwn /\ TreeIsChecked
      /\ Placed /\ Standing
  BY DEF IInv, Records, Placed
<1>1. Placed'
  <2>1. Standing' /\ Selected'
    BY <1>0, StandingStep, SelectedStep DEF TypeOK, Placed
  <2>2. Prepared' /\ Delivered' /\ CommitKnown'
    BY <1>0, PreparedStep, DeliveredStep, CommitKnownStep DEF TypeOK, Placed
  <2>3. Traced'
    BY <1>0, TracedStep DEF TypeOK, Placed
  <2> QED
    BY <2>1, <2>2, <2>3 DEF Placed
<1>2. CommittedOnce' /\ OneCommitPerTask'
  BY <1>0, CommittedOnceStep DEF Records
<1>3. InProgressIsRunning' /\ OneInProgress'
  BY <1>0, InProgressStep, OneInProgressStep DEF Records
<1>4. ChangelogTruthful' /\ LeftoverIsVisible'
  BY <1>0, ChangelogTruthStep, LeftoverStep DEF Records
<1> QED
  BY <1>1, <1>2, <1>3, <1>4 DEF Records

\* Throughout, the documents, the history and the tree tell the same story.
THEOREM RecordsAgree == Spec => []Records
BY InitRecords, NextRecords, Invariance, PTL DEF Spec

\* A changelog that can be read has an entry for every task that is done, and the commit
\* an entry names is its task's: a write cut short is never taken for a shorter record.
THEOREM ChangelogIsTruthful == Spec => []ChangelogTruthful
<1>1. Records => ChangelogTruthful
  BY DEF Records
<1> QED
  BY <1>1, RecordsAgree, PTL

\* Claude's uncommitted work always belongs to one task, and its status shows it.
THEOREM LeftoversAreVisible == Spec => []LeftoverIsVisible
<1>1. Records => LeftoverIsVisible
  BY DEF Records
<1> QED
  BY <1>1, RecordsAgree, PTL

\* Without faults, crashes and reopenings no task is committed twice.
THEOREM NoSecondCommit == Spec => []OneCommitPerTask
<1>1. Records => OneCommitPerTask
  BY DEF Records
<1> QED
  BY <1>1, RecordsAgree, PTL

\* Without faults and crashes no run ends with its task in-progress.
THEOREM ExitsAreClean == Spec => []CleanExit
<1>1. Records => CleanExit
  BY DEF Records, InProgressIsRunning, CleanExit, At, InRun
<1> QED
  BY <1>1, RecordsAgree, PTL

\* What `recover` reports is what happened, and what the next run will do.
THEOREM RecoveryIsRight == Spec => []ReportIsRight
<1>1. ASSUME Records, AtRest, Interrupted, env.reopens = 0
      PROVE  /\ InterruptedTasks = {ReportedTask}
             /\ current.task = ReportedTask
             /\ tree.by \subseteq {ReportedTask, Human}
             /\ ReportedTask \in Open /\ First(ReportedTask)
  <2>1. PICK t \in Tasks : backlog[t] = "in-progress"
    BY <1>1 DEF Interrupted, InterruptedTasks
  <2>2. \A u \in InterruptedTasks : u \in Open /\ First(u)
    BY <1>1 DEF InterruptedTasks, Records, OneInProgress, Open, IsOpenStatus
  <2>3. InterruptedTasks = {t}
    BY <2>1, <2>2, FirstIsUnique DEF InterruptedTasks
  <2>4. ReportedTask = t
    BY <2>3, ConstantsAssumption DEF ReportedTask, Min
  <2> QED
    BY <1>1, <2>1, <2>2, <2>3, <2>4 DEF Records, OneInProgress
<1>2. Records => ReportIsRight
  BY <1>1 DEF ReportIsRight
<1> QED
  BY <1>2, RecordsAgree, PTL
-----------------------------------------------------------------------------
\* A commit shows in the abstract list of commits.
LEMMA CommitTasksAppend ==
  ASSUME RepositoryOK, task \in Tasks, history' = Append(history, NewCommit)
  PROVE  CommitTasks' = Append(CommitTasks, task)
<1>1. /\ DOMAIN history = 1..Len(history) /\ Len(history) \in Nat
      /\ DOMAIN history' = 1..(Len(history) + 1)
      /\ \A i \in DOMAIN history : history'[i] = history[i]
      /\ history'[Len(history) + 1].task = task
  <2>1. NewCommit \in Commits
    BY NewCommitIsCommit
  <2> QED
    BY <2>1, CommitAppends DEF RepositoryOK
<1>2. \A i \in DOMAIN history : history[i].task \in Tasks
  <2>1. \A i \in DOMAIN history : history[i] \in Commits
    BY DEF RepositoryOK
  <2> QED
    BY <2>1 DEF Commits
<1>3. CommitTasks \in Seq(Tasks) /\ Len(CommitTasks) = Len(history)
  BY <1>1, <1>2 DEF CommitTasks
<1>4. /\ CommitTasks' = [i \in 1..(Len(history) + 1) |-> history'[i].task]
      /\ Append(CommitTasks, task) \in Seq(Tasks)
      /\ Len(Append(CommitTasks, task)) = Len(history) + 1
      /\ \A i \in 1..(Len(history) + 1) : Append(CommitTasks, task)[i] = history'[i].task
  BY <1>1, <1>3 DEF CommitTasks
<1>5. \A s \in Seq(Tasks) : s = [i \in 1..Len(s) |-> s[i]]
  OBVIOUS
<1>6. Append(CommitTasks, task)
        = [i \in 1..(Len(history) + 1) |-> Append(CommitTasks, task)[i]]
  BY <1>4, <1>5
<1>7. [i \in 1..(Len(history) + 1) |-> Append(CommitTasks, task)[i]]
        = [i \in 1..(Len(history) + 1) |-> history'[i].task]
  BY <1>4
<1> QED
  BY <1>4, <1>6, <1>7

\* Each kind of step is one of Lifecycle's.
LEMMA StepsOfLifecycle == IInv /\ Records /\ [Next]_vars => Promise!LNext
<1> SUFFICES ASSUME IInv, Records, [Next]_vars PROVE Promise!LNext
  OBVIOUS
<1>0. /\ RunOK /\ DocumentsOK /\ RepositoryOK /\ env \in Budgets /\ TaskChosen
      /\ Idle /\ Marked /\ Selected /\ CommitKnown /\ Traced
  BY DEF IInv, TypeOK, Records, Placed, Standing
<1>1. Promise!Trouble
  <2>1. Troubled \in BOOLEAN /\ Troubled' \in BOOLEAN
    BY DEF Troubled
  <2>2. Troubled => Troubled'
    BY <1>0, EnvStep DEF Spend, Budgets, Troubled
  <2> QED
    BY <2>1, <2>2 DEF Promise!Trouble
<1>2. None \notin Tasks /\ (pc \in InRun => task \in Tasks)
  BY <1>0, ConstantsAssumption DEF TaskChosen, InRun, Running, Labels
<1>3. CASE Works \/ Rests
  <2>1. /\ backlog' = backlog /\ RunningTask' = RunningTask
        /\ KnowsCommit' = KnowsCommit /\ CommitTasks' = CommitTasks
    BY <1>3 DEF Works, Rests, RunningTask, KnowsCommit, CommitTasks
  <2> QED
    BY <1>1, <2>1 DEF Promise!LNext
<1>4. CASE Marks
  <2>1. task \in Tasks /\ task \in Open /\ commit = 0
    BY <1>0, <1>4 DEF Marks, Selected, CommitKnown, TaskChosen, Running, Labels
  <2>2. backlog[task] \in {"new", "in-progress"}
    BY <1>0, <2>1 DEF Open, IsOpenStatus, DocumentsOK, Status
  <2>3. /\ RunningTask = None /\ RunningTask' = task
        /\ KnowsCommit' = FALSE /\ CommitTasks' = CommitTasks
    BY <1>4, <2>1 DEF Marks, RunningTask, KnowsCommit, CommitTasks, InRun
  <2>4. Promise!Start(task)
    BY <1>4, <2>1, <2>2, <2>3 DEF Promise!Start, Marks
  <2> QED
    BY <1>1, <2>1, <2>4 DEF Promise!LNext
<1>5. CASE Lands
  <2>1. /\ pc = "commit" /\ pc' = "changelog" /\ task \in Tasks /\ commit = 0
        /\ CommitTasks' = Append(CommitTasks, task) /\ commit' # 0
    BY <1>0, <1>2, <1>5, CommitTasksAppend, CommitAppends DEF Lands, InRun, CommitKnown
  <2>2. /\ RunningTask = task /\ RunningTask' = task
        /\ KnowsCommit = FALSE /\ KnowsCommit' = TRUE
    BY <1>5, <2>1 DEF Lands, RunningTask, KnowsCommit, InRun
  <2>3. Promise!Land
    BY <1>2, <1>5, <2>1, <2>2 DEF Lands, Promise!Land
  <2> QED
    BY <1>1, <2>3 DEF Promise!LNext
<1>6. CASE LandsUnseen
  <2>1. /\ pc = "commit" /\ pc' = "fail" /\ task \in Tasks /\ commit = 0
        /\ CommitTasks' = Append(CommitTasks, task) /\ commit' = 0
    BY <1>0, <1>2, <1>6, CommitTasksAppend DEF LandsUnseen, InRun, CommitKnown
  <2>2. /\ RunningTask = task /\ RunningTask' = task
        /\ KnowsCommit = FALSE /\ KnowsCommit' = FALSE
    BY <1>6, <2>1 DEF LandsUnseen, RunningTask, KnowsCommit, InRun
  <2>3. Troubled'
    BY <1>0, <1>6 DEF LandsUnseen, Spend, Budgets, Troubled
  <2>4. Promise!LandUnseen
    BY <1>2, <1>6, <2>1, <2>2, <2>3 DEF LandsUnseen, Promise!LandUnseen
  <2> QED
    BY <1>1, <2>4 DEF Promise!LNext
<1>7. ASSUME NEW s \in {"done", "blocked"}, Settles(s) PROVE Promise!LNext
  <2>1. /\ RunningTask = task /\ RunningTask' = None /\ task \in Tasks
        /\ KnowsCommit' = FALSE /\ CommitTasks' = CommitTasks
        /\ s = "blocked" => KnowsCommit = FALSE
    BY <1>0, <1>2, <1>7 DEF Settles, RunningTask, KnowsCommit, CommitTasks, InRun, CommitKnown
  <2>2. Promise!Settle(s)
    BY <1>2, <1>7, <2>1 DEF Settles, Promise!Settle
  <2> QED
    BY <1>1, <1>7, <2>2 DEF Promise!LNext
<1>8. CASE Abandons
  <2>1. /\ RunningTask = task /\ RunningTask' = None /\ task \in Tasks
        /\ KnowsCommit' = FALSE /\ CommitTasks' = CommitTasks
    BY <1>2, <1>8 DEF Abandons, RunningTask, KnowsCommit, CommitTasks
  <2>2. Troubled'
    BY <1>0, <1>8 DEF Abandons, Spend, Budgets, Troubled, Undisturbed, Traced
  <2>3. Promise!Abandon
    BY <1>2, <1>8, <2>1, <2>2 DEF Abandons, Promise!Abandon
  <2> QED
    BY <1>1, <2>3 DEF Promise!LNext
<1>9. ASSUME NEW u \in Tasks, HumanReopens(u) PROVE Promise!LNext
  <2>1. /\ RunningTask = None /\ RunningTask' = None
        /\ KnowsCommit' = KnowsCommit /\ CommitTasks' = CommitTasks
    BY <1>9 DEF HumanReopens, RunningTask, KnowsCommit, CommitTasks, InRun
  <2>2. Promise!Reopen(u)
    BY <1>9, <2>1 DEF HumanReopens, Promise!Reopen
  <2> QED
    BY <1>1, <2>2 DEF Promise!LNext
<1> QED
  BY <1>0, <1>3, <1>4, <1>5, <1>6, <1>7, <1>8, <1>9, StepKinds

\* The pipeline implements Lifecycle: with any backlog and any number of crashes,
\* errors and interrupts, one task runs at a time, it is committed at most once while
\* it runs, and it is settled once, or abandoned only where there was trouble.
THEOREM PipelineImplementsLifecycle == Spec => ImplementsLifecycle
<1>1. Init => Promise!LInit
  <2> SUFFICES ASSUME Init PROVE Promise!LInit
    OBVIOUS
  <2>1. backlog = [t \in Tasks |-> "new"] /\ RunningTask = None /\ KnowsCommit = FALSE
    BY DEF Init, RunningTask, KnowsCommit, InRun
  <2>2. CommitTasks = <<>>
    BY DEF Init, CommitTasks
  <2>3. Troubled = FALSE
    BY DEF Init, Troubled
  <2> QED
    BY <2>1, <2>2, <2>3 DEF Promise!LInit
<1>2. IInv /\ Records /\ [Next]_vars => [Promise!LNext]_(Promise!lvars)
  BY StepsOfLifecycle
<1> QED
  BY <1>1, <1>2, Invariance, RecordsAgree, PTL DEF Spec, ImplementsLifecycle, Promise!LSpec
-----------------------------------------------------------------------------
\* How many steps a run has left, at most: to its end if no gate and no review sends it
\* back, ...
Place(l) ==
  CASE l = "clean" -> 17 [] l = "mark-current" -> 16 [] l = "mark-backlog" -> 15
    [] l = "implement" -> 14 [] l = "implemented" -> 13
    [] l = "verify" -> 12 [] l = "gates" -> 11 [] l = "repair" -> 10 [] l = "repairing" -> 9
    [] l = "review" -> 10 [] l = "reviewing" -> 9 [] l = "revise" -> 8 [] l = "revising" -> 7
    [] l = "committing" -> 6 [] l = "commit" -> 5
    [] l = "changelog" -> 4 [] l = "mark-done" -> 3 [] l = "clear-current" -> 2 [] l = "done" -> 1
    [] l = "fail" -> 3 [] l = "block" -> 2 [] l = "failed" -> 1
    [] OTHER -> 0

\* ... with the repairs it may still make before the review, and the revisions after it,
\* each of which is verified and repaired anew.
Building == {"clean", "mark-current", "mark-backlog", "implement", "implemented",
             "verify", "gates", "repair", "repairing"}
Judging  == {"review", "reviewing", "revise", "revising"}
Round    == 3 * MaxRepairAttempts + 6
Retries  == 3 * (MaxRepairAttempts - repairs)
Ahead    == Round * (MaxReviewAttempts - revisions)

Remaining ==
  Place(pc) + (IF pc \in Building THEN Retries ELSE 0)
            + (IF pc \in Building \cup Judging THEN Ahead ELSE 0)

RunLength == 17 + 3 * MaxRepairAttempts + Round * MaxReviewAttempts

\* Every step of the process within a run leaves it fewer, and nothing leaves it more.
Shorter  == pc \in Running => /\ Remaining' <= Remaining
                              /\ Process => Remaining' < Remaining
Shortens == [][Shorter]_vars
Bounded  == Remaining \in 0..RunLength

\* The labels that may come next with the attempts as they were.
Onwards(l, k) ==
  \/ k = "fail" /\ Place(l) > 4
  \/ l = "clean" /\ k = "mark-current"
  \/ l = "mark-current" /\ k = "mark-backlog"
  \/ l = "mark-backlog" /\ k = "implement"
  \/ l = "implement" /\ k = "implemented"
  \/ l = "implemented" /\ k = "verify"
  \/ l = "verify" /\ k = "gates"
  \/ l = "gates" /\ k \in {"repair", "review", "committing", "changelog"}
  \/ l = "repair" /\ k = "repairing"
  \/ l = "review" /\ k = "reviewing"
  \/ l = "reviewing" /\ k \in {"revise", "committing", "changelog"}
  \/ l = "revise" /\ k = "revising"
  \/ l = "committing" /\ k = "commit"
  \/ l = "commit" /\ k = "changelog"
  \/ l = "changelog" /\ k = "mark-done"
  \/ l = "mark-done" /\ k = "clear-current"
  \/ l = "clear-current" /\ k = "done"
  \/ l = "fail" /\ k = "block"
  \/ l = "block" /\ k = "failed"

Advances == Onwards(pc, pc') /\ UNCHANGED counts
Retried  == pc = "repairing" /\ pc' = "gates" /\ repairs' = repairs + 1 /\ revisions' = revisions
Revised  == pc = "revising" /\ pc' = "verify" /\ repairs' = 0 /\ revisions' = revisions + 1

\* Within a run, the process goes onwards, or back for an attempt that counts, or returns.
LEMMA ProcessMoves ==
  ASSUME RunOK, pc \in Running, Process
  PROVE  Advances \/ Retried \/ Revised \/ pc' = "idle"
<1> USE DEF durable, counts, At, Goto, Fail, Return, IOFails, GitFails, Spend,
        Advances, Retried, Revised, Onwards, Place, Running, Labels
<1>1. CASE Begin
  BY <1>1 DEF Begin, SelectTask, RequireCleanTree, MarkCurrent, MarkInProgress
<1>2. CASE Build
  BY <1>2 DEF Build, Implement, CheckpointImplemented, StartVerify, RunGates, StartRepair, Repair,
              Session, WriteCheckpoint, UpdateStage, UpdateStageUnlessCancelled
<1>3. CASE Critique
  BY <1>3 DEF Critique, StartReview, Review, ReviewerLeaves, StartRevise, Revise, Session, UpdateStage,
              UpdateStageUnlessCancelled
<1>4. CASE Conclude
  BY <1>4 DEF Conclude, StartCommit, Commit, RecordChangelog, MarkDone, ClearCurrent, CheckpointDone,
              WriteCheckpoint, UpdateStage
<1>5. CASE GiveUp
  BY <1>5 DEF GiveUp, RecordFailure, MarkBlocked, CheckpointFailure, WriteCheckpoint
<1>6. CASE Exit \/ Restart
  BY <1>6 DEF Exit, Restart
<1> QED
  BY <1>1, <1>2, <1>3, <1>4, <1>5, <1>6 DEF Process

\* Outside of it, a run is left where it is, or ended, or its commit is taken for failed.
LEMMA OutsideMoves ==
  ASSUME pc \in Running, Outside
  PROVE  UNCHANGED <<pc, counts>> \/ pc' = "down" \/ Advances
<1> USE DEF durable, counts, At, Fail, Spend, Advances, Onwards, Place
<1>1. CASE Cancel
  BY <1>1 DEF Cancel
<1>2. CASE CommitKilled \/ Crash
  BY <1>2 DEF CommitKilled, Crash
<1>3. CASE HumanEdit \/ HumanTidies
  BY <1>3 DEF HumanEdit, HumanTidies
<1>4. ASSUME NEW t \in Tasks, HumanReopens(t)
      PROVE  UNCHANGED <<pc, counts>> \/ pc' = "down" \/ Advances
  BY <1>4 DEF HumanReopens
<1> QED
  BY <1>1, <1>2, <1>3, <1>4 DEF Outside

\* The attempts left, as numbers.
LEMMA AttemptsCount ==
  ASSUME NEW p \in 0..MaxRepairAttempts, NEW q \in 0..MaxReviewAttempts
  PROVE  /\ 3 * (MaxRepairAttempts - p) \in 0..(3 * MaxRepairAttempts)
         /\ Round * (MaxReviewAttempts - q) \in 0..(Round * MaxReviewAttempts)
         /\ Round * MaxReviewAttempts \in Nat
<1>1. PICK r, v : r = MaxRepairAttempts - p /\ v = MaxReviewAttempts - q
                  /\ r \in 0..MaxRepairAttempts /\ v \in 0..MaxReviewAttempts
  BY ConstantsAssumption
<1>2. \A m, n, x \in Nat : n <= m => x * n \in Nat /\ x * n <= x * m
  OBVIOUS
<1>3. Round \in Nat
  BY ConstantsAssumption DEF Round
<1>4. 3 * r \in Nat /\ 3 * r <= 3 * MaxRepairAttempts
  BY <1>1, ConstantsAssumption
<1>5. Round * v \in Nat /\ Round * v <= Round * MaxReviewAttempts
  BY <1>1, <1>2, <1>3, ConstantsAssumption
<1>6. Round * MaxReviewAttempts \in Nat
  BY <1>2, <1>3, ConstantsAssumption
<1> QED
  BY <1>1, <1>4, <1>5, <1>6, ConstantsAssumption

\* What an attempt takes from those left.
LEMMA AttemptsFall ==
  ASSUME RunOK, RunOK'
  PROVE  /\ UNCHANGED counts => UNCHANGED <<Retries, Ahead>>
         /\ Retried => Retries' + 3 = Retries /\ Ahead' = Ahead
         /\ Revised => Ahead' + Retries' + 6 = Ahead
<1>1. UNCHANGED counts => UNCHANGED <<Retries, Ahead>>
  BY DEF counts, Retries, Ahead, Round
<1>2. Retried => Retries' + 3 = Retries /\ Ahead' = Ahead
  BY ConstantsAssumption DEF Retried, Retries, Ahead, Round, RunOK
<1>3. ASSUME Revised PROVE Ahead' + Retries' + 6 = Ahead
  <2>1. PICK n, m : n = MaxReviewAttempts - revisions /\ n \in Nat /\ n - 1 \in Nat
                    /\ MaxReviewAttempts - revisions' = n - 1 /\ m = MaxRepairAttempts /\ m \in Nat
    BY <1>3, ConstantsAssumption DEF RunOK, Revised
  <2>2. \A x, y \in Int : x * (y - 1) = x * y - x
    OBVIOUS
  <2>3. PICK x : x = Round /\ x \in Nat /\ x = 3 * m + 6
    BY <2>1 DEF Round
  <2>4. Ahead = x * n /\ Ahead' = x * (n - 1) /\ Retries' = 3 * m
    BY <1>3, <2>1, <2>3 DEF Ahead, Retries, Round, Revised
  <2>5. x * (n - 1) = x * n - x /\ x * n \in Int
    BY <2>1, <2>2, <2>3
  <2> QED
    BY ONLY <2>1, <2>3, <2>4, <2>5
<1> QED
  BY <1>1, <1>2, <1>3

\* Whichever of these a step of a run is, it leaves the run fewer steps.
LEMMA MovesShorten ==
  ASSUME RunOK, RunOK', pc \in Running, Advances \/ Retried \/ Revised \/ pc' \in {"idle", "down"}
  PROVE  Remaining' < Remaining /\ Remaining' <= Remaining
<1>1. /\ Retries \in Nat /\ Ahead \in Nat /\ Retries' \in Nat /\ Ahead' \in Nat
  <2>1. Retries \in Nat /\ Ahead \in Nat
    BY AttemptsCount DEF RunOK, Retries, Ahead
  <2>2. Retries' \in Nat /\ Ahead' \in Nat
    BY AttemptsCount DEF RunOK, Retries, Ahead, Round
  <2> QED
    BY <2>1, <2>2
<1> USE DEF Remaining, Place, Building, Judging
<1>2. CASE Advances
  <2>1. Retries' = Retries /\ Ahead' = Ahead
    BY <1>2, AttemptsFall DEF Advances
  <2>2. Onwards(pc, pc')
    BY <1>2 DEF Advances
  <2> QED
    BY <1>1, <2>1, <2>2 DEF Onwards, Running, Labels
<1>3. CASE Retried
  BY <1>1, <1>3, AttemptsFall DEF Retried
<1>4. CASE Revised
  BY <1>1, <1>4, AttemptsFall DEF Revised
<1>5. CASE pc' \in {"idle", "down"}
  BY <1>1, <1>5 DEF Running, Labels
<1> QED
  BY <1>2, <1>3, <1>4, <1>5

\* A run takes at most RunLength steps, whatever sessions, gates and reviewers do, and
\* wherever a fault or an interrupt falls: each step leaves it fewer (Run, verifyAndRepair,
\* reviewAndRevise).  Interrupts, crashes and people never prolong it.
THEOREM RunsAreBounded == Spec => []Bounded /\ Shortens
<1>1. TypeOK => Bounded
  <2> SUFFICES ASSUME TypeOK PROVE Bounded
    OBVIOUS
  <2>1. Retries \in 0..(3 * MaxRepairAttempts) /\ Ahead \in 0..(Round * MaxReviewAttempts)
    BY AttemptsCount DEF TypeOK, RunOK, Retries, Ahead
  <2>2. PICK a, b : a = 3 * MaxRepairAttempts /\ b = Round * MaxReviewAttempts
    OBVIOUS
  <2>3. a \in Nat /\ b \in Int
    BY <2>2, AttemptsCount, ConstantsAssumption
  <2>4. Place(pc) \in 0..17
    BY DEF Place
  <2> QED
    BY <2>1, <2>2, <2>3, <2>4 DEF Bounded, Remaining, RunLength
<1>2. TypeOK /\ TypeOK' /\ [Next]_vars => [Shorter]_vars
  <2> SUFFICES ASSUME TypeOK, TypeOK', Next, pc \in Running
               PROVE  Remaining' <= Remaining /\ (Process => Remaining' < Remaining)
    BY DEF Shorter
  <2>1. RunOK /\ RunOK'
    BY DEF TypeOK
  <2>2. Process => Remaining' < Remaining /\ Remaining' <= Remaining
    BY <2>1, ProcessMoves, MovesShorten
  <2>3. Outside => Remaining' <= Remaining
    <3> SUFFICES ASSUME Outside PROVE Remaining' <= Remaining
      OBVIOUS
    <3>1. CASE UNCHANGED <<pc, counts>>
      <4>1. Remaining' = Remaining
        BY <2>1, <3>1, AttemptsFall DEF Remaining
      <4>2. Remaining \in Int
        BY <1>1 DEF Bounded
      <4> QED
        BY <4>1, <4>2
    <3>2. CASE pc' = "down" \/ Advances
      BY <2>1, <3>2, MovesShorten
    <3> QED
      BY <3>1, <3>2, OutsideMoves
  <2> QED
    BY <2>2, <2>3 DEF Next
<1> QED
  BY TypeCorrect, <1>1, <1>2, PTL DEF Spec, Shortens
=============================================================================
