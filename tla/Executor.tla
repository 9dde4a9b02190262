------------------------------ MODULE Executor ------------------------------
(***************************************************************************)
(* The task pipeline of internal/executor/executor.go: one process runs    *)
(* RunNext again and again, and each Run drives one backlog task through   *)
(* implement, verify and repair, review and revise, commit, and record.    *)
(*                                                                         *)
(* Every durable write (CURRENT.md, BACKLOG.md, CHANGELOG.md, a git        *)
(* commit, a checkpoint) is a step of its own, because a crash or an       *)
(* interrupt can fall between any two of them.  What the code calls but    *)
(* does not control is nondeterministic: whether a Claude session succeeds *)
(* and what it leaves in the working tree, whether the gates pass, what    *)
(* the review says, and, within named budgets, whether a read, a write or  *)
(* a git command fails.                                                    *)
(***************************************************************************)
EXTENDS Naturals, Sequences

CONSTANTS
  Tasks,              \* backlog tasks, numbered by their place in BACKLOG.md
  Priority,           \* Priority[t], lower runs first
  MaxRepairAttempts,  \* Config.MaxRepairAttempts
  MaxReviewAttempts,  \* Config.MaxReviewAttempts
  Settings,           \* the settings a project may run under
  Human,              \* whoever else edits the working tree
  None,
  \* Budgets of what the environment may do; they only bound the model.
  MaxFaults, MaxCrashes, MaxCancels, MaxEdits, MaxReopens,
  MaxTrouble,         \* of all kinds together
  MaxCommits          \* commits after which no run starts over a torn CHANGELOG.md

ASSUME ConstantsAssumption ==
  /\ Tasks \subseteq Nat
  /\ Priority \in [Tasks -> Nat]
  /\ MaxRepairAttempts \in Nat /\ MaxReviewAttempts \in Nat
  /\ Settings \subseteq [review : BOOLEAN, reviewerEdits : BOOLEAN, autoCommit : BOOLEAN, stateIgnored : BOOLEAN]
  /\ Human \notin Tasks /\ None \notin Tasks
  /\ MaxFaults \in Nat /\ MaxCrashes \in Nat /\ MaxCancels \in Nat
  /\ MaxEdits \in Nat /\ MaxReopens \in Nat /\ MaxTrouble \in Nat /\ MaxCommits \in Nat

VARIABLES
  \* Durable: the documents under .ai/, the repository, the checkpoints.
  backlog,    \* [Tasks -> Status], BACKLOG.md
  current,    \* CURRENT.md: the task it names and the recorded stage
  changelog,  \* CHANGELOG.md: the task and the commit of each entry, oldest first,
              \* and whether its header is whole, so that it can be read
  history,    \* commits made by the pipeline: for which task, and what they hold
  tree,       \* uncommitted work outside .ai/: who wrote it, and how it was checked
  ckpt,       \* the newest checkpoint: task and stage
  \* Volatile: the call of Run in progress.
  pc, task, repairs, revisions, commit, result,
  cancelled,  \* the context was cancelled (SIGINT or SIGTERM)
  env         \* the settings in force, and how much of each budget is spent

durable == <<backlog, current, changelog, history, tree, ckpt>>
counts  == <<repairs, revisions>>
vars    == <<durable, pc, task, counts, commit, result, cancelled, env>>

Status == {"new", "in-progress", "blocked", "done"}
Stage  == {"implementing", "verifying", "repairing", "reviewing", "committing", "done"}
Result == {"none", "ok", "no-work", "dirty", "session", "gates", "review", "cancelled", "error"}

Who      == Tasks \cup {Human}
Work     == [by : SUBSET Who, verified : BOOLEAN, approved : BOOLEAN]
Pristine == [by |-> {}, verified |-> FALSE, approved |-> FALSE]
Commits  == [task : Tasks, by : SUBSET Who, verified : BOOLEAN, approved : BOOLEAN]
Entries  == [task : Tasks, commit : Nat]
Logs     == [entries : Seq(Entries), whole : BOOLEAN]
Notes    == [task : Tasks \cup {None}, stage : Stage \cup {"none"}]
Budgets  == [set : Settings, faults : Nat, crashes : Nat, cancels : Nat, edits : Nat, reopens : Nat]

ReviewEnabled == env.set.review         \* deps.Reviewer is not nil
ReviewerEdits == env.set.reviewerEdits  \* a review session may write files, which only its prompt forbids
AutoCommit    == env.set.autoCommit     \* Config.AutoCommit
StateIgnored  == env.set.stateIgnored   \* .ai/ is listed in the project's .gitignore
-----------------------------------------------------------------------------
\* Mutant of IsOpenStatus: a blocked task is tried again.
IsOpenUnlessDone(s) == s # "done"

\* IsOpenStatus: only done and blocked tasks are not actionable.
IsOpenStatus(s) == s \notin {"done", "blocked"}
Open == {t \in Tasks : IsOpenStatus(backlog[t])}

\* The stable sort of selectTask: by priority, then by place in the backlog.
First(t) == \A u \in Open : \/ Priority[t] < Priority[u]
                            \/ Priority[t] = Priority[u] /\ t <= u

\* RealWorkStatus: changes under .ai/ do not make the tree dirty ...
RealWorkClean == tree.by = {}

\* ... but GitStatus.IsClean counts them, unless git ignores the directory.
IsClean == RealWorkClean /\ StateIgnored

Edited(w) == [by |-> tree.by \cup {w}, verified |-> FALSE, approved |-> FALSE]

\* What a Claude session may leave: nothing new, an edit, or a tree restored to HEAD.
SessionLeaves == tree' \in {tree, Edited(task), Pristine}

\* All that the environment has done to the project so far.
Troubles == env.faults + env.crashes + env.cancels + env.edits + env.reopens

Spend(f, max) == env[f] < max /\ Troubles < MaxTrouble /\ env' = [env EXCEPT ![f] = @ + 1]

\* A memory or checkpoint operation returns an error.
IOFails == Spend("faults", MaxFaults)

\* A git command returns an error: exec.CommandContext does not start one once
\* the context is done.
GitFails == \/ cancelled /\ UNCHANGED env
            \/ IOFails

At(l) == pc = l
Goto(l) == pc' = l /\ UNCHANGED <<task, counts, commit, result>>

\* Run hands the error to fail.
Fail(why) == /\ pc' = "fail"
             /\ result' = why
             /\ UNCHANGED <<task, counts, commit>>

\* RunNext returns to its caller.
Return(r) == /\ pc' = "idle"
             /\ result' = r
             /\ task' = None /\ repairs' = 0 /\ revisions' = 0 /\ commit' = 0

\* updateStage: read CURRENT.md, replace its stage, write it back.
UpdateStage(l, stage, next) ==
  /\ At(l)
  /\ \/ /\ current' = [current EXCEPT !.stage = stage]
        /\ Goto(next)
        /\ UNCHANGED env
     \/ IOFails /\ Fail("error") /\ UNCHANGED current
  /\ UNCHANGED <<backlog, changelog, history, tree, ckpt, cancelled>>

\* As above, where the loop first looks at the context.
UpdateStageUnlessCancelled(l, stage, next) ==
  \/ cancelled /\ At(l) /\ Fail("cancelled") /\ UNCHANGED <<durable, cancelled, env>>
  \/ ~cancelled /\ UpdateStage(l, stage, next)

\* checkpoint: its failure is only logged.
WriteCheckpoint(stage) ==
  /\ \/ ckpt' = [task |-> task, stage |-> stage] /\ UNCHANGED env
     \/ IOFails /\ UNCHANGED ckpt
  /\ UNCHANGED <<backlog, current, changelog, history, tree, cancelled>>

\* A Claude session at l: on success go on with next, otherwise fail.  A failed
\* session may have edited the tree as well.  One that is never started, because
\* the context is done, fails and leaves nothing.
Session(l, next) ==
  /\ At(l)
  /\ \/ ~cancelled /\ SessionLeaves /\ (next \/ Fail("session"))
     \/ cancelled /\ Fail("session") /\ UNCHANGED tree
  /\ UNCHANGED <<backlog, current, changelog, history, ckpt, cancelled, env>>

\* What CHANGELOG.md may hold once its write was cut short.  os.WriteFile truncates
\* first: the file is as it was, or its header is cut, or the header is complete and
\* only the prose behind it is cut.
Entered == [entries |-> Append(changelog.entries, [task |-> task, commit |-> commit]), whole |-> TRUE]
Torn    == [entries |-> <<>>, whole |-> FALSE]
CutShort == changelog' \in {changelog, Torn, Entered}

\* What git commit would record now.
NewCommit == [task |-> task, by |-> tree.by, verified |-> tree.verified, approved |-> tree.approved]
-----------------------------------------------------------------------------
\* Mutants: actions as a plausible slip would have them.  No specification uses
\* them; each run substitutes one for the action named like its first word.

\* A dirty tree no longer stops the run.
RequireCleanTreeNever == /\ At("clean") /\ Goto("mark-current")
                         /\ UNCHANGED <<durable, cancelled, env>>

\* The failure to note the task in CURRENT.md ...
MarkCurrentBestEffort ==
  /\ At("mark-current")
  /\ \/ current' = [task |-> task, stage |-> "implementing"] /\ UNCHANGED env
     \/ IOFails /\ UNCHANGED current
  /\ Goto("mark-backlog")
  /\ UNCHANGED <<backlog, changelog, history, tree, ckpt, cancelled>>

\* ... or to mark it in-progress is only logged.
MarkInProgressBestEffort ==
  /\ At("mark-backlog")
  /\ \/ backlog' = [backlog EXCEPT ![task] = "in-progress"] /\ UNCHANGED env
     \/ IOFails /\ UNCHANGED backlog
  /\ Goto("implement")
  /\ UNCHANGED <<current, changelog, history, tree, ckpt, cancelled>>

\* One repair too many.
RunGatesOneMore ==
  /\ At("gates")
  /\ \/ ~cancelled /\ Goto(IF ReviewEnabled THEN "review" ELSE "committing")
     \/ IF repairs <= MaxRepairAttempts THEN Goto("repair") ELSE Fail("gates")
  /\ UNCHANGED <<durable, cancelled, env>>

\* The revision goes straight back to the reviewer ...
ReviseUnverified == Session("revising", /\ pc' = "review"
                                        /\ revisions' = revisions + 1
                                        /\ UNCHANGED <<task, repairs, commit, result>>)

\* ... or is not counted.
ReviseUncounted == Session("revising", Goto("verify"))

\* A changelog that cannot be read counts as an empty one and is written over ...
RecordChangelogAnyway ==
  /\ At("changelog")
  /\ \/ changelog' = Entered /\ Goto("mark-done") /\ UNCHANGED env
     \/ IOFails /\ CutShort /\ Return("error")
  /\ UNCHANGED <<backlog, current, history, tree, ckpt, cancelled>>

\* ... or the error goes through fail.
RecordChangelogOrFail ==
  /\ At("changelog")
  /\ \/ changelog.whole /\ changelog' = Entered /\ Goto("mark-done") /\ UNCHANGED env
     \/ ~changelog.whole /\ Fail("error") /\ UNCHANGED <<changelog, env>>
     \/ changelog.whole /\ IOFails /\ CutShort /\ Fail("error")
  /\ UNCHANGED <<backlog, current, history, tree, ckpt, cancelled>>

\* An interrupted run is not recorded as a failure.
RecordFailureUnlessCancelled ==
  /\ At("fail")
  /\ IF cancelled THEN Return(result) ELSE Goto("block")
  /\ UNCHANGED <<durable, cancelled, env>>
-----------------------------------------------------------------------------
Init ==
  /\ backlog = [t \in Tasks |-> "new"]
  /\ current = [task |-> None, stage |-> "none"]
  /\ changelog = [entries |-> <<>>, whole |-> TRUE] /\ history = <<>>
  /\ tree = Pristine
  /\ ckpt = [task |-> None, stage |-> "none"]
  /\ pc = "idle" /\ task = None /\ repairs = 0 /\ revisions = 0 /\ commit = 0
  /\ result = "none" /\ cancelled = FALSE
  /\ \E set \in Settings : env = [set |-> set, faults |-> 0, crashes |-> 0, cancels |-> 0, edits |-> 0, reopens |-> 0]

SelectTask ==
  /\ At("idle") /\ ~cancelled
  /\ \/ /\ changelog.whole \/ Len(history) < MaxCommits
        /\ \E t \in Open : First(t) /\ task' = t
        /\ pc' = "clean" /\ result' = "none"
        /\ UNCHANGED <<counts, commit, env>>
     \/ Open = {} /\ Return("no-work") /\ UNCHANGED env
     \/ IOFails /\ Return("error")
  /\ UNCHANGED <<durable, cancelled>>

RequireCleanTree ==
  /\ At("clean")
  /\ \/ ~cancelled /\ RealWorkClean /\ Goto("mark-current") /\ UNCHANGED env
     \/ ~cancelled /\ ~RealWorkClean /\ Return("dirty") /\ UNCHANGED env
     \/ GitFails /\ Return("error")
  /\ UNCHANGED <<durable, cancelled>>

\* markInProgress, first half: SaveCurrent.  Its error does not go through fail.
MarkCurrent ==
  /\ At("mark-current")
  /\ \/ /\ current' = [task |-> task, stage |-> "implementing"]
        /\ Goto("mark-backlog")
        /\ UNCHANGED env
     \/ IOFails /\ Return("error") /\ UNCHANGED current
  /\ UNCHANGED <<backlog, changelog, history, tree, ckpt, cancelled>>

\* markInProgress, second half: setBacklogStatus.
MarkInProgress ==
  /\ At("mark-backlog")
  /\ \/ /\ backlog' = [backlog EXCEPT ![task] = "in-progress"]
        /\ Goto("implement")
        /\ UNCHANGED env
     \/ IOFails /\ Return("error") /\ UNCHANGED backlog
  /\ UNCHANGED <<current, changelog, history, tree, ckpt, cancelled>>

Implement ==
  \/ Session("implement", Goto("implemented"))
  \/ /\ At("implement") /\ IOFails /\ Fail("error")      \* GetProject
     /\ UNCHANGED <<durable, cancelled>>

CheckpointImplemented ==
  At("implemented") /\ WriteCheckpoint("implementing") /\ Goto("verify")

StartVerify == UpdateStage("verify", "verifying", "gates")

\* The gates run over the tree as it is.  Passing marks that content verified.
RunGates ==
  /\ At("gates")
  /\ \/ /\ ~cancelled
        /\ tree' = [tree EXCEPT !.verified = TRUE]
        /\ Goto(IF ReviewEnabled THEN "review" ELSE IF AutoCommit THEN "committing" ELSE "changelog")
     \/ /\ UNCHANGED tree
        /\ IF repairs < MaxRepairAttempts THEN Goto("repair") ELSE Fail("gates")
  /\ UNCHANGED <<backlog, current, changelog, history, ckpt, cancelled, env>>

StartRepair == UpdateStageUnlessCancelled("repair", "repairing", "repairing")

Repair == Session("repairing", /\ pc' = "gates"
                               /\ repairs' = repairs + 1
                               /\ UNCHANGED <<task, revisions, commit, result>>)

StartReview == UpdateStageUnlessCancelled("review", "reviewing", "reviewing")

\* A review session is a Claude session with the same permissions as any other.
ReviewerLeaves(seen) == \/ tree' = seen
                        \/ ReviewerEdits /\ ~IsClean /\ tree' = Edited(task)

\* git.Diff, then Review: an empty diff is approved unseen; anything but a
\* readable verdict is an error.  Approval is of the content just read.
Review ==
  /\ At("reviewing")
  /\ \/ /\ ~cancelled
        /\ ReviewerLeaves([tree EXCEPT !.approved = TRUE])
        /\ Goto(IF AutoCommit THEN "committing" ELSE "changelog")
        /\ UNCHANGED env
     \/ /\ ~cancelled /\ ~IsClean
        /\ ReviewerLeaves(tree) /\ UNCHANGED env
        /\ IF revisions < MaxReviewAttempts THEN Goto("revise") ELSE Fail("review")
     \/ ~cancelled /\ ~IsClean /\ ReviewerLeaves(tree) /\ Fail("session") /\ UNCHANGED env
     \/ GitFails /\ Fail("error") /\ UNCHANGED tree
  /\ UNCHANGED <<backlog, current, changelog, history, ckpt, cancelled>>

StartRevise == UpdateStage("revise", "repairing", "revising")

\* A revision goes back to verifyAndRepair, whose attempts start again.
Revise == Session("revising", /\ pc' = "verify"
                              /\ revisions' = revisions + 1
                              /\ repairs' = 0
                              /\ UNCHANGED <<task, commit, result>>)

StartCommit == UpdateStage("committing", "committing", "commit")

\* git status, git add ., git commit.  With a clean tree no commit is made.
Commit ==
  /\ At("commit")
  /\ \/ /\ ~cancelled /\ IsClean
        /\ Goto("changelog")
        /\ UNCHANGED <<history, tree, cancelled, env>>
     \/ /\ ~cancelled /\ ~IsClean
        /\ history' = Append(history, NewCommit)
        /\ tree' = Pristine
        /\ commit' = Len(history')
        /\ pc' = "changelog"
        /\ UNCHANGED <<task, counts, result, cancelled, env>>
     \/ GitFails /\ Fail("error") /\ UNCHANGED <<history, tree, cancelled>>
  /\ UNCHANGED <<backlog, current, changelog, ckpt>>

\* The interrupt arrives while git commit runs: git has written the commit, but
\* the killed command is reported as failed.
CommitKilled ==
  /\ At("commit") /\ ~cancelled /\ ~IsClean
  /\ Spend("cancels", MaxCancels)
  /\ cancelled' = TRUE
  /\ history' = Append(history, NewCommit)
  /\ tree' = Pristine
  /\ Fail("error")
  /\ UNCHANGED <<backlog, current, changelog, ckpt>>

\* recordCompletion, in its three writes.  Its errors do not go through fail.  A
\* changelog that cannot be read is left alone, and the run ends there.
RecordChangelog ==
  /\ At("changelog")
  /\ \/ changelog.whole /\ changelog' = Entered /\ Goto("mark-done") /\ UNCHANGED env
     \/ ~changelog.whole /\ Return("error") /\ UNCHANGED <<changelog, env>>
     \/ changelog.whole /\ IOFails /\ CutShort /\ Return("error")
  /\ UNCHANGED <<backlog, current, history, tree, ckpt, cancelled>>

MarkDone ==
  /\ At("mark-done")
  /\ \/ /\ backlog' = [backlog EXCEPT ![task] = "done"]
        /\ Goto("clear-current")
        /\ UNCHANGED env
     \/ IOFails /\ Return("error") /\ UNCHANGED backlog
  /\ UNCHANGED <<current, changelog, history, tree, ckpt, cancelled>>

ClearCurrent ==
  /\ At("clear-current")
  /\ \/ /\ current' = [task |-> None, stage |-> "done"]
        /\ Goto("done")
        /\ UNCHANGED env
     \/ IOFails /\ Return("error") /\ UNCHANGED current
  /\ UNCHANGED <<backlog, changelog, history, tree, ckpt, cancelled>>

CheckpointDone == At("done") /\ WriteCheckpoint("done") /\ Return("ok")

\* recordFailure: reading CURRENT.md may fail, which ends it there and then; the
\* failure to write it, like every later one, is only logged.
RecordFailure ==
  /\ At("fail")
  /\ \/ Goto("block") /\ UNCHANGED env
     \/ IOFails /\ Return(result)
     \/ IOFails /\ Goto("block")
  /\ UNCHANGED <<durable, cancelled>>

MarkBlocked ==
  /\ At("block")
  /\ \/ backlog' = [backlog EXCEPT ![task] = "blocked"] /\ UNCHANGED env
     \/ IOFails /\ UNCHANGED backlog
  /\ Goto("failed")
  /\ UNCHANGED <<current, changelog, history, tree, ckpt, cancelled>>

CheckpointFailure == At("failed") /\ WriteCheckpoint(current.stage) /\ Return(result)
-----------------------------------------------------------------------------
\* The operator and the machine.

\* SIGINT or SIGTERM: main cancels the context every operation was given.
Cancel ==
  /\ pc # "down" /\ ~cancelled
  /\ Spend("cancels", MaxCancels)
  /\ cancelled' = TRUE
  /\ UNCHANGED <<durable, pc, task, counts, commit, result>>

\* The process dies, between two steps or while CHANGELOG.md is being written.
Crash ==
  /\ pc # "down"
  /\ Spend("crashes", MaxCrashes)
  /\ pc' = "down" /\ task' = None /\ repairs' = 0 /\ revisions' = 0 /\ commit' = 0
  /\ result' = "none" /\ cancelled' = FALSE
  /\ IF At("changelog") /\ changelog.whole THEN CutShort ELSE UNCHANGED changelog
  /\ UNCHANGED <<backlog, current, history, tree, ckpt>>

\* The command ends: cancelled, or with its loop over (RunLoop stops at an empty
\* backlog, at the first error, and at the number of tasks it was given).
Exit ==
  /\ At("idle")
  /\ pc' = "down" /\ result' = "none" /\ cancelled' = FALSE
  /\ UNCHANGED <<durable, task, counts, commit, env>>

Restart == At("down") /\ Goto("idle") /\ UNCHANGED <<durable, cancelled, env>>

\* Someone saves a source file, at any moment.
HumanEdit ==
  /\ Spend("edits", MaxEdits)
  /\ tree' = Edited(Human)
  /\ UNCHANGED <<backlog, current, changelog, history, ckpt>>
  /\ UNCHANGED <<pc, task, counts, commit, result, cancelled>>

\* Between runs someone commits, stashes or discards what is in the tree.
HumanTidies ==
  /\ pc \in {"idle", "down"} /\ ~RealWorkClean
  /\ tree' = Pristine
  /\ UNCHANGED <<backlog, current, changelog, history, ckpt>>
  /\ UNCHANGED <<pc, task, counts, commit, result, cancelled, env>>

\* Between runs someone sets a blocked task back to new in BACKLOG.md.
HumanReopens(t) ==
  /\ pc \in {"idle", "down"} /\ backlog[t] = "blocked"
  /\ Spend("reopens", MaxReopens)
  /\ backlog' = [backlog EXCEPT ![t] = "new"]
  /\ UNCHANGED <<current, changelog, history, tree, ckpt>>
  /\ UNCHANGED <<pc, task, counts, commit, result, cancelled>>

\* Split as the code is, so that a reader and a proof can follow the stages.
Begin     == SelectTask \/ RequireCleanTree \/ MarkCurrent \/ MarkInProgress
Build     == Implement \/ CheckpointImplemented \/ StartVerify \/ RunGates \/ StartRepair \/ Repair
Critique  == StartReview \/ Review \/ StartRevise \/ Revise
Conclude  == \/ StartCommit \/ Commit
             \/ RecordChangelog \/ MarkDone \/ ClearCurrent \/ CheckpointDone
GiveUp    == RecordFailure \/ MarkBlocked \/ CheckpointFailure
Process   == Begin \/ Build \/ Critique \/ Conclude \/ GiveUp \/ Exit \/ Restart
Outside   == \/ Cancel \/ CommitKilled \/ Crash \/ HumanEdit \/ HumanTidies
             \/ \E t \in Tasks : HumanReopens(t)

Next == Process \/ Outside
Spec == Init /\ [][Next]_vars
-----------------------------------------------------------------------------
\* Scheduling.  Claude sessions and gates end by themselves or by their timeout,
\* so a step of the process that stays enabled is taken.  Nothing is assumed of
\* the operator, of crashes, or of anyone who edits the tree.
FairSpec == Spec /\ WF_vars(Process)

Labels == {"idle", "down", "clean", "mark-current", "mark-backlog", "implement", "implemented",
           "verify", "gates", "repair", "repairing", "review", "reviewing", "revise", "revising",
           "committing", "commit", "changelog", "mark-done", "clear-current", "done",
           "fail", "block", "failed"}

DocumentsOK ==
  /\ backlog \in [Tasks -> Status]
  /\ current \in Notes /\ ckpt \in Notes
  /\ changelog \in Logs

RepositoryOK == history \in Seq(Commits) /\ tree \in Work

RunOK ==
  /\ pc \in Labels /\ task \in Tasks \cup {None}
  /\ commit \in Nat /\ result \in Result /\ cancelled \in BOOLEAN
  /\ repairs \in 0..MaxRepairAttempts /\ revisions \in 0..MaxReviewAttempts

\* Types, with the attempt limits of one Run: no run repairs or revises more
\* often than the configuration allows.
TypeOK == DocumentsOK /\ RepositoryOK /\ RunOK /\ env \in Budgets

\* Nothing but sessions, gates and reviews has failed so far.
Undisturbed == env.faults = 0 /\ env.crashes = 0

Checked(c) == c.verified /\ (ReviewEnabled => c.approved)

\* Rule 1 of the README, as far as it is in the pipeline's hands: a commit that holds
\* nothing but Claude's work passed every gate and, with a reviewer, was approved.  A
\* repair or a revision made since the last pass would break it, and so do the two
\* writers the pipeline does not control: a human who saves a file after the gates
\* ran, and a review session that writes, which only its prompt forbids.
PipelineCommitsChecked ==
  ~ReviewerEdits => \A i \in DOMAIN history : Human \notin history[i].by => Checked(history[i])

\* Rule 2 of the README: no commit sweeps in what an earlier task, or an earlier
\* process that crashed, left in the tree.
CommitsOwnWork == \A i \in DOMAIN history : history[i].by \subseteq {history[i].task, Human}

\* A changelog that can be read is complete: every task that is done has its entry,
\* and an entry that names a commit names one made for its own task.  Holds through
\* crashes, because the changelog is written between the commit and the status; and
\* a write cut short, which may lose entries of tasks done long ago, stays visible,
\* because nothing is ever written over a changelog that cannot be read.
ChangelogTruthful ==
  changelog.whole =>
    /\ \A t \in Tasks : backlog[t] = "done" =>
         \E i \in DOMAIN changelog.entries : changelog.entries[i].task = t
    /\ \A i \in DOMAIN changelog.entries :
         LET e == changelog.entries[i]
         IN  e.commit # 0 => e.commit \in DOMAIN history /\ history[e.commit].task = e.task

\* No task is committed twice, where no one reopens it and the run that committed it
\* was neither abandoned by a crash nor left by an error before it recorded that.
OneCommitPerTask ==
  Undisturbed /\ env.reopens = 0 =>
    \A i, j \in DOMAIN history : history[i].task = history[j].task => i = j

\* Between runs no task is left in-progress, interrupt or not: recovery takes one for
\* a crash.  (An error in the bookkeeping itself does leave one so.)
CleanExit == Undisturbed /\ At("idle") => \A t \in Tasks : backlog[t] # "in-progress"

\* Whatever Claude left uncommitted in the tree is the work of one task, and the
\* status of that task tells whose it is, even after a crash, to recovery and to a
\* human: it is in-progress or blocked (where no one reopens it) or, with AutoCommit
\* off, done, and then the work has passed its checks.
LeftoverIsVisible ==
  \A t \in tree.by \ {Human} :
    /\ tree.by \subseteq {t, Human}
    /\ env.reopens = 0 => backlog[t] \in {"in-progress", "blocked", "done"}
    /\ backlog[t] = "done" =>
         ~AutoCommit /\ (Human \notin tree.by /\ ~ReviewerEdits => Checked(tree))

\* A run that started ends: its loops are bounded, whatever gates and reviewer say.
RunReturns == (pc \notin {"idle", "down"}) ~> (pc \in {"idle", "down"})
=============================================================================
