-------------------------------- MODULE Git --------------------------------
(***************************************************************************)
(* internal/git/manager.go as the pipeline uses it: the clean check before *)
(* a session, the diff a reviewer is shown, and the commit.  Each is       *)
(* several git commands, and between any two of them a person, or a second *)
(* `start` on the same project, may save files and run git as well.        *)
(*                                                                         *)
(* A version stands for the content of a file.  Versions are numbered in   *)
(* the order in which they are written, 0 is a file that is not there.  A  *)
(* git command is one step, as git's own lock makes it; nobody deletes.    *)
(***************************************************************************)
EXTENDS Naturals, FiniteSets

CONSTANTS
  Files,       \* paths that git does not ignore ...
  StateFiles,  \* ... those of them under .ai/
  Callers,     \* processes that run the pipeline
  Person,
  MaxShown,    \* how many changed files fit into maxDiffSize
  MaxWrites, MaxTrouble  \* bounds of the model

ASSUME GitAssumption ==
  /\ IsFiniteSet(Files) /\ StateFiles \subseteq Files /\ Person \notin Callers
  /\ {MaxShown, MaxWrites, MaxTrouble} \subseteq Nat

VARIABLES
  work,      \* the working tree, [Files -> versions]
  index,     \* what is staged
  unmerged,  \* paths a merge left in conflict
  head,      \* the newest commit
  unborn,    \* there is none yet
  clock,     \* the newest version
  pc, run,   \* each caller: the command it comes to next, and what it knows
  trouble    \* commands that failed, and git commands of people

repo == <<work, index, unmerged, head, unborn, clock>>
vars == <<repo, pc, run, trouble>>

Nothing == [f \in Files |-> 0]

\* A run that has not read anything yet.  since and shownAt are the times at which
\* the check and the diff began; meddled, that someone else has run git since.
NewRun(now) == [since |-> now, dirty |-> FALSE, sure |-> FALSE, meddled |-> FALSE,
                shown |-> Nothing, shownAt |-> 0, todo |-> {}, whole |-> TRUE]

At(p, l) == pc[p] = l
Goto(p, l) == pc' = [pc EXCEPT ![p] = l]
Know(p, r) == run' = [run EXCEPT ![p] = r]

\* The run ends, and what it knew is gone.
Leave(p) == Goto(p, "idle") /\ Know(p, NewRun(0))

\* A git command of w that changes the repository is news to every other run that
\* relies on what it has read.
Meddles(w) ==
  run' = [q \in Callers |-> IF pc'[q] = "idle" THEN NewRun(0)
                            ELSE [run[q] EXCEPT !.meddled = @ \/ (q # w /\ pc[q] \notin {"session", "diff"})]]

Troubles == trouble < MaxTrouble /\ trouble' = trouble + 1
-----------------------------------------------------------------------------
\* The listings of Status.

Staged    == {f \in Files : index[f] # head[f]} \cup unmerged
Unstaged  == {f \in Files : index[f] # 0 /\ work[f] # index[f]} \cup unmerged
Untracked == {f \in Files \ unmerged : index[f] = 0 /\ work[f] # 0}

\* git status --porcelain says nothing.
IsClean == Staged \cup Unstaged \cup Untracked = {}

\* checkConflicts.
Conflicts == unmerged # {}

\* Mutant of Changed: git diff, without HEAD, so that what is staged is not shown.
ChangedUnstaged == Unstaged

\* What git diff HEAD renders: all that git knows of and that is not as committed.
Tracked == {f \in Files : head[f] # 0 \/ index[f] # 0} \cup unmerged
Changed == {f \in Tracked : work[f] # head[f]}
-----------------------------------------------------------------------------
\* Mutant of List: one that fails is taken for an empty one.
ListLenient(p, l, files, next) ==
  /\ At(p, l) /\ Goto(p, next)
  /\ \/ Know(p, [run[p] EXCEPT !.dirty = @ \/ files \ StateFiles # {}]) /\ UNCHANGED trouble
     \/ Troubles /\ UNCHANGED run
  /\ UNCHANGED repo
-----------------------------------------------------------------------------
Init ==
  /\ \E born \in SUBSET Files :
       /\ head = [f \in Files |-> IF f \in born THEN 1 ELSE 0]
       /\ unborn = (born = {})
  /\ work = head /\ index = head /\ unmerged = {} /\ clock = 1
  /\ pc = [p \in Callers |-> "idle"] /\ run = [p \in Callers |-> NewRun(0)]
  /\ trouble = 0

\* A command fails, or the context is done: the caller returns the error.
Fails(p) == /\ pc[p] \notin {"idle", "session", "review"}
            /\ Troubles /\ Leave(p) /\ UNCHANGED repo

\* requireCleanTree calls Status.  Its first two commands, for the branch and for
\* IsClean, tell it nothing that it uses.
Begin(p) == At(p, "idle") /\ Goto(p, "staged") /\ Know(p, NewRun(clock)) /\ UNCHANGED <<repo, trouble>>

\* One listing of Status, and what RealWorkStatus makes of it.
List(p, l, files, next) ==
  /\ At(p, l) /\ Goto(p, next)
  /\ Know(p, [run[p] EXCEPT !.dirty = @ \/ files \ StateFiles # {}])
  /\ UNCHANGED <<repo, trouble>>

ListStaged(p)    == List(p, "staged", Staged, "unstaged")
ListUnstaged(p)  == List(p, "unstaged", Unstaged, "untracked")
ListUntracked(p) == List(p, "untracked", Untracked, "conflicts")

\* The last command, then the verdict: the task is refused or goes to Claude.
CheckConflicts(p) ==
  /\ At(p, "conflicts")
  /\ IF run[p].dirty \/ Conflicts
     THEN Leave(p)
     ELSE Goto(p, "session") /\ Know(p, [run[p] EXCEPT !.sure = ~run[p].meddled, !.meddled = FALSE])
  /\ UNCHANGED <<repo, trouble>>

\* The session, and what precedes the diff, write files ...
Write(f) == /\ clock < MaxWrites
            /\ work' = [work EXCEPT ![f] = clock + 1] /\ clock' = clock + 1
            /\ UNCHANGED <<index, unmerged, head, unborn>>

\* ... and may stage them.
Add(files) == /\ index' = [f \in Files |-> IF f \in files THEN work[f] ELSE index[f]]
              /\ unmerged' = unmerged \ files
              /\ UNCHANGED <<work, head, unborn, clock>>

SessionWrites(p, f) == At(p, "session") /\ Write(f) /\ UNCHANGED <<pc, run, trouble>>
SessionStages(p, f) == At(p, "session") /\ Add({f}) /\ UNCHANGED <<pc, trouble>> /\ Meddles(p)

\* The task fails, or its change goes to the reviewer, or to the commit if there is none.
SessionEnds(p) ==
  /\ At(p, "session")
  /\ \/ Leave(p)
     \/ Goto(p, "diff") /\ UNCHANGED run
     \/ Goto(p, "status") /\ Know(p, [run[p] EXCEPT !.whole = FALSE])
  /\ UNCHANGED <<repo, trouble>>

\* Diff, first command.  Without a commit there is no HEAD and git diff HEAD fails.
DiffTracked(p) ==
  /\ At(p, "diff")
  /\ \/ unborn /\ Leave(p)
     \/ /\ ~unborn /\ Goto(p, "others")
        /\ Know(p, [run[p] EXCEPT !.shown = [f \in Files |-> IF f \in Changed THEN work[f] ELSE 0],
                                  !.shownAt = clock])
  /\ UNCHANGED <<repo, trouble>>

\* Second command: the untracked files, which are then read one by one.
DiffOthers(p) == /\ At(p, "others") /\ Goto(p, "rendering")
                 /\ Know(p, [run[p] EXCEPT !.todo = Untracked])
                 /\ UNCHANGED <<repo, trouble>>

Shown(p) == {f \in Files : run[p].shown[f] # 0}
Full(p)  == Cardinality(Shown(p)) > MaxShown

\* diffNoIndex: a file for which it fails is left out without a word.
DiffFile(p, f) ==
  /\ At(p, "rendering") /\ f \in run[p].todo /\ ~Full(p)
  /\ \/ Know(p, [run[p] EXCEPT !.todo = @ \ {f}, !.shown[f] = work[f]]) /\ UNCHANGED trouble
     \/ Know(p, [run[p] EXCEPT !.todo = @ \ {f}, !.whole = FALSE]) /\ Troubles
  /\ UNCHANGED <<repo, pc>>

\* The end of Diff: what does not fit is cut off.
DiffEnds(p) ==
  /\ At(p, "rendering") /\ (run[p].todo = {} \/ Full(p))
  /\ Goto(p, "review")
  /\ Know(p, [run[p] EXCEPT !.todo = {}, !.whole = @ /\ ~Full(p)])
  /\ UNCHANGED <<repo, trouble>>

\* The reviewer approves, sends the change back to a session, or fails.
Review(p) ==
  /\ At(p, "review")
  /\ \/ Goto(p, "status") /\ UNCHANGED run
     \/ Goto(p, "session") /\ Know(p, [NewRun(run[p].since) EXCEPT !.sure = run[p].sure])
     \/ Leave(p)
  /\ UNCHANGED <<repo, trouble>>

\* commit: Status again, of which only IsClean counts now ...
Inspect(p) == /\ At(p, "status")
              /\ IF IsClean THEN Leave(p) ELSE Goto(p, "stage") /\ UNCHANGED run
              /\ UNCHANGED <<repo, trouble>>

\* ... Stage, with the path "." ...
Stage(p) == At(p, "stage") /\ Goto(p, "commit") /\ Add(Files) /\ Meddles(p) /\ UNCHANGED trouble

\* ... and Commit, which git refuses with nothing staged or a path in conflict.
Commit(p) ==
  /\ At(p, "commit")
  /\ \/ /\ unmerged = {} /\ index # head /\ Goto(p, "idle")
        /\ head' = index /\ unborn' = FALSE
        /\ Meddles(p) /\ UNCHANGED <<work, index, unmerged, clock>>
     \/ (unmerged # {} \/ index = head) /\ Leave(p) /\ UNCHANGED repo
  /\ UNCHANGED trouble
-----------------------------------------------------------------------------
\* A person saves a file, or runs git add, commit, restore or merge.
PersonEdits(f) == Write(f) /\ UNCHANGED <<pc, run, trouble>>

PersonGit == Troubles /\ UNCHANGED pc /\ Meddles(Person)

PersonStages(f) == PersonGit /\ Add({f})

PersonCommits == /\ PersonGit /\ unmerged = {} /\ index # head
                 /\ head' = index /\ unborn' = FALSE
                 /\ UNCHANGED <<work, index, unmerged, clock>>

PersonRestores(f) == /\ PersonGit /\ head[f] # 0
                     /\ work' = [work EXCEPT ![f] = head[f]] /\ index' = [index EXCEPT ![f] = head[f]]
                     /\ unmerged' = unmerged \ {f}
                     /\ UNCHANGED <<head, unborn, clock>>

\* The merge writes the file, with markers in it.
PersonMerges(f) == /\ PersonGit /\ head[f] # 0 /\ index = head /\ work[f] = head[f] /\ clock < MaxWrites
                   /\ work' = [work EXCEPT ![f] = clock + 1] /\ clock' = clock + 1
                   /\ unmerged' = unmerged \cup {f}
                   /\ UNCHANGED <<index, head, unborn>>

Check(p)   == Begin(p) \/ ListStaged(p) \/ ListUnstaged(p) \/ ListUntracked(p) \/ CheckConflicts(p)
Session(p) == SessionEnds(p) \/ \E f \in Files : SessionWrites(p, f) \/ SessionStages(p, f)
Read(p)    == DiffTracked(p) \/ DiffOthers(p) \/ DiffEnds(p) \/ \E f \in Files : DiffFile(p, f)
Record(p)  == Review(p) \/ Inspect(p) \/ Stage(p) \/ Commit(p)
People     == \/ PersonCommits
              \/ \E f \in Files : PersonEdits(f) \/ PersonStages(f) \/ PersonRestores(f) \/ PersonMerges(f)

Next == People \/ \E p \in Callers : Check(p) \/ Session(p) \/ Read(p) \/ Record(p) \/ Fails(p)
Spec == Init /\ [][Next]_vars
-----------------------------------------------------------------------------
\* In this step the run of p makes a commit, and these are the files it changes.
Lands(p) == At(p, "commit") /\ pc'[p] = "idle" /\ head' # head
Touched == {f \in Files : head'[f] # head[f]}

\* Rule 2 of the README at the level of git's commands: all that a run commits outside
\* .ai/ was written after its clean check began, however the listings of the check
\* fall between the edits of people and of another run.  (Where somebody ran git in
\* the middle of the check, the listings may miss a change that moved.)
SweepsOnlyLater ==
  [][\A p \in Callers : Lands(p) /\ run[p].sure =>
       \A f \in Touched \ StateFiles : head'[f] > run[p].since]_vars

\* The reviewer has seen what is committed, staged or not, new or changed: all but
\* what was written after the diff was begun.  (Where a file was left out of the
\* diff, or others ran git since, that is not so.)
ReviewedIsCommitted ==
  [][\A p \in Callers : Lands(p) /\ run[p].whole /\ ~run[p].meddled =>
       \A f \in Touched : head'[f] = run[p].shown[f] \/ head'[f] > run[p].shownAt]_vars
=============================================================================
