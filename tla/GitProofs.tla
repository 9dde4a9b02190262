----------------------------- MODULE GitProofs -----------------------------
(***************************************************************************)
(* What a run commits is later than its clean check, and what its reviewer *)
(* approved is what it commits: for any number of files, callers, edits    *)
(* and git commands of people, wherever they fall between the commands.    *)
(***************************************************************************)
EXTENDS Git, TLAPS

Labels == {"idle", "staged", "unstaged", "untracked", "conflicts", "session", "diff", "others",
           "rendering", "review", "status", "stage", "commit"}

Runs == [since : Nat, dirty : BOOLEAN, sure : BOOLEAN, meddled : BOOLEAN, shown : [Files -> Nat],
         shownAt : Nat, todo : SUBSET Files, whole : BOOLEAN]

\* Versions are natural numbers, and a run knows what a run may know.
RepoOK ==
  /\ work \in [Files -> Nat] /\ index \in [Files -> Nat] /\ head \in [Files -> Nat]
  /\ unmerged \subseteq Files /\ clock \in Nat
PlacesOK == pc \in [Callers -> Labels]
RunsOK   == run \in [Callers -> Runs]
TypeOK   == RepoOK /\ PlacesOK /\ RunsOK

\* What a run remembers of the time is not ahead of it.
ClockedFor(p) == run[p].since <= clock /\ run[p].shownAt <= clock
Clocked == \A p \in Callers : ClockedFor(p)

\* What each listing of the check has established of a file, if it found nothing and
\* nobody ran git since the check began.
ListedStaged(p, f)    == index[f] = head[f] /\ f \notin unmerged
ListedUnstaged(p, f)  == index[f] = 0 \/ work[f] = index[f] \/ work[f] > run[p].since
ListedUntracked(p, f) == index[f] = 0 => work[f] = 0 \/ work[f] > run[p].since

ListedFor(p) ==
  ~run[p].dirty /\ ~run[p].meddled =>
    \A f \in Files \ StateFiles :
      /\ pc[p] \in {"unstaged", "untracked", "conflicts"} => ListedStaged(p, f)
      /\ pc[p] \in {"untracked", "conflicts"} => ListedUnstaged(p, f)
      /\ pc[p] = "conflicts" => ListedUntracked(p, f)
Listed == \A p \in Callers : ListedFor(p)

\* Past a check that nobody disturbed, whatever is staged or changed is later than its
\* beginning.
LaterFor(p) ==
  run[p].sure =>
    \A f \in Files \ StateFiles :
      /\ index[f] = head[f] \/ index[f] > run[p].since
      /\ work[f] = index[f] \/ work[f] > run[p].since
Later == \A p \in Callers : LaterFor(p)

\* The reviewer need not see the file, has seen it, or it is later than the diff.
Covered(p, f, version) ==
  version = head[f] \/ version = run[p].shown[f] \/ version > run[p].shownAt

\* How far the diff covers the tree, and in the end the index.
DisplayedFor(p) ==
  run[p].whole /\ ~run[p].meddled =>
    \A f \in Files :
      /\ pc[p] = "others" => f \notin Tracked \/ Covered(p, f, work[f])
      /\ pc[p] = "rendering" => f \in run[p].todo \/ Covered(p, f, work[f])
      /\ pc[p] \in {"review", "status", "stage"} => Covered(p, f, work[f])
      /\ pc[p] = "commit" => Covered(p, f, index[f])
Displayed == \A p \in Callers : DisplayedFor(p)

IInv == TypeOK /\ Clocked /\ Listed /\ Later /\ Displayed
-----------------------------------------------------------------------------
\* A command of p, and a step of somebody else, which p may or may not learn of.
Command(p) == Check(p) \/ Session(p) \/ Read(p) \/ Record(p) \/ Fails(p)

Meddled(p) == [run[p] EXCEPT !.meddled = @ \/ pc[p] \notin {"session", "diff"}]

Quiet(p) == /\ run'[p] = run[p] /\ UNCHANGED <<index, unmerged, head>>
            /\ \A f \in Files : work'[f] \in {work[f], clock + 1}

Waits(p) ==
  /\ pc'[p] = pc[p]
  /\ \/ Quiet(p)
     \/ run'[p] = Meddled(p)
     \/ pc[p] = "idle" /\ run'[p] = NewRun(0)

\* What a step may do to a file.
FileStays(f)     == work'[f] = work[f] /\ index'[f] = index[f] /\ head'[f] = head[f]
FileWritten(f)   == work'[f] > clock /\ index'[f] = index[f] /\ head'[f] = head[f]
FileStaged(f)    == work'[f] = work[f] /\ index'[f] = work[f] /\ head'[f] = head[f]
FileCommitted(f) == work'[f] = work[f] /\ index'[f] = index[f] /\ head'[f] = index[f]
FileRestored(f)  == work'[f] = head[f] /\ index'[f] = head[f] /\ head'[f] = head[f]
-----------------------------------------------------------------------------
\* Updating the fields of a run gives a run.
LEMMA UpdatedRun ==
  ASSUME NEW r \in Runs
  PROVE  /\ \A b \in BOOLEAN :
              /\ [r EXCEPT !.dirty = b] \in Runs /\ [r EXCEPT !.meddled = b] \in Runs
              /\ [r EXCEPT !.whole = b] \in Runs /\ [r EXCEPT !.sure = b] \in Runs
              /\ [r EXCEPT !.sure = b, !.meddled = FALSE] \in Runs
         /\ \A s \in [Files -> Nat], n \in Nat : [r EXCEPT !.shown = s, !.shownAt = n] \in Runs
         /\ \A todo \in SUBSET Files :
              /\ [r EXCEPT !.todo = todo] \in Runs
              /\ \A s \in [Files -> Nat] : [r EXCEPT !.todo = todo, !.shown = s] \in Runs
              /\ \A b \in BOOLEAN : [r EXCEPT !.todo = todo, !.whole = b] \in Runs
<1>1. ASSUME NEW b \in BOOLEAN
      PROVE  /\ [r EXCEPT !.dirty = b] \in Runs /\ [r EXCEPT !.meddled = b] \in Runs
             /\ [r EXCEPT !.whole = b] \in Runs /\ [r EXCEPT !.sure = b] \in Runs
             /\ [r EXCEPT !.sure = b, !.meddled = FALSE] \in Runs
  BY DEF Runs
<1>2. ASSUME NEW s \in [Files -> Nat], NEW n \in Nat
      PROVE  [r EXCEPT !.shown = s, !.shownAt = n] \in Runs
  BY DEF Runs
<1>3. ASSUME NEW todo \in SUBSET Files, NEW s \in [Files -> Nat]
      PROVE  [r EXCEPT !.todo = todo] \in Runs /\ [r EXCEPT !.todo = todo, !.shown = s] \in Runs
  BY DEF Runs
<1>4. ASSUME NEW todo \in SUBSET Files, NEW b \in BOOLEAN
      PROVE  [r EXCEPT !.todo = todo] \in Runs /\ [r EXCEPT !.todo = todo, !.whole = b] \in Runs
  BY DEF Runs
<1> QED
  BY <1>1, <1>2, <1>3, <1>4

\* So does starting anew.
LEMMA FreshRun == ASSUME NEW n \in Nat PROVE NewRun(n) \in Runs
BY DEF Runs, NewRun, Nothing

\* Other people's git commands only tell a run that there were some.
LEMMA MeddledRuns ==
  ASSUME RunsOK, NEW w, Meddles(w)
  PROVE  RunsOK'
<1>1. ASSUME NEW q \in Callers
      PROVE  [run[q] EXCEPT !.meddled = @ \/ (q # w /\ pc[q] \notin {"session", "diff"})] \in Runs
  <2> DEFINE b == run[q].meddled \/ (q # w /\ pc[q] \notin {"session", "diff"})
  <2>1. b \in BOOLEAN
    BY DEF Runs, RunsOK
  <2> HIDE DEF b
  <2>2. [run[q] EXCEPT !.meddled = b] \in Runs
    BY <2>1, UpdatedRun DEF RunsOK
  <2> QED
    BY <2>2 DEF b
<1> QED
  BY <1>1, FreshRun DEF Meddles, RunsOK

\* What a caller knows after each command.
LEMMA KnownRun ==
  ASSUME RepoOK, RunsOK, NEW p \in Callers
  PROVE  /\ \A files : [run[p] EXCEPT !.dirty = @ \/ files \ StateFiles # {}] \in Runs
         /\ [run[p] EXCEPT !.sure = ~run[p].meddled, !.meddled = FALSE] \in Runs
         /\ [run[p] EXCEPT !.whole = FALSE] \in Runs
         /\ [run[p] EXCEPT !.shown = [f \in Files |-> IF f \in Changed THEN work[f] ELSE 0],
                           !.shownAt = clock] \in Runs
         /\ [run[p] EXCEPT !.todo = Untracked] \in Runs
         /\ \A f \in Files : /\ [run[p] EXCEPT !.todo = @ \ {f}, !.shown[f] = work[f]] \in Runs
                             /\ [run[p] EXCEPT !.todo = @ \ {f}, !.whole = FALSE] \in Runs
         /\ [run[p] EXCEPT !.todo = {}, !.whole = @ /\ ~Full(p)] \in Runs
         /\ [NewRun(run[p].since) EXCEPT !.sure = run[p].sure] \in Runs
<1>0. /\ run[p] \in Runs /\ run[p].since \in Nat /\ run[p].shown \in [Files -> Nat]
      /\ run[p].todo \in SUBSET Files
      /\ {run[p].meddled, run[p].whole, run[p].sure} \subseteq BOOLEAN
  BY DEF RepoOK, RunsOK, Runs
<1>1. ASSUME NEW files PROVE [run[p] EXCEPT !.dirty = @ \/ files \ StateFiles # {}] \in Runs
  <2> DEFINE b == run[p].dirty \/ files \ StateFiles # {}
  <2>1. b \in BOOLEAN
    BY <1>0 DEF Runs
  <2> HIDE DEF b
  <2>2. [run[p] EXCEPT !.dirty = b] \in Runs
    BY <1>0, <2>1, UpdatedRun
  <2> QED
    BY <2>2 DEF b
<1>2. [run[p] EXCEPT !.sure = ~run[p].meddled, !.meddled = FALSE] \in Runs
  <2> DEFINE b == ~run[p].meddled
  <2>1. b \in BOOLEAN
    OBVIOUS
  <2> HIDE DEF b
  <2>2. [run[p] EXCEPT !.sure = b, !.meddled = FALSE] \in Runs
    BY <1>0, <2>1, UpdatedRun
  <2> QED
    BY <2>2 DEF b
<1>3. [run[p] EXCEPT !.whole = FALSE] \in Runs
  BY <1>0, UpdatedRun
<1>4. [run[p] EXCEPT !.shown = [f \in Files |-> IF f \in Changed THEN work[f] ELSE 0],
                     !.shownAt = clock] \in Runs
  <2>1. [f \in Files |-> IF f \in Changed THEN work[f] ELSE 0] \in [Files -> Nat]
    BY DEF RepoOK
  <2> QED
    BY <1>0, <2>1, UpdatedRun DEF RepoOK
<1>5. [run[p] EXCEPT !.todo = Untracked] \in Runs
  BY <1>0, UpdatedRun DEF Untracked
<1>6. ASSUME NEW f \in Files
      PROVE  /\ [run[p] EXCEPT !.todo = @ \ {f}, !.shown[f] = work[f]] \in Runs
             /\ [run[p] EXCEPT !.todo = @ \ {f}, !.whole = FALSE] \in Runs
  <2>1. [run[p].shown EXCEPT ![f] = work[f]] \in [Files -> Nat] /\ run[p].todo \ {f} \in SUBSET Files
    BY <1>0 DEF RepoOK
  <2>2. [run[p] EXCEPT !.todo = run[p].todo \ {f},
                    !.shown = [run[p].shown EXCEPT ![f] = work[f]]] \in Runs
    BY <1>0, <2>1, UpdatedRun
  <2>3. [run[p] EXCEPT !.todo = run[p].todo \ {f}, !.whole = FALSE] \in Runs
    BY <1>0, <2>1, UpdatedRun
  <2> QED
    BY <2>2, <2>3
<1>7. [run[p] EXCEPT !.todo = {}, !.whole = @ /\ ~Full(p)] \in Runs
  <2> DEFINE b == run[p].whole /\ ~Full(p)
  <2>1. b \in BOOLEAN
    OBVIOUS
  <2> HIDE DEF b
  <2>2. [run[p] EXCEPT !.todo = {}, !.whole = b] \in Runs
    BY <1>0, <2>1, UpdatedRun
  <2> QED
    BY <2>2 DEF b
<1>8. [NewRun(run[p].since) EXCEPT !.sure = run[p].sure] \in Runs
  BY <1>0, FreshRun, UpdatedRun
<1> QED
  BY <1>1, <1>2, <1>3, <1>4, <1>5, <1>6, <1>7, <1>8

\* The repository, the places of the callers and what they know keep their types.
LEMMA RepoStep ==
  ASSUME RepoOK, [Next]_vars
  PROVE  RepoOK'
<1> USE GitAssumption DEF RepoOK, repo, Leave
<1>1. ASSUME NEW p \in Callers, Command(p) PROVE RepoOK'
  <2>1. CASE Check(p)
    BY <2>1 DEF Check, Begin, List, ListStaged, ListUnstaged, ListUntracked, CheckConflicts
  <2>2. CASE Session(p)
    BY <2>2 DEF Session, SessionEnds, SessionWrites, SessionStages, Write, Add, Meddles
  <2>3. CASE Read(p)
    BY <2>3 DEF Read, DiffTracked, DiffOthers, DiffFile, DiffEnds
  <2>4. CASE Record(p)
    BY <2>4 DEF Record, Review, Inspect, Stage, Commit, Add, Meddles
  <2>5. CASE Fails(p)
    BY <2>5 DEF Fails
  <2> QED
    BY <1>1, <2>1, <2>2, <2>3, <2>4, <2>5 DEF Command
<1>2. CASE People
  BY <1>2 DEF People, PersonGit, PersonEdits, PersonStages, PersonCommits, PersonRestores,
      PersonMerges,
      Write, Add, Meddles
<1>3. CASE UNCHANGED vars
  BY <1>3 DEF vars
<1> QED
  BY <1>1, <1>2, <1>3 DEF Next, Command

LEMMA PlacesStep ==
  ASSUME PlacesOK, [Next]_vars
  PROVE  PlacesOK'
<1> USE GitAssumption DEF PlacesOK, Labels, At, Goto, Leave, repo
<1>1. ASSUME NEW p \in Callers, Command(p) PROVE PlacesOK'
  <2>1. CASE Check(p)
    BY <2>1 DEF Check, Begin, List, ListStaged, ListUnstaged, ListUntracked, CheckConflicts
  <2>2. CASE Session(p)
    BY <2>2 DEF Session, SessionEnds, SessionWrites, SessionStages, Write, Add, Meddles
  <2>3. CASE Read(p)
    BY <2>3 DEF Read, DiffTracked, DiffOthers, DiffFile, DiffEnds
  <2>4. CASE Record(p)
    BY <2>4 DEF Record, Review, Inspect, Stage, Commit, Add, Meddles
  <2>5. CASE Fails(p)
    BY <2>5 DEF Fails
  <2> QED
    BY <1>1, <2>1, <2>2, <2>3, <2>4, <2>5 DEF Command
<1>2. CASE People
  BY <1>2 DEF People, PersonGit, PersonEdits, PersonStages, PersonCommits, PersonRestores,
      PersonMerges,
      Write, Add, Meddles
<1>3. CASE UNCHANGED vars
  BY <1>3 DEF vars
<1> QED
  BY <1>1, <1>2, <1>3 DEF Next, Command

LEMMA RunsStep ==
  ASSUME RepoOK, RunsOK, [Next]_vars
  PROVE  RunsOK'
<1> USE GitAssumption DEF RunsOK, At, Know, Leave
<1>1. ASSUME NEW p \in Callers, Check(p) \/ Session(p) \/ Read(p) \/ Record(p) \/ Fails(p)
      PROVE  RunsOK'
  <2>1. CASE Begin(p)
    BY <2>1, KnownRun, FreshRun DEF Begin, RepoOK
  <2>2. CASE ListStaged(p)
    BY <2>2, KnownRun, FreshRun DEF ListStaged, List
  <2>3. CASE ListUnstaged(p)
    BY <2>3, KnownRun, FreshRun DEF ListUnstaged, List
  <2>4. CASE ListUntracked(p)
    BY <2>4, KnownRun, FreshRun DEF ListUntracked, List
  <2>5. CASE CheckConflicts(p)
    <3>1. \/ run' = [run EXCEPT ![p] = NewRun(0)]
          \/ run' = [run EXCEPT ![p] = [run[p] EXCEPT !.sure = ~run[p].meddled, !.meddled = FALSE]]
      BY <2>5 DEF CheckConflicts
    <3> QED
      BY <3>1, KnownRun, FreshRun
  <2>6. CASE SessionEnds(p)
    BY <2>6, KnownRun, FreshRun DEF SessionEnds
  <2>7. CASE \E f \in Files : SessionWrites(p, f)
    BY <2>7 DEF SessionWrites, Write
  <2>8. CASE \E f \in Files : SessionStages(p, f)
    BY <2>8, MeddledRuns, FreshRun DEF SessionStages
  <2>9. CASE DiffTracked(p)
    BY <2>9, KnownRun, FreshRun DEF DiffTracked
  <2>10. CASE DiffOthers(p)
    BY <2>10, KnownRun, FreshRun DEF DiffOthers
  <2>11. CASE DiffEnds(p)
    BY <2>11, KnownRun, FreshRun DEF DiffEnds
  <2>12. CASE \E f \in Files : DiffFile(p, f)
    <3>1. PICK f \in Files : DiffFile(p, f)
      BY <2>12
    <3>2. \/ run' = [run EXCEPT ![p] = [run[p] EXCEPT !.todo = @ \ {f}, !.shown[f] = work[f]]]
          \/ run' = [run EXCEPT ![p] = [run[p] EXCEPT !.todo = @ \ {f}, !.whole = FALSE]]
      BY <3>1 DEF DiffFile
    <3>3. /\ [run[p] EXCEPT !.todo = @ \ {f}, !.shown[f] = work[f]] \in Runs
          /\ [run[p] EXCEPT !.todo = @ \ {f}, !.whole = FALSE] \in Runs
      BY KnownRun, Zenon
    <3>4. CASE run' = [run EXCEPT ![p] = [run[p] EXCEPT !.todo = @ \ {f}, !.shown[f] = work[f]]]
      BY <3>3, <3>4
    <3> QED
      BY <3>2, <3>3, <3>4
  <2>13. CASE Review(p)
    BY <2>13, KnownRun, FreshRun DEF Review
  <2>14. CASE Inspect(p)
    <3>1. run' = run \/ run' = [run EXCEPT ![p] = NewRun(0)]
      BY <2>14 DEF Inspect
    <3> QED
      BY <3>1, FreshRun
  <2>15. CASE Stage(p)
    BY <2>15, MeddledRuns, FreshRun DEF Stage
  <2>16. CASE Commit(p)
    BY <2>16, MeddledRuns, FreshRun DEF Commit
  <2>17. CASE Fails(p)
    BY <2>17, KnownRun, FreshRun DEF Fails
  <2> QED
    BY <1>1, <2>1, <2>2, <2>3, <2>4, <2>5, <2>6, <2>7, <2>8, <2>9, <2>10, <2>11, <2>12,
        <2>13, <2>14, <2>15, <2>16, <2>17
    DEF Check, Session, Read, Record
<1>2. CASE People
  <2>1. CASE PersonCommits
    BY <2>1, MeddledRuns, FreshRun DEF PersonCommits, PersonGit
  <2>2. CASE \E f \in Files : PersonEdits(f)
    BY <2>2 DEF PersonEdits, Write
  <2>3. CASE \E f \in Files : PersonStages(f)
    BY <2>3, MeddledRuns, FreshRun DEF PersonStages, PersonGit
  <2>4. CASE \E f \in Files : PersonRestores(f)
    BY <2>4, MeddledRuns, FreshRun DEF PersonRestores, PersonGit
  <2>5. CASE \E f \in Files : PersonMerges(f)
    BY <2>5, MeddledRuns, FreshRun DEF PersonMerges, PersonGit
  <2> QED
    BY <1>2, <2>1, <2>2, <2>3, <2>4, <2>5 DEF People
<1>3. CASE UNCHANGED vars
  BY <1>3 DEF vars
<1> QED
  BY <1>1, <1>2, <1>3 DEF Next

\* A step leaves a file alone, writes it, stages it, commits it or restores it.
LEMMA FileMoves ==
  ASSUME RepoOK, NEW g \in Files, [Next]_vars
  PROVE  \/ FileStays(g) \/ FileWritten(g) \/ FileStaged(g)
         \/ FileCommitted(g) \/ FileRestored(g)
<1> USE GitAssumption DEF FileStays, FileWritten, FileStaged, FileCommitted, FileRestored,
    RepoOK, repo
<1>1. ASSUME NEW p \in Callers, Command(p) PROVE \/ FileStays(g) \/ FileWritten(g) \/ FileStaged(g)
         \/ FileCommitted(g) \/ FileRestored(g)
  <2>1. CASE Check(p)
    BY <2>1 DEF Check, Begin, List, ListStaged, ListUnstaged, ListUntracked, CheckConflicts
  <2>2. CASE Session(p)
    BY <2>2 DEF Session, SessionEnds, SessionWrites, SessionStages, Write, Add, Meddles
  <2>3. CASE Read(p)
    BY <2>3 DEF Read, DiffTracked, DiffOthers, DiffFile, DiffEnds
  <2>4. CASE Record(p)
    BY <2>4 DEF Record, Review, Inspect, Stage, Commit, Add, Meddles
  <2>5. CASE Fails(p)
    BY <2>5 DEF Fails
  <2> QED
    BY <1>1, <2>1, <2>2, <2>3, <2>4, <2>5 DEF Command
<1>2. CASE People
  BY <1>2 DEF People, PersonGit, PersonEdits, PersonStages, PersonCommits, PersonRestores,
      PersonMerges,
      Write, Add, Meddles
<1>3. CASE UNCHANGED vars
  BY <1>3 DEF vars
<1> QED
  BY <1>1, <1>2, <1>3 DEF Next, Command

\* Time does not run backwards.
LEMMA ClockMoves ==
  ASSUME RepoOK, [Next]_vars
  PROVE  clock' = clock \/ clock' = clock + 1
<1> USE GitAssumption DEF RepoOK, repo, Leave
<1>1. ASSUME NEW p \in Callers, Command(p) PROVE clock' = clock \/ clock' = clock + 1
  <2>1. CASE Check(p)
    BY <2>1 DEF Check, Begin, List, ListStaged, ListUnstaged, ListUntracked, CheckConflicts
  <2>2. CASE Session(p)
    BY <2>2 DEF Session, SessionEnds, SessionWrites, SessionStages, Write, Add, Meddles
  <2>3. CASE Read(p)
    BY <2>3 DEF Read, DiffTracked, DiffOthers, DiffFile, DiffEnds
  <2>4. CASE Record(p)
    BY <2>4 DEF Record, Review, Inspect, Stage, Commit, Add, Meddles
  <2>5. CASE Fails(p)
    BY <2>5 DEF Fails
  <2> QED
    BY <1>1, <2>1, <2>2, <2>3, <2>4, <2>5 DEF Command
<1>2. CASE People
  BY <1>2 DEF People, PersonGit, PersonEdits, PersonStages, PersonCommits, PersonRestores,
      PersonMerges,
      Write, Add, Meddles
<1>3. CASE UNCHANGED vars
  BY <1>3 DEF vars
<1> QED
  BY <1>1, <1>2, <1>3 DEF Next, Command

\* What a caller does, the others wait through.
LEMMA Bystander ==
  ASSUME TypeOK, NEW p \in Callers, NEW q \in Callers, p # q, Command(p)
  PROVE  Waits(q)
<1> USE GitAssumption
    DEF Waits, Meddled, Quiet, TypeOK, RepoOK, PlacesOK, RunsOK, Runs, NewRun, At, Goto,
        Know, Leave, repo
<1>1. CASE Check(p)
  BY <1>1 DEF Check, Begin, List, ListStaged, ListUnstaged, ListUntracked, CheckConflicts
<1>2. CASE Session(p)
  BY <1>2 DEF Session, SessionEnds, SessionWrites, SessionStages, Write, Add, Meddles
<1>3. CASE Read(p)
  BY <1>3 DEF Read, DiffTracked, DiffOthers, DiffFile, DiffEnds
<1>4. CASE Record(p)
  BY <1>4 DEF Record, Review, Inspect, Stage, Commit, Add, Meddles
<1>5. CASE Fails(p)
  BY <1>5 DEF Fails
<1> QED
  BY <1>1, <1>2, <1>3, <1>4, <1>5 DEF Command

\* The fields of a run once it has left.
LEMMA Left ==
  ASSUME TypeOK, NEW p \in Callers, Leave(p)
  PROVE  /\ pc'[p] = "idle" /\ run'[p].since = 0 /\ run'[p].shownAt = 0
         /\ ~run'[p].sure
BY DEF TypeOK, PlacesOK, RunsOK, Leave, Goto, Know, NewRun

\* The check ends with a refusal, or with a run that is sure if nobody disturbed it.
LEMMA Checked ==
  ASSUME TypeOK, NEW p \in Callers, CheckConflicts(p), ~Leave(p)
  PROVE  /\ pc[p] = "conflicts" /\ pc'[p] = "session" /\ ~run[p].dirty /\ ~Conflicts
         /\ run'[p].since = run[p].since /\ run'[p].shownAt = run[p].shownAt
         /\ run'[p].sure => ~run[p].meddled
<1>1. /\ ~run[p].dirty /\ ~Conflicts /\ pc[p] = "conflicts" /\ pc'[p] = "session"
      /\ run'[p] = [run[p] EXCEPT !.sure = ~run[p].meddled, !.meddled = FALSE]
  BY DEF CheckConflicts, At, Goto, Know, TypeOK, PlacesOK, RunsOK
<1> DEFINE b == ~run[p].meddled
<1>2. run'[p] = [run[p] EXCEPT !.sure = b, !.meddled = FALSE]
  BY <1>1
<1> HIDE DEF b
<1>3. /\ run'[p].since = run[p].since /\ run'[p].shownAt = run[p].shownAt
      /\ run'[p].sure = b
  BY <1>2 DEF TypeOK, RunsOK, Runs
<1> QED
  BY <1>1, <1>3 DEF b

\* After a session without a diff the run is not whole.
LEMMA Worked ==
  ASSUME TypeOK, NEW p \in Callers, SessionEnds(p), ~Leave(p)
  PROVE  /\ pc'[p] \in {"diff", "status"} /\ run'[p].since = run[p].since
         /\ run'[p].shownAt = run[p].shownAt /\ run'[p].sure = run[p].sure
         /\ pc'[p] = "status" => ~run'[p].whole
BY DEF SessionEnds, At, Goto, Know, TypeOK, PlacesOK, RunsOK, Runs

\* The first half of the diff: the files git knows of.
LEMMA Diffed ==
  ASSUME TypeOK, NEW p \in Callers, DiffTracked(p), ~Leave(p)
  PROVE  /\ pc'[p] = "others" /\ run'[p].since = run[p].since /\ run'[p].sure = run[p].sure
         /\ run'[p].shownAt = clock
         /\ \A f \in Changed : run'[p].shown[f] = work[f]
<1> DEFINE s == [f \in Files |-> IF f \in Changed THEN work[f] ELSE 0]
<1>1. run'[p] = [run[p] EXCEPT !.shown = s, !.shownAt = clock] /\ pc'[p] = "others"
  BY DEF DiffTracked, Goto, Know, TypeOK, PlacesOK, RunsOK
<1> HIDE DEF s
<1>2. /\ run'[p].since = run[p].since /\ run'[p].sure = run[p].sure
      /\ run'[p].shownAt = clock /\ run'[p].shown = s
  BY <1>1 DEF TypeOK, RunsOK, Runs
<1>3. \A f \in Changed : s[f] = work[f]
  BY DEF s, Changed, Tracked, TypeOK, RepoOK
<1> QED
  BY <1>1, <1>2, <1>3

\* A file of the second half, which is shown or leaves the diff incomplete.
LEMMA Rendered ==
  ASSUME TypeOK, NEW p \in Callers, NEW f \in Files, DiffFile(p, f)
  PROVE  /\ pc'[p] = "rendering" /\ pc[p] = "rendering" /\ run'[p].since = run[p].since
         /\ run'[p].shownAt = run[p].shownAt /\ run'[p].sure = run[p].sure
         /\ run'[p].todo = run[p].todo \ {f} /\ run'[p].meddled = run[p].meddled
         /\ \/ run'[p].shown = [run[p].shown EXCEPT ![f] = work[f]] /\ run'[p].whole = run[p].whole
            \/ ~run'[p].whole
<1>1. pc'[p] = "rendering" /\ pc[p] = "rendering"
  BY DEF DiffFile, At, TypeOK, PlacesOK
<1> DEFINE s == [run[p].shown EXCEPT ![f] = work[f]]
           todo == run[p].todo \ {f}
<1>2. \/ run'[p] = [run[p] EXCEPT !.todo = todo, !.shown = s]
      \/ run'[p] = [run[p] EXCEPT !.todo = todo, !.whole = FALSE]
  BY DEF DiffFile, Know, TypeOK, RunsOK
<1> HIDE DEF s, todo
<1>3. run[p] \in Runs
  BY DEF TypeOK, RunsOK
<1>4. CASE run'[p] = [run[p] EXCEPT !.todo = todo, !.shown = s]
  <2>1. /\ run'[p].since = run[p].since /\ run'[p].shownAt = run[p].shownAt
        /\ run'[p].sure = run[p].sure /\ run'[p].todo = todo /\ run'[p].meddled = run[p].meddled
        /\ run'[p].shown = s /\ run'[p].whole = run[p].whole
    BY <1>3, <1>4 DEF Runs
  <2> QED
    BY <1>1, <2>1 DEF s, todo
<1>5. CASE run'[p] = [run[p] EXCEPT !.todo = todo, !.whole = FALSE]
  <2>1. /\ run'[p].since = run[p].since /\ run'[p].shownAt = run[p].shownAt
        /\ run'[p].sure = run[p].sure /\ run'[p].todo = todo /\ run'[p].meddled = run[p].meddled
        /\ ~run'[p].whole
    BY <1>3, <1>5 DEF Runs
  <2> QED
    BY <1>1, <2>1 DEF todo
<1> QED
  BY <1>2, <1>4, <1>5

\* A change sent back starts over, but for what the check has found.
LEMMA Reviewed ==
  ASSUME TypeOK, NEW p \in Callers, Review(p), ~Leave(p)
  PROVE  \/ pc'[p] = "status" /\ pc[p] = "review" /\ run'[p] = run[p]
         \/ /\ pc'[p] = "session" /\ run'[p].since = run[p].since
            /\ run'[p].shownAt = 0 /\ run'[p].sure = run[p].sure
<1>1. \/ pc'[p] = "status" /\ pc[p] = "review" /\ run'[p] = run[p]
      \/ pc'[p] = "session" /\ run'[p] = [NewRun(run[p].since) EXCEPT !.sure = run[p].sure]
  BY DEF Review, At, Goto, Know, TypeOK, PlacesOK, RunsOK
<1>2. ASSUME run'[p] = [NewRun(run[p].since) EXCEPT !.sure = run[p].sure]
      PROVE  run'[p].since = run[p].since /\ run'[p].shownAt = 0 /\ run'[p].sure = run[p].sure
  BY <1>2 DEF NewRun
<1> QED
  BY <1>1, <1>2
\* A caller's own commands keep what it knows true: the times ...
LEMMA ClockedCommand ==
  ASSUME TypeOK, NEW p \in Callers, ClockedFor(p), ClockedFor(p), Command(p)
  PROVE  ClockedFor(p)'
<1> USE GitAssumption DEF ClockedFor, TypeOK, RepoOK, PlacesOK, RunsOK, Runs, NewRun, At,
    Goto, Know, Leave, repo
<1>1. CASE Begin(p)
  BY <1>1 DEF Begin
<1>2. CASE ListStaged(p)
  BY <1>2 DEF ListStaged, List
<1>3. CASE ListUnstaged(p)
  BY <1>3 DEF ListUnstaged, List
<1>4. CASE ListUntracked(p)
  BY <1>4 DEF ListUntracked, List
<1>5. CASE CheckConflicts(p)
  <2>1. clock' = clock
    BY <1>5 DEF CheckConflicts
  <2>2. CASE Leave(p)
    BY <2>1, <2>2, Left
  <2>3. CASE ~Leave(p)
    BY <1>5, <2>1, <2>3, Checked
  <2> QED
    BY <2>2, <2>3
<1>6. CASE SessionEnds(p)
  BY <1>6, Left, Worked DEF SessionEnds
<1>7. CASE \E f \in Files : SessionWrites(p, f)
  BY <1>7 DEF SessionWrites, Write
<1>8. CASE \E f \in Files : SessionStages(p, f)
  BY <1>8 DEF SessionStages, Add, Meddles
<1>9. CASE DiffTracked(p)
  <2>1. clock' = clock
    BY <1>9 DEF DiffTracked
  <2>2. CASE Leave(p)
    BY <2>1, <2>2, Left
  <2>3. CASE ~Leave(p)
    BY <1>9, <2>1, <2>3, Diffed
  <2> QED
    BY <2>2, <2>3
<1>10. CASE DiffOthers(p)
  BY <1>10 DEF DiffOthers
<1>11. CASE DiffEnds(p)
  BY <1>11 DEF DiffEnds
<1>12. CASE \E f \in Files : DiffFile(p, f)
  <2>1. PICK f \in Files : DiffFile(p, f)
    BY <1>12
  <2> QED
    BY <2>1, Rendered DEF DiffFile
<1>13. CASE Review(p)
  BY <1>13, Left, Reviewed DEF Review
<1>14. CASE Inspect(p)
  BY <1>14 DEF Inspect
<1>15. CASE Stage(p)
  BY <1>15 DEF Stage, Add, Meddles
<1>16. CASE Commit(p)
  BY <1>16 DEF Commit, Meddles
<1>17. CASE Fails(p)
  BY <1>17 DEF Fails
<1> QED
  BY <1>1, <1>2, <1>3, <1>4, <1>5, <1>6, <1>7, <1>8, <1>9, <1>10, <1>11, <1>12, <1>13,
      <1>14, <1>15, <1>16, <1>17
  DEF Command, Check, Session, Read, Record

\* ... what the listings have established ...
LEMMA ListedCommand ==
  ASSUME TypeOK, NEW p \in Callers, ClockedFor(p), ListedFor(p), Command(p)
  PROVE  ListedFor(p)'
<1> USE GitAssumption DEF ClockedFor, ListedFor, ListedStaged, ListedUnstaged, ListedUntracked,
        Staged, Unstaged, Untracked, TypeOK, RepoOK, PlacesOK, RunsOK, Runs, NewRun, At,
            Goto, Know, Leave, repo
<1>1. CASE Begin(p)
  BY <1>1 DEF Begin
<1>2. CASE ListStaged(p)
  BY <1>2 DEF ListStaged, List
<1>3. CASE ListUnstaged(p)
  BY <1>3 DEF ListUnstaged, List
<1>4. CASE ListUntracked(p)
  BY <1>4 DEF ListUntracked, List
<1>5. CASE CheckConflicts(p)
  <2>1. CASE Leave(p)
    BY <2>1, Left
  <2>2. CASE ~Leave(p)
    BY <1>5, <2>2, Checked DEF CheckConflicts
  <2> QED
    BY <2>1, <2>2
<1>6. CASE SessionEnds(p)
  BY <1>6, Left, Worked DEF SessionEnds
<1>7. CASE \E f \in Files : SessionWrites(p, f)
  BY <1>7 DEF SessionWrites, Write
<1>8. CASE \E f \in Files : SessionStages(p, f)
  BY <1>8 DEF SessionStages, Add, Meddles
<1>9. CASE DiffTracked(p)
  <2>1. CASE Leave(p)
    BY <2>1, Left
  <2>2. CASE ~Leave(p)
    BY <1>9, <2>2, Diffed DEF DiffTracked
  <2> QED
    BY <2>1, <2>2
<1>10. CASE DiffOthers(p)
  BY <1>10 DEF DiffOthers
<1>11. CASE DiffEnds(p)
  BY <1>11 DEF DiffEnds
<1>12. CASE \E f \in Files : DiffFile(p, f)
  <2>1. PICK f \in Files : DiffFile(p, f)
    BY <1>12
  <2> QED
    BY <2>1, Rendered DEF DiffFile
<1>13. CASE Review(p)
  BY <1>13, Left, Reviewed DEF Review
<1>14. CASE Inspect(p)
  BY <1>14 DEF Inspect
<1>15. CASE Stage(p)
  BY <1>15 DEF Stage, Add, Meddles
<1>16. CASE Commit(p)
  BY <1>16 DEF Commit, Meddles
<1>17. CASE Fails(p)
  BY <1>17 DEF Fails
<1> QED
  BY <1>1, <1>2, <1>3, <1>4, <1>5, <1>6, <1>7, <1>8, <1>9, <1>10, <1>11, <1>12, <1>13,
      <1>14, <1>15, <1>16, <1>17
  DEF Command, Check, Session, Read, Record

\* ... what follows from a check that passed ...
LEMMA LaterCommand ==
  ASSUME TypeOK, NEW p \in Callers, ClockedFor(p), ListedFor(p), LaterFor(p), Command(p)
  PROVE  LaterFor(p)'
<1> USE GitAssumption DEF LaterFor, ClockedFor, ListedFor, ListedStaged, ListedUnstaged,
    ListedUntracked,
        Conflicts, TypeOK, RepoOK, PlacesOK, RunsOK, Runs, NewRun, At, Goto, Know, Leave, repo
<1>1. CASE Begin(p)
  BY <1>1 DEF Begin
<1>2. CASE ListStaged(p)
  BY <1>2 DEF ListStaged, List
<1>3. CASE ListUnstaged(p)
  BY <1>3 DEF ListUnstaged, List
<1>4. CASE ListUntracked(p)
  BY <1>4 DEF ListUntracked, List
<1>5. CASE CheckConflicts(p)
  <2>1. CASE Leave(p)
    BY <2>1, Left
  <2>2. CASE ~Leave(p)
    BY <1>5, <2>2, Checked DEF CheckConflicts
  <2> QED
    BY <2>1, <2>2
<1>6. CASE SessionEnds(p)
  BY <1>6, Left, Worked DEF SessionEnds
<1>7. CASE \E f \in Files : SessionWrites(p, f)
  BY <1>7 DEF SessionWrites, Write
<1>8. CASE \E f \in Files : SessionStages(p, f)
  BY <1>8 DEF SessionStages, Add, Meddles
<1>9. CASE DiffTracked(p)
  <2>1. CASE Leave(p)
    BY <2>1, Left
  <2>2. CASE ~Leave(p)
    BY <1>9, <2>2, Diffed DEF DiffTracked
  <2> QED
    BY <2>1, <2>2
<1>10. CASE DiffOthers(p)
  BY <1>10 DEF DiffOthers
<1>11. CASE DiffEnds(p)
  BY <1>11 DEF DiffEnds
<1>12. CASE \E f \in Files : DiffFile(p, f)
  <2>1. PICK f \in Files : DiffFile(p, f)
    BY <1>12
  <2> QED
    BY <2>1, Rendered DEF DiffFile
<1>13. CASE Review(p)
  BY <1>13, Left, Reviewed DEF Review
<1>14. CASE Inspect(p)
  BY <1>14 DEF Inspect
<1>15. CASE Stage(p)
  BY <1>15 DEF Stage, Add, Meddles
<1>16. CASE Commit(p)
  BY <1>16 DEF Commit, Meddles
<1>17. CASE Fails(p)
  BY <1>17 DEF Fails
<1> QED
  BY <1>1, <1>2, <1>3, <1>4, <1>5, <1>6, <1>7, <1>8, <1>9, <1>10, <1>11, <1>12, <1>13,
      <1>14, <1>15, <1>16, <1>17
  DEF Command, Check, Session, Read, Record

\* ... and how far the diff reaches.
LEMMA DisplayedCommand ==
  ASSUME TypeOK, NEW p \in Callers, ClockedFor(p), DisplayedFor(p), Command(p)
  PROVE  DisplayedFor(p)'
<1> USE GitAssumption DEF DisplayedFor, Covered, ClockedFor, Changed, Tracked, Untracked,
        TypeOK, RepoOK, PlacesOK, RunsOK, Runs, NewRun, At, Goto, Know, Leave, repo
<1>1. CASE Begin(p)
  BY <1>1 DEF Begin
<1>2. CASE ListStaged(p)
  BY <1>2 DEF ListStaged, List
<1>3. CASE ListUnstaged(p)
  BY <1>3 DEF ListUnstaged, List
<1>4. CASE ListUntracked(p)
  BY <1>4 DEF ListUntracked, List
<1>5. CASE CheckConflicts(p)
  <2>1. CASE Leave(p)
    BY <2>1, Left
  <2>2. CASE ~Leave(p)
    BY <1>5, <2>2, Checked DEF CheckConflicts
  <2> QED
    BY <2>1, <2>2
<1>6. CASE SessionEnds(p)
  BY <1>6, Left, Worked DEF SessionEnds
<1>7. CASE \E f \in Files : SessionWrites(p, f)
  BY <1>7 DEF SessionWrites, Write
<1>8. CASE \E f \in Files : SessionStages(p, f)
  BY <1>8 DEF SessionStages, Add, Meddles
<1>9. CASE DiffTracked(p)
  <2>1. CASE Leave(p)
    BY <2>1, Left
  <2>2. CASE ~Leave(p)
    <3>1. /\ UNCHANGED <<work, index, head, unmerged>> /\ pc'[p] = "others"
          /\ \A f \in Changed : run'[p].shown[f] = work[f]
      BY <1>9, <2>2, Diffed DEF DiffTracked
    <3>2. \A f \in Tracked : f \in Changed \/ work[f] = head[f]
      BY DEF Changed
    <3> QED
      BY <3>1, <3>2
  <2> QED
    BY <2>1, <2>2
<1>10. CASE DiffOthers(p)
  BY <1>10 DEF DiffOthers
<1>11. CASE DiffEnds(p)
  BY <1>11 DEF DiffEnds
<1>12. CASE \E f \in Files : DiffFile(p, f)
  <2>1. PICK f \in Files : DiffFile(p, f)
    BY <1>12
  <2>2. /\ UNCHANGED <<work, index, head>> /\ pc'[p] = "rendering" /\ pc[p] = "rendering"
        /\ run'[p].todo = run[p].todo \ {f} /\ run'[p].meddled = run[p].meddled
        /\ run'[p].shownAt = run[p].shownAt
    BY <2>1, Rendered DEF DiffFile
  <2>3. SUFFICES ASSUME run'[p].whole, ~run'[p].meddled, NEW g \in Files, g \notin run'[p].todo
                 PROVE  Covered(p, g, work[g])'
    BY <2>2
  <2>4. run'[p].shown = [run[p].shown EXCEPT ![f] = work[f]] /\ run[p].whole /\ ~run[p].meddled
    BY <2>1, <2>3, Rendered
  <2>5. CASE g = f
    BY <2>2, <2>4, <2>5
  <2>6. CASE g # f
    <3>1. run'[p].shown[g] = run[p].shown[g]
      BY <2>4, <2>6
    <3>2. Covered(p, g, work[g])
      BY <2>2, <2>3, <2>4, <2>6
    <3> QED
      BY <2>2, <3>1, <3>2
  <2> QED
    BY <2>5, <2>6
<1>13. CASE Review(p)
  BY <1>13, Left, Reviewed DEF Review
<1>14. CASE Inspect(p)
  BY <1>14 DEF Inspect
<1>15. CASE Stage(p)
  BY <1>15 DEF Stage, Add, Meddles
<1>16. CASE Commit(p)
  BY <1>16 DEF Commit, Meddles
<1>17. CASE Fails(p)
  BY <1>17 DEF Fails
<1> QED
  BY <1>1, <1>2, <1>3, <1>4, <1>5, <1>6, <1>7, <1>8, <1>9, <1>10, <1>11, <1>12, <1>13,
      <1>14, <1>15, <1>16, <1>17
  DEF Command, Check, Session, Read, Record

\* A step is a command of the caller's own, or one the caller waits through.
LEMMA CallerMoves ==
  ASSUME TypeOK, [Next]_vars, NEW q \in Callers
  PROVE  Command(q) \/ Waits(q)
<1>1. ASSUME NEW p \in Callers, Command(p) PROVE Command(q) \/ Waits(q)
  <2>1. CASE p = q
    BY <1>1, <2>1
  <2>2. CASE p # q
    BY <1>1, <2>2, Bystander
  <2> QED
    BY <2>1, <2>2
<1>2. CASE People
  <2> USE DEF TypeOK, PlacesOK, RunsOK, RepoOK
  <2>1. CASE PersonCommits \/ \E f \in Files : PersonStages(f) \/ PersonRestores(f) \/ PersonMerges(f)
    <3>1. PersonGit
      BY <2>1 DEF PersonCommits, PersonStages, PersonRestores, PersonMerges
    <3> QED
      BY <3>1, GitAssumption DEF PersonGit, Meddles, Waits, Meddled, Quiet
  <2>2. CASE \E f \in Files : PersonEdits(f)
    BY <2>2 DEF PersonEdits, Write, Waits, Quiet
  <2> QED
    BY <1>2, <2>1, <2>2 DEF People
<1>3. CASE UNCHANGED vars
  BY <1>3 DEF vars, repo, Waits, Quiet
<1> QED
  BY <1>1, <1>2, <1>3 DEF Next, Command

\* What a caller waits through leaves its knowledge true, or tells it that it is not.
LEMMA WaitingKeeps ==
  ASSUME IInv, TypeOK', [Next]_vars, NEW q \in Callers, Waits(q)
  PROVE  ClockedFor(q)' /\ ListedFor(q)' /\ LaterFor(q)' /\ DisplayedFor(q)'
<1>0. /\ run[q] \in Runs /\ clock \in Nat /\ clock' \in Nat /\ clock <= clock'
      /\ \A f \in Files : {work[f], index[f], head[f], work'[f], index'[f], head'[f]} \subseteq Nat
  BY ClockMoves DEF IInv, TypeOK, RepoOK, RunsOK
<1>1. \A f \in Files : FileStays(f) \/ FileWritten(f) \/ FileStaged(f) \/ FileCommitted(f) \/ FileRestored(f)
  BY FileMoves DEF IInv, TypeOK
<1>2. /\ ClockedFor(q) /\ ListedFor(q) /\ LaterFor(q) /\ DisplayedFor(q)
      /\ pc'[q] = pc[q]
  BY DEF IInv, Clocked, Listed, Later, Displayed, Waits
<1>3. CASE pc[q] = "idle" /\ run'[q] = NewRun(0)
  BY <1>0, <1>2, <1>3 DEF ClockedFor, ListedFor, LaterFor, DisplayedFor, NewRun
<1>4. CASE \/ Quiet(q)
          \/ run'[q] = Meddled(q)
  <2>1. /\ run'[q].since = run[q].since /\ run'[q].shownAt = run[q].shownAt
        /\ run'[q].sure = run[q].sure
        /\ run[q].since \in Nat /\ run[q].shownAt \in Nat
    BY <1>0, <1>4 DEF Meddled, Quiet, Runs
  <2>2. ClockedFor(q)'
    BY <1>0, <1>2, <2>1 DEF ClockedFor
  <2>3. LaterFor(q)'
    <3>1. SUFFICES ASSUME run[q].sure, NEW f \in Files \ StateFiles
                   PROVE  /\ index'[f] = head'[f] \/ index'[f] > run[q].since
                          /\ work'[f] = index'[f] \/ work'[f] > run[q].since
      BY <2>1 DEF LaterFor
    <3>2. /\ index[f] = head[f] \/ index[f] > run[q].since
          /\ work[f] = index[f] \/ work[f] > run[q].since
          /\ run[q].since <= clock
      BY <1>2, <3>1 DEF LaterFor, ClockedFor
    <3> QED
      BY <1>0, <1>1, <2>1, <3>2 DEF FileStays, FileWritten, FileStaged, FileCommitted, FileRestored
  <2>4. CASE run'[q].meddled
    BY <1>2, <2>2, <2>3, <2>4 DEF ListedFor, DisplayedFor
  <2>5. CASE run'[q] = Meddled(q) /\ ~run'[q].meddled
    <3>1. pc[q] \in {"session", "diff"}
      BY <1>0, <2>5 DEF Meddled, Runs
    <3> QED
      BY <1>2, <2>2, <2>3, <3>1 DEF ListedFor, DisplayedFor
  <2>6. CASE Quiet(q)
    <3>1. \A f \in Files : work'[f] = work[f] \/ work'[f] > clock
      BY <1>0, <2>6 DEF Quiet
    <3>2. ListedFor(q)'
      BY <1>0, <1>2, <2>1, <2>6, <3>1
      DEF Quiet, ListedFor, ListedStaged, ListedUnstaged, ListedUntracked, ClockedFor
    <3>3. Tracked' = Tracked
      BY <2>6 DEF Tracked, Quiet
    <3>4. \A f \in Files : Covered(q, f, work[f]) => Covered(q, f, work[f])'
      BY <1>0, <1>2, <2>1, <2>6, <3>1 DEF Covered, ClockedFor, Quiet
    <3>5. \A f \in Files : Covered(q, f, index[f]) => Covered(q, f, index[f])'
      BY <2>6 DEF Covered, Quiet
    <3>6. DisplayedFor(q)'
      BY <1>2, <2>6, <3>3, <3>4, <3>5 DEF DisplayedFor, Quiet
    <3> QED
      BY <2>2, <2>3, <3>2, <3>6
  <2> QED
    BY <1>4, <2>4, <2>5, <2>6
<1> QED
  BY <1>3, <1>4 DEF Waits

\* At first nobody knows anything.
LEMMA InitIInv == Init => IInv
<1> SUFFICES ASSUME Init PROVE IInv
  OBVIOUS
<1>1. TypeOK
  <2>1. RepoOK /\ PlacesOK
    BY DEF Init, RepoOK, PlacesOK, Labels
  <2>2. RunsOK
    BY FreshRun DEF Init, RunsOK
  <2> QED
    BY <2>1, <2>2 DEF TypeOK
<1>2. \A p \in Callers : pc[p] = "idle" /\ run[p] = NewRun(0)
  BY DEF Init
<1>3. \A p \in Callers : run[p].since = 0 /\ run[p].shownAt = 0 /\ ~run[p].sure
  BY <1>2 DEF NewRun
<1> QED
  BY <1>1, <1>2, <1>3
  DEF IInv, Clocked, ClockedFor, Listed, ListedFor, Later, LaterFor, Displayed,
      DisplayedFor, TypeOK, RepoOK

\* Every step, of a caller or of a person, keeps it so.
LEMMA NextIInv == IInv /\ [Next]_vars => IInv'
<1> SUFFICES ASSUME IInv, [Next]_vars PROVE IInv'
  OBVIOUS
<1>1. TypeOK'
  BY RepoStep, PlacesStep, RunsStep DEF IInv, TypeOK
<1>2. ASSUME NEW q \in Callers
      PROVE  ClockedFor(q)' /\ ListedFor(q)' /\ LaterFor(q)' /\ DisplayedFor(q)'
  <2>1. CASE Command(q)
    BY <2>1, ClockedCommand, ListedCommand, LaterCommand, DisplayedCommand
    DEF IInv, Clocked, Listed, Later, Displayed
  <2>2. CASE Waits(q)
    BY <1>1, <2>2, WaitingKeeps
  <2> QED
    BY <2>1, <2>2, CallerMoves DEF IInv
<1> QED
  BY <1>1, <1>2 DEF IInv, Clocked, Listed, Later, Displayed

\* Hence it holds throughout.
THEOREM Invariance == Spec => []IInv
BY InitIInv, NextIInv, PTL DEF Spec

\* A commit is of what is staged.
LEMMA LandsStaged ==
  ASSUME TypeOK, [Next]_vars, NEW p \in Callers, Lands(p)
  PROVE  head' = index
<1>1. pc[p] = "commit" /\ pc'[p] = "idle" /\ head' # head
  BY DEF Lands, At
<1>2. Command(p)
  BY <1>1, CallerMoves DEF Waits
<1> QED
  BY <1>1, <1>2
  DEF Command, Check, Session, Read, Record, Begin, List, ListStaged, ListUnstaged, ListUntracked,
      CheckConflicts, SessionEnds, SessionWrites, SessionStages, Write, Add, DiffTracked,
          DiffOthers, DiffFile,
      DiffEnds, Review, Inspect, Stage, Commit, Fails, repo, At

\* All that a run commits outside .ai/ was written after its clean check began.
THEOREM CommitsOnlyLater == Spec => SweepsOnlyLater
<1>1. IInv /\ [Next]_vars => [\A p \in Callers : Lands(p) /\ run[p].sure =>
        \A f \in Touched \ StateFiles : head'[f] > run[p].since]_vars
  <2> SUFFICES ASSUME IInv, [Next]_vars, NEW p \in Callers, Lands(p), run[p].sure,
                      NEW f \in Touched \ StateFiles
               PROVE  head'[f] > run[p].since
    OBVIOUS
  <2>1. head' = index
    BY LandsStaged DEF IInv
  <2>2. f \in Files \ StateFiles /\ head'[f] # head[f]
    BY DEF Touched
  <2> QED
    BY <2>1, <2>2 DEF IInv, Later, LaterFor
<1> QED
  BY <1>1, Invariance, PTL DEF Spec, SweepsOnlyLater

\* The reviewer has seen what is committed, but for what came after the diff.
THEOREM CommitsAreReviewed == Spec => ReviewedIsCommitted
<1>1. IInv /\ [Next]_vars => [\A p \in Callers : Lands(p) /\ run[p].whole /\ ~run[p].meddled =>
        \A f \in Touched : head'[f] = run[p].shown[f] \/ head'[f] > run[p].shownAt]_vars
  <2> SUFFICES ASSUME IInv, [Next]_vars, NEW p \in Callers, Lands(p), run[p].whole, ~run[p].meddled,
                      NEW f \in Touched
               PROVE  head'[f] = run[p].shown[f] \/ head'[f] > run[p].shownAt
    OBVIOUS
  <2>1. head' = index /\ pc[p] = "commit"
    BY LandsStaged DEF IInv, Lands, At
  <2>2. f \in Files /\ head'[f] # head[f]
    BY DEF Touched
  <2> QED
    BY <2>1, <2>2 DEF IInv, Displayed, DisplayedFor, Covered
<1> QED
  BY <1>1, Invariance, PTL DEF Spec, ReviewedIsCommitted
=============================================================================
