# Verification of leadengineer

leadengineer drives Claude through the tasks of a project's backlog: it picks a task, has
Claude implement it, runs the project's quality gates, has the change reviewed, commits it,
and records what happened in Markdown documents under `.ai/`. It runs unattended: it waits
out usage limits, goes on after failed tasks, and is expected to survive crashes and
interrupts. What can go wrong lies between its steps rather than in them: a process killed
between the commit and the status write, a file saved between the gates and `git add .`, a
prune that runs while recovery reads. The unit tests of the repository exercise one call at
a time; the specifications here cover the orders in between.

All paths below are relative to the repository's root, shown as `src/` in `PROJECT.json`,
which maps every definition to its lines.

## 1. The system

| Component | State it keeps | Operations | Talks to |
|---|---|---|---|
| task executor (`internal/executor`) | the stage of the run; `BACKLOG.md`, `CURRENT.md`, `CHANGELOG.md` through memory | `RunNext`, `Run` | memory, session, gates, review, git, checkpoint store |
| run loop and watch (`internal/app`: `execute.go`, `watch.go`, `quota.go`) | consecutive failures, tasks done, the sleep | `RunNextTask`, `RunLoop`, `Watch`, `AwaitQuota`, `classifyRunError` | executor, quota record, session manager |
| quota record (`internal/quota`) | `.ai/quota.json`: exhausted, resume time, hits | `RecordExhaustion`, `Clear`, `WaitUntilAvailable` | atomic file |
| checkpoint store (`internal/checkpoint`) | one file per checkpoint | create, latest, list, load, prune, delete | atomic file; several processes |
| atomic file (`internal/atomicfile`) | a temporary file | `Write` | the file system |
| documents (`internal/memory`, `app/initialize.go`) | YAML header and prose body of each document | `Get…`, `Save…`, `Initialize` | people with editors |
| session manager (`internal/claude`) | metadata file per session, the current session | launch, continue, resume, end, recover, `DetectFailure` | the Claude CLI |
| quality gates (`internal/gates`, `app.gateSet`) | the report of the run | `Runner.Run`, one `Run` per gate | the project's tools, the tree |
| self-review (`internal/review`) | none | `Review`, `ParseReview`, `extractJSON` | session manager |
| git wrapper (`internal/git`) | none | status, diff, add, commit; push, pull, branches | git |
| recovery (`internal/recovery`) | none | `Analyze` | everything durable, read only |
| toolchain detection (`internal/toolchain`, `app/execute.go`) | `TOOLCHAIN.md` | `DetectToolchain`, `ParseToolchain` | session manager, gates |
| configuration, logging, metrics, status, command line, wiring | settings, counters | load, log, count, render | |

The interactions that make it hard:

- **One durable step after another, with no transaction.** A run writes `CURRENT.md`,
  `BACKLOG.md`, checkpoints, a commit, `CHANGELOG.md`, `BACKLOG.md` and `CURRENT.md` again.
  Each may fail, and the process may die between any two.
- **Two kinds of error.** Some errors of a run pass through `fail`, which marks the task
  blocked; others (those of `markInProgress` and `recordCompletion`) do not.
- **Cancellation.** An interrupt cancels the context that git commands, sessions and gates
  were given; the bookkeeping goes on with it, because memory does not look at it.
- **A shared tree.** The session, the reviewer, the gates' commands and people all write in
  it; `git add .` takes whatever is there, and a status or a diff is several git commands.
- **Shared files.** People edit the documents while the process updates them; `checkpoint
  prune`, `quota clear`, `status` and `recover` are processes of their own. Nothing locks the
  project, so a second `start` is possible too.
- **Somebody else's limit.** Whether a failure was a usage limit is read from the text the
  CLI printed, kept in the record of the latest session, and asked for later by the watch.

What each component must get right is listed with its module in section 3; every hazard, at
its line and with the properties aimed at it, is in `PROJECT.json` under `hazards`.

## 2. Modules

| Module | Models | Checked by | Proved in |
|---|---|---|---|
| `Executor` | `executor.go`: a run, write by write | `Executors` | `ExecutorProofs` |
| `Lifecycle` | what the executor promises of tasks and commits | `ExecutorRefinement`, in `Executors` | `ExecutorProofs` |
| `Recovery` | `recovery.go`: the report, over whatever the executor left | `Executors` | `ExecutorProofs` |
| `Git` | `manager.go`: status, diff, stage, commit, one git command a step | `Repository` | `GitProofs` |
| `Quota` | `quota.go`, as operators on the record | with `Watch` | with `Watch` |
| `Watch` | `Watch`, `RunLoop`, `RunNextTask`, the process around them; uses `Quota` | `WatchLimits`, `WatchServes`, `WatchStaleLimit` | `WatchProofs` |
| `CheckpointStore` | `store.go`, and the commands that use it | `Stores` | `CheckpointStoreProofs` |
| `AtomicFile` | `write.go`, one system call a step | `AtomicFiles` | `AtomicFileProofs` |
| `Register` | what an atomic file promises | refinement in `AtomicFile` | `AtomicFileProofs` |
| `Document` | one document: header, body, hand edits | `Documents`, `DocumentTorn` | `DocumentProofs` |
| `Session` | `session.go`: a call, its attempts, its record | `Sessions` | `SessionProofs` |
| `Gates` | the choice of the set and the run of it | `GateSets` | `ChecksProofs` |
| `Detection` | `detect`: what becomes of a reported set; extends `Gates` | `GateSets` | `ChecksProofs` |
| `Review` | `review.go`, `parse.go` | `Reviews` | `ChecksProofs` |

How they compose: `ExecutorRefinement` and `Recovery` extend `Executor`, `Detection` extends
`Gates`, `Watch` uses `Quota`; the task run that is one step in `Watch` is what `Executor`
unfolds; the clean check, the review's diff and the commit, one step each in `Executor`, are
what `Git` unfolds; and each single durable write stands for what `AtomicFile` or `Document`
shows of it.

`MC…` modules give the constants their values. In every module the definitions that say
"Mutant" are a definition as a plausible slip would have it. No specification uses them;
they are there to be put in the place of the definition they are named after, and then
the property listed with them in `PROJECT.json` fails.

## 3. How the models correspond to the code

### Executor

`pc` is the place in `Run`; each durable write is an action. `backlog`, `current`,
`changelog` are the documents, `history` the commits with what they hold, `tree` the
uncommitted work: who wrote it, and whether the gates and the review have seen it as it is
(`verified`, `approved`; any edit resets both). `ckpt` is the newest checkpoint.

| Code | Actions |
|---|---|
| `selectTask`, `requireCleanTree`, `markInProgress` | `SelectTask`, `RequireCleanTree`, `MarkCurrent`, `MarkInProgress` |
| `implement` | `Implement`, `CheckpointImplemented` |
| `verifyAndRepair` | `StartVerify`, `RunGates`, `StartRepair`, `Repair` |
| `reviewAndRevise` | `StartReview`, `Review`, `StartRevise`, `Revise` |
| `commit` | `StartCommit`, `Commit`, `CommitKilled` (the interrupt kills git after it committed) |
| `recordCompletion` and the end of `Run` | `RecordChangelog`, `MarkDone`, `ClearCurrent`, `CheckpointDone` |
| `fail`, `recordFailure` | `RecordFailure`, `MarkBlocked`, `CheckpointFailure` |
| the process and people | `Cancel`, `Exit`, `Crash`, `Restart`, `HumanEdit`, `HumanTidies`, `HumanReopens` |

The settings a project runs under are chosen in the initial state: with or without a reviewer,
with a reviewer that writes, with `tasks.autoCommit` on or off, with `.ai/` ignored by git or
not. A session may leave the tree as it was, edit it, or restore it; gates and reviewer answer
anything. An I/O or git error may occur wherever the code checks for one.

`changelog` holds the entries of `CHANGELOG.md` and whether it can be read: a write that fails, or
during which the process is killed, may leave it torn (`CutShort`), with every entry lost, and then
`recordCompletion` returns an error each time, since it reads before it writes. The other documents
are taken whole here: `Document` has what a cut write does to each kind.

`Lifecycle` is the abstract specification: one task runs at a time, only its status changes,
it is committed at most once while it runs, and the run ends with it done, or with nothing
committed and it blocked; once there has been trouble, a run may be abandoned, and a commit
may be made that the run takes for a failure. `ExecutorRefinement` maps a run to the stretch
from the write that marks the task in-progress to the write that settles it.

### Recovery

`Analyze` only reads, so the report is a function of the durable state: `InterruptedTasks` and
`ReportedTask` are its loop over the backlog. `ReportIsRight` relates it to what really happened
and to what the next `start` will select. The reading of the checkpoints is in `CheckpointStore`.

### Git

The content of a file is a version, numbered in the order of writing, so that "written after"
can be said. `work`, `index`, `unmerged` and `head` are the repository; one git command is one
step, as git's own lock makes it. Each caller is a pipeline: `Begin`, the listings of `Status`
one by one, `CheckConflicts` (the verdict of `requireCleanTree`), a session, `DiffTracked`,
`DiffOthers`, `DiffFile`, `DiffEnds`, the review, then `Inspect`, `Stage`, `Commit`. `run` keeps
what the caller has read and, for the properties, when it began to and whether somebody else has
run git since. People save files and run `git add`, `commit`, `restore` and a merge that
conflicts. An initial repository may have no commit yet.

### Watch and Quota

A task's run is one step to start and one to end here, with the outcomes `Executor` shows in
detail. `quota` is the record, with relative time: `left` ticks until it resumes. `timer` is the
sleep in progress, fixed when it began, as in `WaitUntilAvailable`. `last` is what
`DetectFailure` says of the latest session and `err` the classified error of the latest run;
that these two can be of different runs is the point of `CooldownNeedsACall`. `burnt` is
history: the tasks that met the limit since a cooldown was last recorded. `watching` tells
`start --watch` from `start`. `idle` only counts, for the property, the passes since a task
completed. `Cancel`, `Crash`, `Restart`, `OperatorClears` and the people are the environment,
`Tick` is time, and `LimitBegins` and `LimitLifts` are the provider.

### CheckpointStore

Pipeline, prune and readers are processes; a listing, the reading of one file and the
removal of one file are single steps, since the store's mutex orders the calls of one
process only. Ids are pairs of clock and counter, as in `nextID`. `kind` says what `load`
finds in a file: intact, corrupt, of a newer version, unreadable.

### AtomicFile

`names` is the history of what the path has named; a power loss goes back to any name since
the directory was last flushed, and may lose the data of files that were not. `Register` is
the abstract specification: a log of complete values of which power loss may only take back
unacknowledged ones.

### Document

The header is reduced to three fields: `sys` counts the changes recorded by the system, `hand` those
made by hand in fields the code knows, and `extra` says whether a hand has put there what the code
does not know, a comment or a key of its own. The code decodes the header into a structure and
encodes that anew, so `NewHeader` keeps the first two and drops the third. The body is reduced to
what it is made of. A call reads the header (`Get`), reads the body
(`Merge`, where a file that cannot be read gives way to the default body), truncates and writes.
`doc` is the kind of document, which fixes how it is written: `BACKLOG.md` and `CHANGELOG.md` are updated, `CURRENT.md` is replaced,
`DECISIONS.md` is appended to.

### Session

A call has attempts; each attempt shows any combination of time-out, limit text, network
text, error flag and exit status, and `Classify` is the order in which `executePrompt`
looks at them. `meta` is the file per session, `current` the manager's pointer. A failing write
(`SaveFails`) and a crash leave the file as it was or cut short, and one cut short cannot be loaded:
`DetectFailure` then says "crash". `env.lost` is history: the sessions a write of which did not take
place.

### Gates

`GateSet` is `gateSet` with `FromSpecs` and the built-in sets; then each gate is a step
(`GoBuild` and `NodeInstall`, which run a tool and then do more, are two). Tools answer
anything; of what the Go tests print, the lines with a coverage figure are kept, and
`ParseCoverage` picks the lowest of those that measure something. `files` is what `git add .`
could take: by maker, by whether it holds a credential the scan recognises, by whether the scan
gets to read it (`Scanned`: git lists it under its own name, and it can be read), and by whether it is
in the project's root, the only place where `GoBuild` looks for what the compiler left.

### Detection

`Detect` is `App.DetectToolchain` after Claude's reply was read: gates without a name or a
command are dropped, what `FromSpecs` refuses is not saved, and the rest becomes `TOOLCHAIN.md`.
`PersonDeclares` writes or removes the document by hand, and `Begin` starts a task, whose gates
are then chosen and run by the actions of `Gates`.

### Review

The scan of `extractJSON` is modelled character by character over five classes of
character, on every well-formed object up to a length, with text around it. What an object
says, and the verdict that comes of it, is `ParseReview`.

## 4. Runs, bounds, and what they show

| Run | States | What it shows |
|---|---|---|
| `Executors` | 1,460,000 | two tasks, five settings, any two troubles: consistency of documents, tree and history, what `recover` says of them, the refinement of `Lifecycle`; runs end |
| `Repository` | 2,500,000 | two pipelines and a person in one repository: nothing older than the clean check is committed, and nothing the reviewer did not see but what came later |
| `WatchLimits` | 1,320,000 | one limit takes one task; cooldowns are obeyed through kills and restarts and back off; an interrupt ends the process |
| `WatchServes` | 191,000 | every new task is tried or the watch has stopped; it stops for lack of progress, and only then |
| `WatchStaleLimit` | (violation) | section 7 |
| `Stores` | 2,130,000 | recovery finds the newest usable checkpoint; a prune never loses it |
| `AtomicFiles` | 3,100 | old or new, never torn; acknowledged is durable; refinement of `Register` |
| `Documents` | 314,000 | prose, records and hand edits survive |
| `DocumentTorn` | (violation) | section 7 |
| `Sessions` | 405,000 | a limit reaches whoever asks for it; the record agrees with the call |
| `GateSets` | 5,020,000 | a pass means that the required gates ran, over all the project shapes listed below and all that `detect` makes of them |
| `Reviews` | 742,000 | the object is found and an approval is meant |

A module has one type invariant. Where the run has stronger things to say it is not among the
run's properties (`Watch`, `CheckpointStore`, `AtomicFile`, `Document`, `Session`); `Executor`
and `Gates` check theirs.

The bounds, and why they are enough to be interesting:

- *Executor*: two tasks with the second of higher priority, so that work can leak from one to
  the other; one repair and one revision, so that each loop is entered and left both ways;
  `MaxTrouble` 2: any two of a failing write, a crash, an interrupt, a person's edit and a
  reopened task, at any two points; `MaxCommits` 2: behind a changelog that cannot be read no task
  gets done, and each run commits the first task anew, so a run begins then only below that number
  of commits. The five settings: the default one; a reviewer that writes,
  with `.ai/` ignored; no reviewer; and without automatic commits, once with a reviewer and once
  with none and `.ai/` ignored.
- *Git*: two callers and a person; one file under `.ai/`, which the clean check leaves out, and
  one outside; three versions, so that a file can be written before, during and after a check;
  one changed file fits into the diff (`MaxShown`), so that the cut happens; one failing
  command or one git command of a person (with two, 5.4 million states, the same holds).
- *Watch*: cooldown 1 with cap 3 is the shortest scale in which the wait doubles (1, 2) and is
  then cut by the cap (3); two limits make a second hit possible, and `MaxFailures` 2 a second
  failure. With `MaxFaults` and `MaxStarts` 1, a limit may find its record unwritten or its process
  killed. `HitsCap` stops the count when the wait no longer changes.
- *CheckpointStore*: four checkpoints, two of them damaged, with one kept: enough for a corrupt
  newest file, an older intact one, and a surplus. Two clock values and a counter give equal
  times, restarts and reorderings.
- *AtomicFile*: three calls are one acknowledged, one under way and one more to overtake it.
- *Document*: three calls, two hand edits, any number of comments, two broken headers, one cut write.
- *Session*: two sessions, so that one is current while the other is continued; two attempts;
  three further calls; one failing write and one crash, each of which may cut a file short.
- *Gates*: Go projects with every tool or short of any one, Node projects over package manager,
  lockfile, manifest, scripts and an old summary; declarations that are empty, usable,
  duplicated, without name or command, or that take the name of the scan, written by hand or
  reported by Claude; three figures of coverage (none, below, at the floor), on every set of lines;
  the session's file clean, or with a credential and listed plainly or quoted; people add a file in
  the root (`PeopleWrite`), which the build's cleaning can take.
- *Review*: seven characters are the shortest that hold a nested object beside an escaped quote
  in a literal.

`CHECK_DEADLOCK FALSE` stands in the cfgs of the systems that may stop: a watch that has ended
and is not restarted, a call that has returned, a bounded number of operations used up. The
executor's runs check for deadlock.

**Fairness.** `Executor!FairSpec`, `Watch!ProcessSpec`: weak fairness of the process as a whole.
It is a single loop, and everything it waits for ends by itself or by a time-out (sessions have
`claude.timeout`, `exec.CommandContext` ends commands when the context does). `Watch!FairSpec`
adds weak fairness of `Tick`, that time passes. `InterruptEnds` is checked without it: the
interrupt must not have to wait for a timer. Nothing is
assumed of people, the operator, the provider or crashes.

## 5. What the properties excuse

Where a promise holds only under a condition, the condition is written in the property and
named in its comment, so that a run with every kind of trouble switched on checks it:

| Property | Does not speak of |
|---|---|
| `SweepsOnlyLater` | checks in the middle of which somebody else ran git |
| `ReviewedIsCommitted` | diffs from which a file was left out or cut; git run by others since the diff |
| `ReportIsRight` | a backlog in which somebody reopened a task |
| `LeftoverIsVisible` | the status of a task that somebody reopened |
| `OneTaskPerCooldown` | one more task for each failed write and each process started again |
| `DetectedIsUsed` | a project in inspection mode, which runs no tools |
| `PipelineCommitsChecked` | commits with a person's edits in them; reviewers that write (`ReviewerEdits`) |
| `OneCommitPerTask`, `CleanExit` | runs in which a crash or an I/O error came in between |
| `EachHitWaitsLonger` | a configured cooldown above the cap |
| `OneBadTaskDoesNotStop` | failed runs that leave edits behind (`FailuresLeave`), or done ones that leave work uncommitted (`AutoCommit` off); edits, reopened tasks and I/O errors in between |
| `SystemicFailureStops`, `TaskServed` | a dirty tree after a usage limit |
| `RecoveryFindsNewest`, `PruneKeepsUsable` | names out of order after the clock was set back |
| `RecoveryNotBlocked` | a file that a prune removed before it was read |
| `BodyKept` | a document after a write was cut short; edits during an update |
| `ChangelogTruthful` | a changelog that cannot be read, since a write of it was cut short |
| `HandEditsKept` | edits saved while an update has the header in hand; comments and keys the code does not know; a header that cannot be read; `CURRENT.md`, which a new task replaces |
| `SecretsStop` | files the scan passes over (their name is quoted by git, or they cannot be read); what is written after the scan |
| `DetectAgrees`, `LimitReachesCaller` | a session whose file a later failing write cut short |
| `NoneLeftActive` | a session whose own file could not be written, or in whose call the process died |
| `AckedKept`, `HandEditsKept` | `DECISIONS.md` once a write was cut short, or a hand has left it without a header or with half of one (`StartsOver`) |
| `ObjectFound`, `ApprovalIsMeant` | replies with an open brace before the object |
| `FloorHolds` | a measured coverage of exactly zero, or none, in a Node project; sets without a test gate of ours |

Most of these are divergences of the code from what the repository says, which section 7 has;
the others (a reopened task, inspection mode) are as the documents have them.

## 6. What is proved

For every value of the constants (any number of tasks, files, callers, checkpoints, sessions,
gates, attempts, faults), with TLAPS. Each is `Spec => []P`, or `Spec => P` for an action
property or a refinement. No liveness is in any of them; the last three bound the steps that the
liveness properties of section 4 wait for.

| Theorem | Property | Argument |
|---|---|---|
| `ExecutorProofs!TypeCorrect` | `TypeOK`, the attempt limits included | the loops enter a further attempt only below the limit (`AttemptsLeft`) |
| `…!CommitsAreChecked` | `PipelineCommitsChecked` | `TreeIsChecked`: past the gates the tree is verified, and past the review approved, unless a person has touched it |
| `…!CommitsAreOwn` | `CommitsOwnWork` | `TreeIsOwn`: past `requireCleanTree` the tree holds the task's work and perhaps a person's |
| `…!InterruptStopsCommits` | `[][cancelled => history' = history]_vars` | every action that extends the history is guarded by the context |
| `…!ChangelogIsTruthful` | `ChangelogTruthful` | `CommitKnown`: the commit a run remembers is in the history and of its task; `Noted`: the entry comes before the status; once torn, the changelog is not written again, so that the claim, which speaks of one that can be read, is not taken up falsely later |
| `…!LeftoversAreVisible` | `LeftoverIsVisible` | `Prepared`, `Delivered`, `OneInProgress`: whose work is in the tree at each place, also when a run is taken up again |
| `…!NoSecondCommit` | `OneCommitPerTask` | `CommittedOnce`: a task whose commit is in the history is done or blocked, or its run can commit no more |
| `…!ExitsAreClean` | `CleanExit` | `InProgressIsRunning`: only the running task is in-progress |
| `…!RecoveryIsRight` | `ReportIsRight` | `OneInProgress`: at most one task is in-progress, `CURRENT.md` names it, the tree is its own, and it is first in line |
| `…!PipelineImplementsLifecycle` | `ImplementsLifecycle` | step by step: each action is a step of `Lifecycle` or leaves its variables alone; the invariant says at which places a run is on |
| `GitProofs!CommitsOnlyLater` | `SweepsOnlyLater` | `Listed`: what each listing has established of a file; together they make `Later`: what is staged or changed is later than the check |
| `…!CommitsAreReviewed` | `ReviewedIsCommitted` | `Displayed`: a file is as committed, still to be shown, shown, or written since, from the diff to the commit |
| `WatchProofs!LimitTakesOneTask` | `OneTaskPerCooldown` | `Accounted`: while a limit is in force and not yet on record, what it has taken is covered by failed writes and restarts |
| `…!ObeysCooldown` | `CooldownObeyed` | `Awake`: the sleep ends together with the recorded cooldown, unless that was cleared |
| `…!EachHitWaits` | `EachHitWaitsLonger` | `QuotaMoves`: the record is only ever hit, cleared or left to elapse; the recursive `Wait` doubles up to the cap (below) |
| `…!GivesUpOnlyWithoutProgress` | `GaveUpJustified` | `Patience`: the count of failures never runs ahead of the passes without progress |
| `…!GivesUpOnManyTasks` | `OneBadTaskDoesNotStop` | `Blamed`: each failure counted has a blocked task of its own, since a blocked task is not taken again |
| `CheckpointStoreProofs!RecoveryIsNewest` | `RecoveryFindsNewest` | `Passes`: no usable checkpoint that was there at the listing has been passed over; the next one is the newest of those left |
| `…!CorruptionDoesNotBlock` | `RecoveryNotBlocked` | the same, and what does not load is corrupt or gone (needs `OnlyCorrupt`) |
| `…!RetentionKeepsUsable` | `PruneKeepsUsable` | `Knows`: what a prune has read is still so, and every name it is to remove has `Keep` later ones that it is not (needs `OnlyCorrupt` and `OnePruner`) |
| `AtomicFileProofs!ReadersSeeWhole` | `NeverTorn` | `NamedIsSafe`: whatever the path has named is complete and flushed, so a power loss can only go back to such a file |
| `…!AcknowledgedIsDurable` | `AcknowledgedSurvives` | `AcknowledgedSettled`: an acknowledged name is in the flushed part of the history |
| `…!WriteImplementsRegister` | `ImplementsRegister` | a rename appends to the register's log, a power loss cuts it at or after the last acknowledged value (`LastPlace`, by `NamedOnce`), all else stutters |
| `DocumentProofs!UpdatesKeepTheBody` | `BodyKept` | `ProseKept`: the prose is in the file or in the hands of the call |
| `…!UpdatesKeepTheRecord` | `AckedKept` | `RecordKept`: and so is what was recorded, since `Get` refuses what it cannot read; `NothingBefore`, for `init` |
| `…!UpdatesKeepHandEdits` | `HandEditsKept` | `HandKept`: the header in the file, and the one a call has in hand, each hold all edits but those counted as late |
| `SessionProofs!DetectionAgrees` | `DetectAgrees` | `OnRecord`: the record of the session says how the last attempt ended, or cannot be loaded because a write of it failed |
| `…!LimitIsReported` | `LimitReachesCaller` | the same with `Shown`: that attempt's class is what `Classify` makes of its output |
| `…!NoSessionLeftActive` | `NoneLeftActive` | `Active`: only the session of the call in progress is active, and those of which a write was lost |
| `ChecksProofs!Typed` | `TypeOK` | results go by the names of the gates, one by one |
| `…!PassedMeansChecked` | `PassMeansRan` | only optional gates can skip at will (`SetOK`); results so far are sound; a run that ends early has a failure in its report (`Progress`) |
| `…!CredentialsStop` | `SecretsStop` | every set has the scan in it (`SetOK`), and a scan that passes vouches for those of the session's files that it read (`Sound`) |
| `…!FloorIsHeld` | `FloorHolds` | a test gate that passes vouches for the figure measured (`Sound`, `FloorMet`), and names are unique, so the tests run once |
| `…!UnusableIsRefused` | `UnusableReported` | `Chosen`: the set in use is what `GateSet` makes of the declaration, which refuses |
| `…!DetectionIsUsed` | `DetectedIsUsed` | `Recorded`: what `detect` saved is the part of the reply that can run, and makes a set; nothing is lost between them |
| `…!ObjectIsFound` | `ObjectFound` | `Underway`: the scan is somewhere on a path over the inside of the object, which ends at the depth and outside the string literals where it began, and never falls to depth zero (`IsPath`; by induction over how objects are put together) |
| `…!ApprovalsAreMeant` | `ApprovalIsMeant` | `Meant`: the verdict is what `ParseReview` makes of what the object says, since the object is what is read |
| `ExecutorProofs!RunsAreBounded` | `Bounded`, `Shortens` | `Remaining` falls with every step of a run: by a place, or by an attempt, which is worth more than all the places it goes back |
| `WatchProofs!InterruptWindsDown` | `AtItsEnd`, `WindsDown` | `StepsToEnd` is at most 8, is 0 only at the end, falls with every step of an interrupted process and is raised by nothing |
| `…!StuckWatchTires` | `Finite`, `Wearies` | `StepsLeft` falls with every step of a watch that has work and a dirty tree: a pass costs a failure; only a completed task or a limit pays for one, and `LimitCounted` says there was no limit |

`ChecksProofs` is about `Gates!Spec` and `Detection!DetectionSpec` alike (one run of the gates from
any project, and any number of detections, declarations by hand and runs) and about `Review`. Type correctness is also
proved of `Watch`, `CheckpointStore`, `Document` and `Session` (`Typed`), and of `Git` and
`AtomicFile` as part of `IInv`. That of `Watch` bounds the failures it has borne, and that of
`CheckpointStore` says that no two checkpoints share a name.

**The argument.** The properties are not inductive by themselves: `PipelineCommitsChecked` speaks of
the history only, and the next commit is checked because of what the tree was when the run reached
`commit`. So each `…Proofs` module has an invariant (`IInv`; `Records` on top of it in
`ExecutorProofs`; `Awake`, `Patience`, `Accounted`, `Blamed` and `QuotaOK` in `WatchProofs`; `Knows`
on top of it in `CheckpointStoreProofs`; `ReviewInv` beside it in `ChecksProofs`) that says what holds at each place, a lemma for each action
or each part of it that a step may disturb, and the theorem from `Init => IInv`,
`IInv /\ [Next]_vars => IInv'` and `IInv => Property`. Action properties follow from the invariant
in the state before the step (or after it) and what the step does. The two refinements take the
refinement mapping of the `INSTANCE` and show that initial states map to initial states and each
step to a step or a stutter; under `ImplementsRegister` and `ImplementsLifecycle` no fairness is
claimed.

**Bounded runs.** Behind each of `RunReturns`, `InterruptEnds` and `SystemicFailureStops` is a number
of steps the process has left. Its half that is safety is proved: the number is at most what the
constants say, every step of the process lowers it, and nothing else raises it. A run takes at most
`RunLength` = 17 + 3R + (3R + 6)V steps with R repairs and V reviews; an interrupted process takes
at most eight more; a watch with work, a tree that stays dirty and no limit met takes at most
8 `MaxFailures` + 10. So the process can fail to come to its end only by taking no further step at
all; that it does take one wherever it can is the fairness, and that it can is left to TLC.

**Data.** Four arguments need induction. That a non-empty set of names or places has a newest member,
that the recursive function `Wait` has a value at every hit, that the recursive sets of `Review` (the
items and objects of each length) have the members their equations say, and that every item has a
path over it, are shown with `WFMin`: a non-empty set of numbers has a least one, so there is no
least counterexample (`LargestExists`, `NewestIsLatest`, `LastPlace`, `BackoffExists`, `FromBelow`).
The counting arguments of `Blamed` and `Knows` are about cardinalities of finite sets.

**Assumptions.** Those of the modules (`ConstantsAssumption`, `GitAssumption`, `WatchAssumption`,
`CooldownAssumption`, `StoreAssumption`, `AtomicFileAssumption`, `DocumentAssumption`,
`SessionAssumption`, `GatesAssumption`, `ReviewAssumption`) give types to the constants, keep `Human`, `Person`, `None`
and `Old` apart from tasks, callers and writers, make the set of files finite, and say of the
budgets only that they are numbers. Two theorems have a hypothesis of their own, which the runs
meet: `OnlyCorrupt` (all damage is such that `load` recognises it as corruption) and `OnePruner`
(prunes run one at a time). The code guarantees neither, and without them the theorems are false:
section 7, checkpoint store. Conditions on what happens, such as that no write failed, are part of
the properties (section 5), and each is there because TLC shows a counterexample without it. One
was found in the proof: with `AutoCommit` off a finished task dirties the tree, and the refusals
that follow can stop a watch that has blocked no task.

**Only model-checked.** The liveness properties (`RunReturns`, `InterruptEnds`,
`SystemicFailureStops`, `TaskServed`): they rest on fairness and `ENABLED`, which are out of the
prover's reach. `TaskServed` has no bound on steps to prove, since what a task waits for (the tasks
before it, a person, the provider) has none. The two violations of section 7 are runs by their
nature. Every other property of a run is a theorem.

## 7. Divergences found

Modelling brought out places where the code does not do what the repository's documents or
comments say. Two are kept as runs, which end in a violation:

- **`WatchStaleLimit`, `CooldownNeedsACall`** (`app/execute.go:225`). `classifyRunError` asks for
  the failure of the last session, whatever the error was. After one real limit an empty backlog
  or a dirty tree is recorded as a further limit. `app_test.go:585-586`: "Anything that is not a
  usage limit must surface as itself, not be misreported as quota exhaustion."
- **`DocumentTorn`, `NeverTorn`** (`memory/memory.go:260`). Documents are written with
  `os.WriteFile`, which truncates first. `README.md:105-106`: "Writes are atomic — a temporary
  file and a rename — so a crash mid-write cannot leave a torn document."

The others are behaviours of the models that the properties excuse; where a property is named,
dropping its condition makes TLC show them.

Executor
- `executor.go:249`, `:209`: errors of `recordCompletion` and `markInProgress` do not pass through
  `fail`, and leave a task in-progress. `README.md:268-269`: in-progress "is the one state the
  executor never leaves behind on any normal exit". (`CleanExit`, without `env.faults = 0`.)
- `executor.go:241`: a crash between the commit and the status write makes the next run commit the
  task again. `ADR.md:106`: "without losing work or duplicating completed work."
  (`OneCommitPerTask`, without `env.crashes = 0`.)
- `memory.go:260`: a write of `CHANGELOG.md` that fails or is killed can lose the entries of all tasks
  done before. From then on `recordCompletion` fails for every task, after its commit and before its
  status, so each one is left in-progress and may be committed again by the next run, until somebody
  mends the file. (`ChangelogTruthful`, without `changelog.whole`; `Executor!RecordChangelog`.)
- `git/manager.go:75`: an interrupt may kill git after it made the commit; the task is then blocked
  and its work in the history. `QUICKSTART.md:169-171`: "never discarded and never committed."
  (`CommitKilled`.)
- `executor.go:556`: an edit saved after the gates is committed unchecked. `README.md:31`: "Nothing is
  committed until every required gate passes." (`PipelineCommitsChecked`, for all commits.)
- `executor.go:456`: a review session has the same permissions as any other, and the gates do not run
  after it. (`PipelineCommitsChecked`, with `ReviewerEdits`.)
- `executor.go:549`: `commit` asks whether the tree is clean, `.ai/` included; where that is tracked a
  task without changes gets a commit. `executor.go:550-551`: "inventing an empty commit is not".
  (`StartCommit`, with `StateIgnored` off.)
- `recovery.go:98`: `recover` reports as safe to resume what is only not in-progress: a task left
  blocked with its work in the tree is not mentioned, and the next `start` refuses every task.
  `recovery.go:79-80`: "nothing standing between the project and simply running `start` again."
  (`ReportIsRight` speaks of interrupted tasks.)

Git
- `git/manager.go:201`: without a commit there is no HEAD and `git diff HEAD` fails, so with the
  review on, the first task of a new repository ends blocked. `manager.go:383-386` takes care that
  a repository right after `git init` works. (`Git!DiffTracked`, `unborn`.)
- `manager.go:148`: `Status` lists staged, unstaged and untracked files with a command each; a file
  that somebody stages or commits between two of them is in none. (`SweepsOnlyLater`, without
  `sure`.)
- `manager.go:216-220`: a file for which the diff fails, for whatever reason, is left out without a
  note, and what is beyond `maxDiffSize` is cut off; the reviewer's approval is taken for the whole
  change. (`ReviewedIsCommitted`, without `whole`.)
- `executor.go:567`: the changelog's hash is that of the newest commit, asked for after the commit was
  made; with a second process it may be another's.
- `executor.go:556`: `commit` does not look for conflicts again; a path in conflict is staged by
  `git add .` with its markers. (`Git!Stage`.)

Watch and quota
- `app/watch.go:105`: a dirty tree taken for the limit of old does not count as a failure, and the
  watch never stops. `README.md:260-264` says that it does. (`SystemicFailureStops`.)
- `executor.go:686`: a task that met the limit is marked blocked and is not resumed. `quota.go:3-5`:
  "record when access should return, checkpoint, wait, resume". (`Watch!HitLimit`.)
- `executor.go:303`: a failed task's edits make every other task be refused, and three refusals stop
  the watch. `README.md:260-261`: "A failed task does not stop the watch".
  (`OneBadTaskDoesNotStop`, with `FailuresLeave`.)
- `quota.go:249`: a process asleep does not notice `quota clear`. `cli/commands.go:345`: "work resumes
  immediately." (`Watch!AwaitQuota` fixes the timer.)
- `quota.go:171`: two processes read, change and write the record; one of two hits is lost, or the success
  of one clears what the other has just recorded.
- `quota.go:196`: with a base above the cap, the second hit waits less than the first.
  `quota.go:43-45`: "Each one widens the next cooldown". (`EachHitWaitsLonger`.)

Checkpoint store
- `store.go:174`: a file pruned between the listing and its read is an error that recovery returns.
  `store.go:156-159`: it "must not block recovery when an older intact one exists."
  (`RecoveryNotBlocked`.)
- `store.go:231`: whatever fails to load other than as corrupt counts as intact. With two prunes at
  once, or a file that cannot be read, the last usable checkpoint can go. `store.go:210-212`:
  "retention never trades a usable checkpoint for a damaged one." (`PruneKeepsUsable`, with two
  `Pruners`, or `"unreadable"` in `Damage`.)
- `store.go:300`: names hold the wall clock. `store.go:21-22`: "filename ordering and time ordering
  never disagree." (`InOrder`.)

Documents
- `memory.go:193`: a missing closing delimiter counts as no front matter, and `SaveDecision` starts
  over. `memory.go:194-195`: that "would discard the decisions already recorded there."
  (`AckedKept`, without what `StartsOver` says of headers broken by hand.)
- `executor.go:731`: a task added by hand during a status update is overwritten. `README.md:257-258`:
  the watch "picks up tasks as you add them." (`HandEditsKept`, without `env.late`.)
- `memory.go:143-181`, `document.go:78-101`: an update decodes the header into a structure and writes it
  anew, so comments and keys that people added are dropped by the next one. (`Document!NewHeader`,
  `extra`.)
- `memory.go:300`: a document whose read fails for any reason, its absence or not, gets the default body,
  and its prose is lost. (`Document!Merge`; only where something else fails, so `BodyKept` excuses it.)
- `memory.go:300`: after a write cut short, the default body takes the place of the prose.
  `memory.go:295-296`: "a state update must never discard it." (`BodyKept`, with faults.)

Configuration and detection
- `config/loader.go:126`: `AutomaticEnv` without a key replacer looks for variables with a dot in their
  name, so settings below the top level are not overridden. `README.md:284-285`: "environment variables
  prefixed `LEADENG_` override both."
- `app/execute.go:132`: a limit met by `detect` is not recorded. `quota.go:3-5`, as above.
- `executor.go:352`: `git diff --name-only` names paths from the root of the repository, so for a project in
  a subdirectory changes under `.ai/` count as work. `executor.go:344-348` means them not to.

Sessions
- `session.go:195`: the error of an attempt that a later one made good stays in `result.Errors`, and
  callers take it for failure. `output.go:52`: "a transport-level failure worth retrying".
- `session.go:182`: when the CLI cannot be run, `LastFailure` is not touched. `session.go:83-84`: it
  "records how the most recent invocation failed".
- `session.go:535`: a failing write empties the session's file first, and `ResumeSession` drops the error
  (`:265`); the session cannot be loaded again, and `DetectFailure` reports a crash whatever had happened.
  (`DetectAgrees`, without what `Fresh` says of `env.lost`.)
- `session.go:226`: a success never takes back the exhausted mark (`IsQuotaExhausted`).

Gates
- `app/execute.go:87`: a `TOOLCHAIN.md` that does not parse leads to the built-in set.
  `execute.go:101-102`: "must be reported, not quietly replaced by a built-in set".
- `gates/spec.go:112`: what later gates write is not scanned. `secrets.go:76-77`: "exactly what a commit
  could actually include." (`SecretsStop`, for all makers.)
- `gates/secrets.go:52-58`, `:79`: a listed path that cannot be examined or read is passed over and the
  scan passes. `git ls-files` without `-z` puts names that are not plain ASCII in quotes, and a quoted
  name names no file, so a credential in such a file passes and is committed. `secrets.go:75-77`, as
  above. (`SecretsStop`, without `f.name = "plain"`.)
- `gates/node.go:128`: `npm install` after a failed `npm ci` updates the lockfile. `node.go:112-114`:
  "changing the thing it is checking."
- `gates/golang.go:144`: a file that somebody adds to the root during the build is removed.
  `golang.go:89-90`: "must not leave the tree different from how it found it."
- `gates/node.go:304`: a stated coverage of zero counts as no statement. (`FloorHolds`.)
- `gates/node.go:249`: a summary left by an earlier run is reported as this run's. `README.md:182-183`:
  "reported as unenforced rather than silently satisfied."

Review
- `parse.go:119`: an open brace in the sentence before the object hides it. `parse.go:113-115`: the scan
  "handles every shape seen in practice". (`ObjectFound`, without `Legible`.)

## 8. Not modelled

- Two processes that update the quota record at once: `quota.go` takes no lock and promises nothing
  for that case, so every property would have to excuse it. The changelog of two pipelines, for
  the same reason.
- `git push` with its retries, `pull`, conflict resolution and branches: no caller in the program.
- `RunClaude`, `NoteCheckpoint`, `LoadCheckpoint` by id: they touch no state that a property is about.
- Configuration: layers of values that a library looks up, then range checks. The models take the
  settings as constants, over more values than the checks admit.
- Metrics: constructed and then called by nothing.
- Prompts, templates, the status report, logging, wiring: text and output.
- Writes of `BACKLOG.md` and `CURRENT.md` that are cut short, in `Executor`: they make the next read fail,
  which stops every run, until somebody mends the file; `Document` has the file itself. Nobody mends a
  torn changelog in `Executor` either.
- An editor that saves a whole file it opened before an update: what it undoes is the editor's doing.
- The wording of results, YAML and JSON as text, credential formats, costs and turn counts.

## 9. Plan

Order of work: the executor first, because it is where the durable state is; then the loop around
it, the stores beneath it, and the checks it relies on; then what is read back from it (`Recovery`),
what one of its steps hides (`Git`), and where its gates come from (`Detection`); then the proofs, in
the same order. That is done. What is left:

1. *Across modules.* That the task run which is one step of `Watch` is what `Executor` does between
   its selection and its end, as a refinement.
