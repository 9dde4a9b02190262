------------------------------- MODULE Watch -------------------------------
(***************************************************************************)
(* Continuous operation: App.Watch around RunLoop around RunNextTask       *)
(* (internal/app), with the usage-limit cooldown between them.  One        *)
(* process runs tasks, sleeps between passes over the backlog, waits out   *)
(* cooldowns, gives up after repeated failures, and is interrupted, killed *)
(* and started again, while people change the backlog and the tree and the *)
(* provider's limit comes and goes.                                        *)
(*                                                                         *)
(* A task's run is here one step that starts it and one that ends it, with *)
(* the outcomes the module Executor shows stage by stage.  Tasks are       *)
(* numbered in the order in which selectTask would pick them.  Time passes *)
(* in ticks at any moment.                                                 *)
(***************************************************************************)
EXTENDS Quota, FiniteSets

CONSTANTS
  Tasks,
  MaxTasks,         \* --max-tasks of a start without --watch, 0 for no bound
  Interval,         \* WatchOptions.Interval, in ticks
  MaxFailures,      \* WatchOptions.MaxConsecutiveFailures
  AutoCommit,       \* tasks.autoCommit
  FailuresLeave,    \* a failed run may leave Claude's edits in the tree
  None,
  \* Budgets of what the environment may do; they only bound the model.
  MaxFaults, MaxLimits, MaxStarts, MaxEdits, MaxReopens

ASSUME WatchAssumption ==
  /\ Tasks \subseteq Nat /\ None \notin Tasks
  /\ {AutoCommit, FailuresLeave} \subseteq BOOLEAN
  /\ MaxTasks \in Nat /\ Interval \in Nat /\ MaxFailures \in Nat \ {0}
  /\ {MaxFaults, MaxLimits, MaxStarts, MaxEdits, MaxReopens} \subseteq Nat

VARIABLES
  \* Durable.
  quota,      \* .ai/quota.json
  backlog,    \* BACKLOG.md; "absent" until someone writes the task down
  dirty,      \* the working tree holds uncommitted work
  \* Volatile: the watch, its RunLoop, the session manager.
  watching,   \* start --watch; otherwise one RunLoop
  pc, task,
  completed,  \* len(outcomes) of the current RunLoop
  failures,   \* consecutiveFailures
  last,       \* what DetectFailure says of the latest session
  err,        \* the error of the latest run, classified
  timer,      \* ticks until the current sleep ends
  cancelled,  \* the context was cancelled
  \* The world.
  limited,    \* the provider refuses calls
  idle,       \* passes that ended since a task last completed
  burnt,      \* tasks that met the limit since a cooldown was last recorded
  env         \* how much of each budget is spent

durable  == <<quota, backlog, dirty>>
volatile == <<pc, task, completed, failures, last, err, timer, cancelled>>
vars     == <<durable, watching, volatile, limited, idle, burnt, env>>

Status  == {"absent", "new", "in-progress", "blocked", "done"}
Failure == {"no-session", "none", "quota", "other"}
Error   == {"none", "no-work", "dirty", "failed", "limit", "cancelled"}
Labels  == {"pass", "await", "cooling", "ready", "running", "clear", "classify",
            "decide", "sleep", "stopped", "gave-up", "down"}
Ended   == {"stopped", "gave-up", "down"}
-----------------------------------------------------------------------------
IsOpenStatus(s) == s \notin {"absent", "done", "blocked"}
Open     == {t \in Tasks : IsOpenStatus(backlog[t])}
First(t) == \A u \in Open : t <= u

Spend(f, max) == env[f] < max /\ env' = [env EXCEPT ![f] = @ + 1]

At(l) == pc = l
Goto(l) == pc' = l /\ UNCHANGED <<task, completed, failures, last, err, timer, cancelled>>

\* RunNextTask or RunLoop returns e.
Return(e, l) == /\ pc' = l /\ err' = e /\ task' = None
                /\ UNCHANGED <<completed, failures, timer, cancelled>>

SameWorld == UNCHANGED <<watching, limited, idle, burnt>>
-----------------------------------------------------------------------------
\* Mutants: definitions as a plausible slip would have them.  No specification
\* uses them; each run substitutes one for the definition it is named after.

\* A task that was being worked on is open; the others wait for it.
StartTaskInTurn(t) ==
  /\ At("ready") /\ ~cancelled /\ ~dirty
  /\ t \in Open /\ \A u \in Tasks : u < t => backlog[u] \in {"absent", "done"}
  /\ backlog' = [backlog EXCEPT ![t] = "in-progress"]
  /\ pc' = "running" /\ task' = t
  /\ UNCHANGED <<quota, dirty, completed, failures, last, err, timer, cancelled, env>>
  /\ SameWorld

\* The wait is the configured cooldown, not what remains of the recorded one.
AwaitQuotaBase ==
  /\ At("await")
  /\ IF Available(quota)
     THEN Goto("ready")
     ELSE /\ pc' = "cooling" /\ timer' = BaseCooldown
          /\ UNCHANGED <<task, completed, failures, last, err, cancelled>>
  /\ SameWorld /\ UNCHANGED <<durable, env>>

\* A success leaves consecutiveFailures alone.
FailuresSoFarKept == failures

\* An error of the tree is waited out like a limit.
ToleratedDirty == {"none", "no-work", "limit", "dirty"}

\* A limit counts against the watch.
ToleratedNoLimit == {"none", "no-work"}

\* A bare time.Sleep: the interrupt waits for the timer.
WakeDeaf == /\ At("sleep") /\ timer = 0 /\ Goto("pass")
            /\ SameWorld /\ UNCHANGED <<durable, env>>
-----------------------------------------------------------------------------
Init ==
  /\ quota = Fresh
  /\ backlog \in [Tasks -> {"absent", "new"}]
  /\ dirty = FALSE
  /\ watching \in BOOLEAN /\ pc = "pass" /\ task = None /\ completed = 0 /\ failures = 0
  /\ last = "no-session" /\ err = "none" /\ timer = 0 /\ cancelled = FALSE
  /\ limited = FALSE /\ idle = 0 /\ burnt = 0
  /\ env = [faults |-> 0, limits |-> 0, starts |-> 0, edits |-> 0, reopens |-> 0]

\* The loop of a start without --watch has run --max-tasks tasks.
AllRun == ~watching /\ MaxTasks > 0 /\ completed >= MaxTasks

\* The head of RunLoop, and of Watch, which looks at the context just before.
NextTask ==
  /\ At("pass")
  /\ \/ cancelled /\ Return("cancelled", "decide") /\ UNCHANGED last
     \/ ~cancelled /\ AllRun /\ Return("none", "decide") /\ UNCHANGED last
     \/ ~cancelled /\ ~AllRun /\ Goto("await")
  /\ SameWorld /\ UNCHANGED <<durable, env>>

\* AwaitQuota: the length of the sleep is fixed by what quota.json says now.
AwaitQuota ==
  /\ At("await")
  /\ IF Available(quota)
     THEN Goto("ready")
     ELSE /\ pc' = "cooling" /\ timer' = quota.left
          /\ UNCHANGED <<task, completed, failures, last, err, cancelled>>
  /\ SameWorld /\ UNCHANGED <<durable, env>>

\* WaitUntilAvailable returns: the timer fired, or the context is done.
Cooled ==
  /\ At("cooling")
  /\ \/ timer = 0 /\ Goto("ready")
     \/ cancelled /\ Return("cancelled", "decide") /\ UNCHANGED last
  /\ SameWorld /\ UNCHANGED <<durable, env>>

\* No executor can be built; this error is not classified.
NoExecutor ==
  /\ At("ready") /\ Spend("faults", MaxFaults)
  /\ Return("failed", "decide")
  /\ SameWorld /\ UNCHANGED <<durable, last>>

\* RunNext returns before it has called Claude.
NothingStarts ==
  /\ At("ready")
  /\ \/ Open = {} /\ Return("no-work", "classify") /\ UNCHANGED env
     \/ Open # {} /\ cancelled /\ Return("cancelled", "classify") /\ UNCHANGED env
     \/ Open # {} /\ ~cancelled /\ dirty /\ Return("dirty", "classify") /\ UNCHANGED env
     \/ Spend("faults", MaxFaults) /\ Return("failed", "classify")
  /\ SameWorld /\ UNCHANGED <<durable, last>>

\* The first open task is marked in-progress and goes to Claude.
StartTask(t) ==
  /\ At("ready") /\ ~cancelled /\ ~dirty
  /\ t \in Open /\ First(t)
  /\ backlog' = [backlog EXCEPT ![t] = "in-progress"]
  /\ pc' = "running" /\ task' = t
  /\ UNCHANGED <<quota, dirty, completed, failures, last, err, timer, cancelled, env>>
  /\ SameWorld

Complete ==
  /\ At("running")
  /\ backlog' = [backlog EXCEPT ![task] = "done"]
  /\ dirty' \in IF AutoCommit THEN {FALSE} ELSE BOOLEAN
  /\ last' = "none" /\ pc' = "clear"
  /\ UNCHANGED <<quota, task, completed, failures, err, timer, cancelled, env>>
  /\ SameWorld

\* ClearQuota, whose failure is only logged, and RunLoop counts the task.
ClearQuota ==
  /\ At("clear")
  /\ \/ quota.exhausted /\ quota' = Clear(quota) /\ UNCHANGED env
     \/ ~quota.exhausted /\ UNCHANGED <<quota, env>>
     \/ quota.exhausted /\ Spend("faults", MaxFaults) /\ UNCHANGED quota
  /\ completed' = completed + 1 /\ idle' = 0
  /\ pc' = "pass" /\ task' = None
  /\ UNCHANGED <<backlog, dirty, failures, last, err, timer, cancelled, watching, limited, burnt>>

\* fail: the task is blocked, unless the write of the backlog fails as well.
Abort(failure) ==
  /\ At("running")
  /\ \/ backlog' = [backlog EXCEPT ![task] = "blocked"] /\ UNCHANGED env
     \/ Spend("faults", MaxFaults) /\ UNCHANGED backlog
  /\ dirty' \in IF FailuresLeave THEN BOOLEAN ELSE {dirty}
  /\ last' = failure
  /\ \E e \in {"failed"} \cup (IF cancelled THEN {"cancelled"} ELSE {}) : Return(e, "classify")
  /\ UNCHANGED <<quota, watching, limited, idle>>

HitLimit == limited /\ Abort("quota") /\ burnt' = burnt + 1
FailTask == \E f \in {"none", "other"} : Abort(f) /\ UNCHANGED burnt

\* Mutant: a limit that is on record is not recorded again.
EnterQuotaCooldownOnce == IF quota.exhausted THEN UNCHANGED <<quota, burnt, env>>
                          ELSE quota' = RecordExhaustion(quota) /\ burnt' = 0 /\ UNCHANGED env

\* It is called with no state to checkpoint, and its own failure is only logged.
EnterQuotaCooldown == \/ quota' = RecordExhaustion(quota) /\ burnt' = 0 /\ UNCHANGED env
                      \/ Spend("faults", MaxFaults) /\ UNCHANGED <<quota, burnt>>

\* classifyRunError: DetectFailure speaks of the latest session, whichever run
\* that belonged to.
Classify ==
  /\ At("classify")
  /\ \/ last # "quota" /\ UNCHANGED <<quota, err, burnt, env>>
     \/ last = "quota" /\ err' = "limit" /\ EnterQuotaCooldown
  /\ pc' = "decide"
  /\ UNCHANGED <<backlog, dirty, task, completed, failures, last, timer, cancelled>>
  /\ UNCHANGED <<watching, limited, idle>>

\* The process ends; what it held in memory is gone.
Stop(l) ==
  /\ pc' = l /\ task' = None /\ completed' = 0 /\ failures' = 0
  /\ last' = "no-session" /\ err' = "none" /\ timer' = 0 /\ cancelled' = FALSE

SleepWith(f) ==
  /\ pc' = "sleep" /\ timer' = Interval /\ failures' = f
  /\ err' = "none" /\ completed' = 0 /\ UNCHANGED <<task, last, cancelled>>

\* consecutiveFailures as Watch resets it before it looks at the error.
FailuresSoFar == IF completed > 0 THEN 0 ELSE failures

Tolerated == {"none", "no-work", "limit"}

Decide ==
  /\ At("decide")
  /\ \/ ~watching /\ Stop("stopped")
     \/ watching /\ err \in Tolerated /\ SleepWith(FailuresSoFar)
     \/ watching /\ err = "cancelled" /\ Stop("stopped")
     \/ watching /\ err \notin Tolerated \cup {"cancelled"}
        /\ IF FailuresSoFar + 1 < MaxFailures THEN SleepWith(FailuresSoFar + 1) ELSE Stop("gave-up")
  /\ idle' = IF idle < MaxFailures THEN idle + 1 ELSE idle
  /\ UNCHANGED <<durable, watching, limited, burnt, env>>

Wake ==
  /\ At("sleep")
  /\ \/ timer = 0 /\ Goto("pass")
     \/ cancelled /\ Stop("stopped")
  /\ SameWorld /\ UNCHANGED <<durable, env>>
-----------------------------------------------------------------------------
\* The operator and the world.

Cancel ==
  /\ pc \notin Ended /\ ~cancelled
  /\ cancelled' = TRUE
  /\ UNCHANGED <<durable, pc, task, completed, failures, last, err, timer, env>> /\ SameWorld

Crash == /\ pc \notin Ended /\ Stop("down")
         /\ SameWorld /\ UNCHANGED <<durable, env>>

Restart == /\ pc \in Ended /\ Spend("starts", MaxStarts)
           /\ watching' \in BOOLEAN /\ Goto("pass")
           /\ idle' = 0 /\ UNCHANGED <<durable, limited, burnt>>

Tick == /\ quota.left > 0 \/ timer > 0
        /\ quota' = Elapse(quota)
        /\ timer' = IF timer > 0 THEN timer - 1 ELSE 0
        /\ UNCHANGED <<backlog, dirty, pc, task, completed, failures, last, err, cancelled, env>>
        /\ SameWorld

\* leadengineer quota clear, from another process.
OperatorClears == /\ ~Available(quota)
                  /\ quota' = Clear(quota)
                  /\ UNCHANGED <<backlog, dirty, volatile, env>> /\ SameWorld

LimitBegins == /\ ~limited /\ Spend("limits", MaxLimits) /\ limited' = TRUE
               /\ UNCHANGED <<durable, watching, volatile, idle, burnt>>

LimitLifts == /\ limited /\ limited' = FALSE
              /\ UNCHANGED <<durable, watching, volatile, idle, burnt, env>>

\* Someone writes a task down, or sets a blocked one back to new.
HumanAdds(t) == /\ \/ backlog[t] = "absent" /\ UNCHANGED env
                   \/ backlog[t] = "blocked" /\ Spend("reopens", MaxReopens)
                /\ backlog' = [backlog EXCEPT ![t] = "new"]
                /\ UNCHANGED <<quota, dirty, volatile>> /\ SameWorld

\* Someone edits the tree, or commits or discards what is in it.
HumanEdits == /\ ~dirty /\ Spend("edits", MaxEdits) /\ dirty' = TRUE
              /\ UNCHANGED <<quota, backlog, volatile>> /\ SameWorld

HumanTidies == /\ dirty /\ pc # "running" /\ dirty' = FALSE
               /\ UNCHANGED <<quota, backlog, volatile, env>> /\ SameWorld

Work    == \/ NoExecutor \/ NothingStarts \/ Complete \/ ClearQuota \/ HitLimit \/ FailTask
           \/ \E t \in Tasks : StartTask(t)
Process == NextTask \/ AwaitQuota \/ Cooled \/ Work \/ Classify \/ Decide \/ Wake
World  == Cancel \/ Crash \/ Restart \/ OperatorClears \/ LimitBegins \/ LimitLifts
People  == HumanEdits \/ HumanTidies \/ \E t \in Tasks : HumanAdds(t)

Next == Process \/ Tick \/ World \/ People
Spec == Init /\ [][Next]_vars

\* The process keeps running: Claude sessions, gates and git end by themselves or
\* by their timeout.  Nothing is assumed of time, of people or of the provider.
ProcessSpec == Spec /\ WF_vars(Process)

\* The same, and time passes.
FairSpec == ProcessSpec /\ WF_vars(Tick)
-----------------------------------------------------------------------------
BackgroundOK == /\ quota \in States /\ backlog \in [Tasks -> Status] /\ dirty \in BOOLEAN
                /\ limited \in BOOLEAN /\ idle \in 0..MaxFailures /\ burnt \in Nat
                /\ env \in [{"faults", "limits", "starts", "edits", "reopens"} -> Nat]

LoopOK == /\ watching \in BOOLEAN /\ pc \in Labels /\ task \in Tasks \cup {None}
          /\ completed \in Nat /\ failures \in 0..(MaxFailures - 1)
          /\ last \in Failure /\ err \in Error /\ timer \in Nat /\ cancelled \in BOOLEAN

\* Types; a watch that is still running has failed fewer than MaxFailures times.
TypeOK == BackgroundOK /\ LoopOK

\* A usage limit is a schedule to obey: no task is handed to Claude before the
\* cooldown in quota.json has passed, whichever process recorded it and however
\* often the watch was interrupted, killed and started again in between.
CooldownObeyed == [][pc # "running" /\ pc' = "running" => Available(quota)]_vars

\* A further hit waits longer than the hit before it, until the cap is reached
\* (where the configured cooldown is not above the cap to begin with).
EachHitWaitsLonger ==
  [][BaseCooldown <= MaxCooldown /\ quota.hits > 0 /\ quota'.hits > quota.hits =>
       \/ quota'.left > Wait[quota.hits]
       \/ quota'.left = Wait[quota.hits] /\ quota'.left = MaxCooldown]_vars

\* A task that meets the limit is marked blocked before anybody knows that it was the
\* limit, and is lost to the watch; so the next one must not be tried until a cooldown
\* is on record: one limit takes one task (and one more for every write that fails, and
\* every process that dies and is started again before it has recorded the limit).
OneTaskPerCooldown == burnt <= 1 + env.faults + env.starts

\* The watch gives up only after MaxFailures passes in which nothing completed.
GaveUpJustified == pc = "gave-up" => idle >= MaxFailures

\* One bad task does not stop the watch: when it gives up, at least MaxFailures
\* tasks have been tried and blocked (where what is done is committed, failed runs
\* leave the tree as it was, nobody dirties it or reopens a task, and no I/O fails).
OneBadTaskDoesNotStop ==
  /\ pc = "gave-up"
  /\ AutoCommit /\ ~FailuresLeave /\ env.edits = 0 /\ env.reopens = 0 /\ env.faults = 0
  => Cardinality({t \in Tasks : backlog[t] = "blocked"}) >= MaxFailures

\* A cooldown is recorded for a call that Claude refused, never for a pass that
\* made no call.
CooldownNeedsACall == [][quota'.hits > quota.hits => err \notin {"no-work", "dirty"}]_vars

\* The interrupt ends the process from wherever it is, without any sleep or
\* cooldown having to run out first.
InterruptEnds == cancelled ~> pc \in Ended

\* What no retry will clear ends the watch: with work to do and a tree that stays
\* dirty it does not go on for ever (where no usage limit has been met).
SystemicFailureStops == <>[](dirty /\ Open # {} /\ env.limits = 0) => []<>(pc \in Ended)

\* A new task is tried, or the process is no longer running, or it keeps taking a
\* tree that stays dirty for the usage limit it once met.
TaskServed ==
  \A t \in Tasks : backlog[t] = "new" ~>
    \/ backlog[t] # "new" \/ pc \in Ended
    \/ dirty /\ env.limits > 0
=============================================================================
