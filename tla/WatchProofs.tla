---------------------------- MODULE WatchProofs ----------------------------
(***************************************************************************)
(* For every number of tasks, every cooldown and every limit on failures:  *)
(* the watch obeys a recorded cooldown, and each further limit waits       *)
(* longer; a usage limit takes one task before the watch waits for it; and *)
(* the watch gives up only when nothing has completed for as many passes   *)
(* as it is configured to bear, which one bad task cannot bring about.     *)
(* An interrupted watch, and one that has work and a tree that stays       *)
(* dirty, have a bounded number of steps left in them.                     *)
(***************************************************************************)
EXTENDS Watch, TLAPS, FiniteSetTheorems, WellFoundedInduction
-----------------------------------------------------------------------------
\* The sleep in progress ends together with the recorded cooldown, unless an
\* operator has cleared that, and the process is ready only when nothing is left.
Awake == /\ pc = "cooling" => ~quota.exhausted \/ quota.left = timer
         /\ pc = "ready" => Available(quota)

\* Steps after which the process is neither cooling nor ready.
Elsewhere == pc' \notin {"cooling", "ready"}

\* Steps that touch neither the quota, nor the sleep, nor the place.
Calm == quota' = quota /\ timer' = timer /\ pc' = pc

LEMMA ElsewhereIsAwake == Elsewhere => Awake'
  BY DEF Elsewhere, Awake

LEMMA CalmKeepsAwake == Awake /\ Calm => Awake'
  BY DEF Awake, Calm, Available

\* The steps of the process.
LEMMA ProcessKeepsAwake == Awake /\ Process => Awake'
<1> SUFFICES ASSUME Awake, Process PROVE Awake'
  OBVIOUS
<1>1. CASE NextTask
  BY <1>1, ElsewhereIsAwake DEF NextTask, Return, Goto, Elsewhere
<1>2. CASE AwaitQuota
  BY <1>2 DEF AwaitQuota, Goto, durable, Awake, Available
<1>3. CASE Cooled
  <2>1. CASE timer = 0 /\ Goto("ready")
    <3>1. pc = "cooling" /\ pc' = "ready" /\ quota' = quota
      BY <1>3, <2>1 DEF Cooled, Goto, At, durable
    <3>2. Available(quota)
      BY <2>1, <3>1 DEF Awake, Available
    <3> QED BY <3>1, <3>2 DEF Awake, Available
  <2>2. CASE Return("cancelled", "decide")
    BY <2>2, ElsewhereIsAwake DEF Return, Elsewhere
  <2> QED BY <1>3, <2>1, <2>2 DEF Cooled
<1>4. CASE Work
  <2>1. Elsewhere
    BY <1>4 DEF Work, NoExecutor, NothingStarts, Complete, ClearQuota, HitLimit, FailTask, Abort,
                StartTask, Return, Elsewhere
  <2> QED BY <2>1, ElsewhereIsAwake
<1>5. CASE Classify
  BY <1>5, ElsewhereIsAwake DEF Classify, Elsewhere
<1>6. CASE Decide
  BY <1>6, ElsewhereIsAwake DEF Decide, Stop, SleepWith, Elsewhere
<1>7. CASE Wake
  BY <1>7, ElsewhereIsAwake DEF Wake, Goto, Stop, Elsewhere
<1> QED BY <1>1, <1>2, <1>3, <1>4, <1>5, <1>6, <1>7 DEF Process

\* Time shortens both by the same; an operator may only clear the cooldown.
LEMMA OthersKeepAwake == Awake /\ (Tick \/ World \/ People) => Awake'
<1> SUFFICES ASSUME Awake, Tick \/ World \/ People PROVE Awake'
  OBVIOUS
<1>1. CASE Tick
  <2>1. /\ pc' = pc /\ quota'.exhausted = quota.exhausted
        /\ quota'.left = IF quota.left > 0 THEN quota.left - 1 ELSE 0
        /\ timer' = IF timer > 0 THEN timer - 1 ELSE 0
    BY <1>1 DEF Tick, Elapse
  <2>2. Available(quota) => Available(quota')
    BY <2>1 DEF Available
  <2> QED BY <2>1, <2>2 DEF Awake
<1>2. CASE World
  <2>1. CASE Cancel \/ LimitBegins \/ LimitLifts
    BY <2>1, CalmKeepsAwake DEF Cancel, LimitBegins, LimitLifts, Calm, durable, volatile
  <2>2. CASE Crash \/ Restart
    BY <2>2, ElsewhereIsAwake DEF Crash, Restart, Stop, Goto, Elsewhere
  <2>3. CASE OperatorClears
    BY <2>3 DEF OperatorClears, Clear, Fresh, volatile, Awake, Available
  <2> QED BY <1>2, <2>1, <2>2, <2>3 DEF World
<1>3. CASE People
  BY <1>3, CalmKeepsAwake DEF People, HumanEdits, HumanTidies, HumanAdds, Calm, volatile
<1> QED BY <1>1, <1>2, <1>3

LEMMA AwakeInvariant == Spec => []Awake
<1>1. Init => Awake
  BY DEF Init, Awake
<1>2. Awake /\ [Next]_vars => Awake'
  <2>1. Awake /\ UNCHANGED vars => Awake'
    BY CalmKeepsAwake DEF vars, durable, volatile, Calm
  <2> QED BY <2>1, ProcessKeepsAwake, OthersKeepAwake DEF Next
<1> QED BY <1>1, <1>2, PTL DEF Spec

\* App.Watch, AwaitQuota and WaitUntilAvailable: no task is handed to Claude before
\* the cooldown in quota.json has passed or been cleared, through any sequence of
\* interrupts, crashes and restarts.
THEOREM ObeysCooldown == Spec => CooldownObeyed
<1>1. Awake /\ [Next]_vars => [pc # "running" /\ pc' = "running" => Available(quota)]_vars
  <2> SUFFICES ASSUME Awake, Next, pc # "running", pc' = "running"
               PROVE  Available(quota)
    OBVIOUS
  <2>1. PICK t \in Tasks : StartTask(t)
    <3>1. CASE Process
      <4>1. ~(NextTask \/ AwaitQuota \/ Cooled \/ Classify \/ Decide \/ Wake)
        BY DEF NextTask, AwaitQuota, Cooled, Classify, Decide, Wake, Return, Goto, Stop, SleepWith
      <4>2. ~(NoExecutor \/ NothingStarts \/ Complete \/ ClearQuota \/ HitLimit \/ FailTask)
        BY DEF NoExecutor, NothingStarts, Complete, ClearQuota, HitLimit, FailTask, Abort, Return
      <4> QED BY <3>1, <4>1, <4>2 DEF Process, Work
    <3>2. CASE Tick \/ World \/ People
      BY <3>2 DEF Tick, World, Cancel, Crash, Restart, OperatorClears, LimitBegins, LimitLifts,
                  People, HumanEdits, HumanTidies, HumanAdds, Stop, Goto, volatile
    <3> QED BY <3>1, <3>2 DEF Next
  <2> QED BY <2>1 DEF StartTask, At, Awake
<1> QED BY <1>1, AwakeInvariant, PTL DEF Spec, CooldownObeyed
-----------------------------------------------------------------------------
Counters == failures \in Nat /\ idle \in Nat /\ completed \in Nat

\* The watch never counts more failures than passes went by without a completed
\* task.  A pass that completed one starts the count again, so there the two need
\* not agree until the pass is over.
Patience == /\ Counters
            /\ failures < MaxFailures /\ idle <= MaxFailures
            /\ completed = 0 => failures <= idle
            /\ pc \in Ended => failures = 0 /\ completed = 0
            /\ pc = "gave-up" => idle = MaxFailures

\* Steps that leave the counters alone and do not end the process.
Uncounted == /\ failures' = failures /\ idle' = idle /\ completed' = completed
             /\ pc' \in Ended => pc' = pc

\* The process ends for another reason than too many failures.
Leaves == /\ failures' = 0 /\ completed' = 0 /\ idle' = idle
          /\ pc' \in {"stopped", "down"}

LEMMA UncountedKeepsPatience == Patience /\ Uncounted => Patience'
  BY DEF Patience, Counters, Uncounted, Ended

LEMMA LeavingKeepsPatience == Patience /\ Leaves => Patience'
  BY WatchAssumption DEF Patience, Counters, Leaves, Ended

\* The one place where passes and failures are counted.
LEMMA DecideKeepsPatience == Patience /\ Decide => Patience'
<1> SUFFICES ASSUME Patience, Decide PROVE Patience'
  OBVIOUS
<1> DEFINE F == FailuresSoFar
<1>1. MaxFailures \in Nat /\ MaxFailures > 0
  BY WatchAssumption
<1>2. F \in Nat /\ F <= idle /\ F < MaxFailures
  BY <1>1 DEF FailuresSoFar, Patience, Counters
<1>3. idle' = IF idle < MaxFailures THEN idle + 1 ELSE idle
  BY DEF Decide
<1>4. idle' \in Nat /\ idle' <= MaxFailures /\ F <= idle'
  BY <1>1, <1>2, <1>3 DEF Patience, Counters
<1>5. F + 1 <= idle'
  BY <1>1, <1>2, <1>3 DEF Patience, Counters
<1>6. ASSUME NEW f \in Nat, f <= idle', f < MaxFailures, SleepWith(f) PROVE Patience'
  BY <1>1, <1>4, <1>6 DEF SleepWith, Patience, Counters, Ended
<1>7. CASE Stop("stopped")
  BY <1>1, <1>4, <1>7 DEF Stop, Patience, Counters, Ended
<1>8. CASE Stop("gave-up") /\ ~(F + 1 < MaxFailures)
  <2>1. idle' = MaxFailures
    BY <1>1, <1>2, <1>4, <1>5, <1>8
  <2> QED BY <1>1, <1>8, <2>1 DEF Stop, Patience, Counters, Ended
<1>9. CASE SleepWith(F)
  BY <1>2, <1>4, <1>6, <1>9
<1>10. CASE SleepWith(F + 1) /\ F + 1 < MaxFailures
  BY <1>2, <1>5, <1>6, <1>10
<1> HIDE DEF F
<1>11. \/ Stop("stopped") \/ SleepWith(F)
       \/ SleepWith(F + 1) /\ F + 1 < MaxFailures
       \/ Stop("gave-up") /\ ~(F + 1 < MaxFailures)
  BY DEF Decide, F
<1> QED BY <1>7, <1>8, <1>9, <1>10, <1>11

LEMMA ProcessKeepsPatience == Patience /\ Process => Patience'
<1> SUFFICES ASSUME Patience, Process PROVE Patience'
  OBVIOUS
<1>1. CASE NextTask \/ AwaitQuota \/ Cooled \/ Classify
  BY <1>1, UncountedKeepsPatience
     DEF NextTask, AwaitQuota, Cooled, Classify, Return, Goto, SameWorld, Uncounted, Ended
<1>2. CASE ClearQuota
  BY <1>2, WatchAssumption DEF ClearQuota, Patience, Counters, Ended
<1>3. CASE Work /\ ~ClearQuota
  BY <1>3, UncountedKeepsPatience
     DEF Work, NoExecutor, NothingStarts, Complete, HitLimit, FailTask, Abort, StartTask, Return,
         SameWorld, Uncounted, Ended
<1>4. CASE Wake
  BY <1>4, UncountedKeepsPatience, LeavingKeepsPatience
     DEF Wake, Goto, Stop, SameWorld, Uncounted, Leaves, Ended
<1> QED BY <1>1, <1>2, <1>3, <1>4, DecideKeepsPatience DEF Process

LEMMA OthersKeepPatience == Patience /\ (Tick \/ World \/ People) => Patience'
<1> SUFFICES ASSUME Patience, Tick \/ World \/ People PROVE Patience'
  OBVIOUS
<1>1. CASE Crash
  BY <1>1, LeavingKeepsPatience DEF Crash, Stop, SameWorld, Leaves
<1>2. CASE Restart
  BY <1>2, WatchAssumption DEF Restart, Goto, Patience, Counters, Ended
<1>3. CASE Tick \/ Cancel \/ OperatorClears \/ LimitBegins \/ LimitLifts \/ People
  BY <1>3, UncountedKeepsPatience
     DEF Tick, Cancel, OperatorClears, LimitBegins, LimitLifts, People, HumanEdits, HumanTidies,
         HumanAdds, SameWorld, volatile, Uncounted
<1> QED BY <1>1, <1>2, <1>3 DEF World

LEMMA PatienceInvariant == Spec => []Patience
<1>1. Init => Patience
  BY WatchAssumption DEF Init, Patience, Counters, Ended
<1>2. Patience /\ [Next]_vars => Patience'
  <2>1. Patience /\ UNCHANGED vars => Patience'
    BY UncountedKeepsPatience DEF vars, volatile, Uncounted
  <2> QED BY <2>1, ProcessKeepsPatience, OthersKeepPatience DEF Next
<1> QED BY <1>1, <1>2, PTL DEF Spec

\* App.Watch: it stops for too many failures only after MaxConsecutiveFailures passes
\* over the backlog in a row in which no task completed.
THEOREM GivesUpOnlyWithoutProgress == Spec => []GaveUpJustified
<1>1. Patience => GaveUpJustified
  BY WatchAssumption DEF Patience, Counters, GaveUpJustified
<1> QED BY <1>1, PatienceInvariant, PTL
-----------------------------------------------------------------------------
Kinds     == {"faults", "limits", "starts", "edits", "reopens"}
BudgetsOK == env \in [Kinds -> Nat] /\ burnt \in Nat

\* A limit that has been met and that the process may still record; or the process
\* has ended, and whoever starts it again pays for what it did not record.
Pending == (pc = "classify" /\ last = "quota") \/ pc \in Ended

\* The tasks that no recorded cooldown answers for, and what accounts for them.
Accounted == /\ BudgetsOK
             /\ burnt <= 1 + env.faults + env.starts
             /\ ~Pending => burnt <= env.faults + env.starts

\* Steps that spend nothing but a budget, if that, and meet no limit.
Spared == /\ burnt' = burnt
          /\ \/ env' = env
             \/ \E k \in Kinds : env' = [env EXCEPT ![k] = @ + 1]
          /\ Pending => Pending'

LEMMA BudgetsGrow ==
  ASSUME BudgetsOK, NEW k \in Kinds, env' = [env EXCEPT ![k] = @ + 1]
  PROVE  /\ env' \in [Kinds -> Nat]
         /\ env'.faults >= env.faults /\ env'.starts >= env.starts
         /\ k = "faults" => env'.faults = env.faults + 1
         /\ k = "starts" => env'.starts = env.starts + 1
  BY DEF BudgetsOK, Kinds

LEMMA SparedKeepsAccount == Accounted /\ Spared => Accounted'
<1> SUFFICES ASSUME Accounted, Spared PROVE Accounted'
  OBVIOUS
<1>1. env' \in [Kinds -> Nat] /\ env'.faults >= env.faults /\ env'.starts >= env.starts
  <2>1. CASE env' = env
    BY <2>1 DEF Accounted, BudgetsOK, Kinds
  <2>2. CASE \E k \in Kinds : env' = [env EXCEPT ![k] = @ + 1]
    BY <2>2, BudgetsGrow DEF Accounted
  <2> QED BY <2>1, <2>2 DEF Spared
<1>2. /\ env.faults \in Nat /\ env.starts \in Nat
      /\ env'.faults \in Nat /\ env'.starts \in Nat /\ burnt \in Nat
  BY <1>1 DEF Accounted, BudgetsOK, Kinds
<1> QED BY <1>1, <1>2 DEF Accounted, BudgetsOK, Spared

\* A limit is met, where no earlier one is pending; classifyRunError comes next.
LEMMA HitIsAccounted == Accounted /\ HitLimit => Accounted'
<1> SUFFICES ASSUME Accounted, HitLimit PROVE Accounted'
  OBVIOUS
<1>1. ~Pending /\ Pending' /\ burnt' = burnt + 1
  BY DEF HitLimit, Abort, Return, At, Pending, Ended
<1>2. env' \in [Kinds -> Nat] /\ env'.faults >= env.faults /\ env'.starts >= env.starts
  <2>1. CASE env' = env
    BY <2>1 DEF Accounted, BudgetsOK, Kinds
  <2>2. CASE env' = [env EXCEPT !["faults"] = @ + 1]
    BY <2>2, BudgetsGrow DEF Accounted, Kinds
  <2> QED BY <2>1, <2>2 DEF HitLimit, Abort, Spend
<1>3. /\ env.faults \in Nat /\ env.starts \in Nat
      /\ env'.faults \in Nat /\ env'.starts \in Nat /\ burnt \in Nat
  BY <1>2 DEF Accounted, BudgetsOK, Kinds
<1> QED BY <1>1, <1>2, <1>3 DEF Accounted, BudgetsOK

\* The limit is recorded, or the write of the record fails.
LEMMA ClassifyIsAccounted == Accounted /\ Classify => Accounted'
<1> SUFFICES ASSUME Accounted, Classify PROVE Accounted'
  OBVIOUS
<1>1. CASE last # "quota"
  BY <1>1, SparedKeepsAccount DEF Classify, At, Spared, Pending, Ended
<1>2. CASE burnt' = 0 /\ env' = env
  BY <1>2 DEF Accounted, BudgetsOK, Kinds
<1>3. CASE burnt' = burnt /\ env' = [env EXCEPT !["faults"] = @ + 1]
  <2>1. /\ env' \in [Kinds -> Nat]
        /\ env'.faults = env.faults + 1 /\ env'.starts >= env.starts
    BY <1>3, BudgetsGrow DEF Accounted, Kinds
  <2>2. env.faults \in Nat /\ env.starts \in Nat /\ env'.starts \in Nat /\ burnt \in Nat
    BY <2>1 DEF Accounted, BudgetsOK, Kinds
  <2> QED BY <1>3, <2>1, <2>2 DEF Accounted, BudgetsOK
<1> QED BY <1>1, <1>2, <1>3 DEF Classify, EnterQuotaCooldown, Spend

LEMMA ProcessIsAccounted == Accounted /\ Process => Accounted'
<1> SUFFICES ASSUME Accounted, Process PROVE Accounted'
  OBVIOUS
<1>1. CASE NextTask \/ AwaitQuota \/ Cooled \/ Wake
  BY <1>1, SparedKeepsAccount
     DEF NextTask, AwaitQuota, Cooled, Wake, Return, Goto, Stop, At, SameWorld, Spared, Pending, Ended
<1>2. CASE Work /\ ~HitLimit
  <2>1. Spared
    BY <1>2 DEF Work, NoExecutor, NothingStarts, Complete, ClearQuota, FailTask, Abort, StartTask,
                Return, At, Spend, SameWorld, Spared, Pending, Ended, Kinds
  <2> QED BY <2>1, SparedKeepsAccount
<1>3. CASE Decide
  BY <1>3, SparedKeepsAccount DEF Decide, At, Spared, Pending, Ended
<1> QED BY <1>1, <1>2, <1>3, HitIsAccounted, ClassifyIsAccounted DEF Process, Work

LEMMA OthersAreAccounted == Accounted /\ (Tick \/ World \/ People) => Accounted'
<1> SUFFICES ASSUME Accounted, Tick \/ World \/ People PROVE Accounted'
  OBVIOUS
<1>1. CASE Restart
  <2>1. burnt' = burnt /\ env' = [env EXCEPT !["starts"] = @ + 1]
    BY <1>1 DEF Restart, Spend
  <2>2. /\ env' \in [Kinds -> Nat]
        /\ env'.starts = env.starts + 1 /\ env'.faults >= env.faults
    BY <2>1, BudgetsGrow DEF Accounted, Kinds
  <2>3. env.faults \in Nat /\ env.starts \in Nat /\ env'.faults \in Nat /\ burnt \in Nat
    BY <2>2 DEF Accounted, BudgetsOK, Kinds
  <2> QED BY <2>1, <2>2, <2>3 DEF Accounted, BudgetsOK
<1>2. CASE Crash
  BY <1>2, SparedKeepsAccount DEF Crash, Stop, SameWorld, Spared, Pending, Ended
<1>3. CASE Tick \/ Cancel \/ OperatorClears \/ LimitBegins \/ LimitLifts
  BY <1>3, SparedKeepsAccount
     DEF Tick, Cancel, OperatorClears, LimitBegins, LimitLifts, SameWorld, volatile, Spend, Spared,
         Pending, Kinds
<1>4. CASE People
  BY <1>4, SparedKeepsAccount
     DEF People, HumanEdits, HumanTidies, HumanAdds, SameWorld, volatile, Spend, Spared, Pending, Kinds
<1> QED BY <1>1, <1>2, <1>3, <1>4 DEF World

LEMMA AccountInvariant == Spec => []Accounted
<1>1. Init => Accounted
  BY DEF Init, Accounted, BudgetsOK, Kinds
<1>2. Accounted /\ [Next]_vars => Accounted'
  <2>1. Accounted /\ UNCHANGED vars => Accounted'
    BY DEF vars, volatile, Accounted, BudgetsOK, Pending
  <2> QED BY <2>1, ProcessIsAccounted, OthersAreAccounted DEF Next
<1> QED BY <1>1, <1>2, PTL DEF Spec

\* Executor.fail and App.classifyRunError: a usage limit takes at most one task before a
\* cooldown is on record, for every backlog and every sequence of limits; each further
\* one is paid for by a write that failed or a process that had to be started again.
THEOREM LimitTakesOneTask == Spec => []OneTaskPerCooldown
<1>1. Accounted => OneTaskPerCooldown
  BY DEF Accounted, OneTaskPerCooldown
<1> QED BY <1>1, AccountInvariant, PTL
-----------------------------------------------------------------------------
Blocked == {t \in Tasks : backlog[t] = "blocked"}

\* Nothing but the tasks themselves has made a pass fail so far.
Untroubled == /\ AutoCommit /\ ~FailuresLeave
              /\ env.edits = 0 /\ env.reopens = 0 /\ env.faults = 0

\* The run that is ending has failed, and Watch has not counted it yet.
Ending     == pc \in {"classify", "decide"}
Uncounting == Ending /\ err = "failed"

\* The task at work is marked so, and nobody else changes its mark.
Marked == /\ backlog \in [Tasks -> Status] /\ err \in Error
          /\ pc = "running" => task \in Tasks /\ backlog[task] = "in-progress"

\* Each failure that the watch has counted left a blocked task of its own behind.
Blamed == /\ IsFiniteSet(Blocked)
          /\ Untroubled =>
               /\ dirty = FALSE
               /\ Ending => err # "dirty"
               /\ failures + (IF Uncounting THEN 1 ELSE 0) <= Cardinality(Blocked)
               /\ pc = "gave-up" => Cardinality(Blocked) >= MaxFailures

LEMMA MarkedInvariant == Spec => []Marked
<1> USE DEF Marked, Status, Error
<1>1. Init => Marked
  BY DEF Init
<1>2. Marked /\ NextTask => Marked'
  BY DEF NextTask, Return, Goto, durable
<1>3. Marked /\ (AwaitQuota \/ Cooled \/ Wake) => Marked'
  BY DEF AwaitQuota, Cooled, Wake, Return, Goto, Stop, durable
<1>4. Marked /\ (NoExecutor \/ NothingStarts \/ ClearQuota) => Marked'
  BY DEF NoExecutor, NothingStarts, ClearQuota, Return, durable
<1>5. ASSUME Marked, NEW t \in Tasks, StartTask(t) PROVE Marked'
  BY <1>5 DEF StartTask
<1>6. Marked /\ Complete => Marked'
  BY DEF Complete, At
<1>7. ASSUME Marked, NEW f, Abort(f) PROVE Marked'
  BY <1>7 DEF Abort, Return, At
<1>8. Marked /\ (Classify \/ Decide) => Marked'
  BY DEF Classify, Decide, SleepWith, Stop, durable
<1>9. Marked /\ Process => Marked'
  BY <1>2, <1>3, <1>4, <1>5, <1>6, <1>7, <1>8 DEF Process, Work, HitLimit, FailTask
<1>10. Marked /\ (Tick \/ World) => Marked'
  BY DEF Tick, World, Cancel, Crash, Restart, OperatorClears, LimitBegins, LimitLifts, Goto, Stop,
         durable, volatile
<1>11. ASSUME Marked, NEW t \in Tasks, HumanAdds(t) PROVE Marked'
  BY <1>11 DEF HumanAdds, volatile
<1>12. Marked /\ (HumanEdits \/ HumanTidies) => Marked'
  BY DEF HumanEdits, HumanTidies, volatile
<1>13. Marked /\ UNCHANGED vars => Marked'
  BY DEF vars, durable, volatile
<1>14. Marked /\ [Next]_vars => Marked'
  BY <1>9, <1>10, <1>11, <1>12, <1>13 DEF Next, People
<1> QED BY <1>1, <1>14, PTL DEF Spec

\* A budget that is spent stays spent.
Budgeted == env' = env \/ \E k \in Kinds : env' = [env EXCEPT ![k] = @ + 1]

LEMMA TroubleStays == ASSUME BudgetsOK, Budgeted PROVE Untroubled' => Untroubled
  BY DEF BudgetsOK, Budgeted, Kinds, Untroubled

LEMMA TroubleBegins ==
  ASSUME BudgetsOK, NEW k \in {"edits", "reopens", "faults"}, env' = [env EXCEPT ![k] = @ + 1]
  PROVE  ~Untroubled'
  BY DEF BudgetsOK, Kinds, Untroubled

\* Steps that block nothing and count nothing.
Harmless == /\ Budgeted /\ Blocked' = Blocked
            /\ failures' = failures \/ failures' = 0
            /\ Untroubled' => dirty' = dirty \/ dirty' = FALSE
            /\ Ending' => (Ending /\ err' = err) \/ err' \notin {"failed", "dirty"}
            /\ pc' = "gave-up" => pc = "gave-up"

LEMMA HarmlessKeepsBlame ==
  ASSUME Blamed, BudgetsOK, failures \in Nat, Harmless
  PROVE  Blamed'
<1>1. Untroubled' => Untroubled
  BY TroubleStays DEF Harmless
<1>2. IsFiniteSet(Blocked) /\ IsFiniteSet(Blocked')
  BY DEF Blamed, Harmless
<1>3. Cardinality(Blocked) \in Nat /\ Cardinality(Blocked)' = Cardinality(Blocked)
  BY <1>2, FS_CardinalityType DEF Harmless
<1>4. Uncounting' => Uncounting
  BY DEF Uncounting, Harmless
<1>5. ASSUME Untroubled'
      PROVE  /\ (dirty = FALSE)' /\ (Ending => err # "dirty")'
             /\ (pc = "gave-up" => Cardinality(Blocked) >= MaxFailures)'
  BY <1>1, <1>3, <1>5 DEF Blamed, Harmless
<1>6. ASSUME Untroubled' PROVE (failures + (IF Uncounting THEN 1 ELSE 0) <= Cardinality(Blocked))'
  BY <1>1, <1>3, <1>4, <1>6 DEF Blamed, Harmless
<1> QED BY <1>2, <1>5, <1>6 DEF Blamed

\* Steps that get the watch into trouble of another kind.
LEMMA TroubledKeepsBlame ==
  ASSUME Blamed, ~Untroubled', NEW t, Blocked' \subseteq Blocked \cup {t}
  PROVE  Blamed'
<1>1. IsFiniteSet(Blocked \cup {t})
  BY FS_AddElement DEF Blamed
<1>2. IsFiniteSet(Blocked')
  BY <1>1, FS_Subset
<1> QED BY <1>2 DEF Blamed

\* fail: the task that was at work is blocked, and the run has failed.
LEMMA AbortKeepsBlame ==
  ASSUME Blamed, Counters, BudgetsOK, Marked, NEW f, Abort(f)
  PROVE  Blamed'
<1>1. /\ pc = "running" /\ pc' = "classify" /\ failures' = failures
      /\ task \in Tasks /\ backlog[task] = "in-progress" /\ backlog \in [Tasks -> Status]
      /\ err' \in {"failed", "cancelled"}
  BY DEF Abort, Return, At, Marked
<1>2. CASE backlog' = [backlog EXCEPT ![task] = "blocked"] /\ env' = env
  <2>1. Blocked' = Blocked \cup {task} /\ task \notin Blocked
    BY <1>1, <1>2 DEF Blocked
  <2>2. IsFiniteSet(Blocked) /\ Cardinality(Blocked) \in Nat
    BY FS_CardinalityType DEF Blamed
  <2>3. IsFiniteSet(Blocked') /\ Cardinality(Blocked') = Cardinality(Blocked) + 1
    BY <2>1, <2>2, FS_AddElement
  <2>4. Untroubled' => Untroubled
    BY <1>2 DEF Untroubled
  <2>5. Untroubled' => dirty' = dirty
    BY DEF Abort, Untroubled
  <2> HIDE DEF Blocked
  <2> QED BY <1>1, <2>2, <2>3, <2>4, <2>5 DEF Blamed, Uncounting, Ending, Counters
<1>3. CASE env' = [env EXCEPT !["faults"] = @ + 1] /\ backlog' = backlog
  <2>1. ~Untroubled'
    BY <1>3, TroubleBegins
  <2>2. Blocked' = Blocked
    BY <1>3 DEF Blocked
  <2> QED BY <2>1, <2>2, TroubledKeepsBlame
<1> QED BY <1>2, <1>3 DEF Abort, Spend

\* The one place where Watch counts a failure.
LEMMA DecideKeepsBlame ==
  ASSUME Blamed, Counters, BudgetsOK, Marked, Decide
  PROVE  Blamed'
<1> DEFINE F == FailuresSoFar
<1>1. F \in Nat /\ (F = failures \/ F = 0)
  BY DEF FailuresSoFar, Counters
<1>2. /\ Blocked' = Blocked /\ env' = env /\ dirty' = dirty /\ pc = "decide"
      /\ MaxFailures \in Nat
  BY WatchAssumption DEF Decide, durable, Blocked, At
<1>3. IsFiniteSet(Blocked) /\ Cardinality(Blocked) \in Nat
  BY FS_CardinalityType DEF Blamed
<1>4. IsFiniteSet(Blocked') /\ Cardinality(Blocked)' = Cardinality(Blocked)
  BY <1>2, <1>3
<1>5. Untroubled' => Untroubled /\ ~dirty /\ err # "dirty"
  BY <1>2 DEF Untroubled, Blamed, Ending
<1>6. Untroubled => failures + (IF Uncounting THEN 1 ELSE 0) <= Cardinality(Blocked)
  BY DEF Blamed
<1>7. ASSUME Untroubled, Uncounting PROVE F + 1 <= Cardinality(Blocked)
  BY <1>1, <1>3, <1>6, <1>7 DEF Counters
<1>8. ASSUME Untroubled PROVE F <= Cardinality(Blocked)
  BY <1>1, <1>3, <1>6, <1>8 DEF Counters
<1> HIDE DEF F
<1>9. CASE Stop("stopped") \/ SleepWith(F)
  BY <1>1, <1>2, <1>3, <1>4, <1>5, <1>8, <1>9 DEF Stop, SleepWith, Blamed, Uncounting, Ending
<1>10. CASE /\ err \notin Tolerated \cup {"cancelled"}
            /\ IF F + 1 < MaxFailures THEN SleepWith(F + 1) ELSE Stop("gave-up")
  <2>1. Untroubled' => F + 1 <= Cardinality(Blocked)
    BY <1>2, <1>5, <1>7, <1>10 DEF Uncounting, Ending, Tolerated, Marked, Error
  <2>2. CASE SleepWith(F + 1)
    BY <1>1, <1>2, <1>3, <1>4, <1>5, <2>1, <2>2 DEF SleepWith, Blamed, Uncounting, Ending
  <2>3. CASE Stop("gave-up") /\ ~(F + 1 < MaxFailures)
    BY <1>1, <1>2, <1>3, <1>4, <1>5, <2>1, <2>3 DEF Stop, Blamed, Uncounting, Ending
  <2> QED BY <1>10, <2>2, <2>3
<1> QED BY <1>9, <1>10 DEF Decide, F

LEMMA ProcessKeepsBlame ==
  ASSUME Blamed, Counters, BudgetsOK, Marked, Process
  PROVE  Blamed'
<1> USE DEF Counters
<1>1. CASE NextTask \/ AwaitQuota \/ Cooled \/ Wake
  <2>1. Harmless
    BY <1>1 DEF NextTask, AwaitQuota, Cooled, Wake, Return, Goto, Stop, durable, Harmless, Budgeted,
                Blocked, Ending
  <2> QED BY <2>1, HarmlessKeepsBlame
<1>2. CASE NoExecutor \/ (NothingStarts /\ Spend("faults", MaxFaults))
  <2>1. ~Untroubled'
    BY <1>2, TroubleBegins DEF NoExecutor, Spend
  <2>2. Blocked' = Blocked
    BY <1>2 DEF NoExecutor, NothingStarts, durable, Blocked
  <2> QED BY <2>1, <2>2, TroubledKeepsBlame
<1>3. CASE NothingStarts /\ env' = env
  <2>1. Blocked' = Blocked /\ dirty' = dirty /\ failures' = failures /\ pc' = "classify"
    BY <1>3 DEF NothingStarts, Return, durable, Blocked
  <2>2. CASE err' \in {"no-work", "cancelled"}
    <3>1. Harmless
      BY <1>3, <2>1, <2>2 DEF Harmless, Budgeted
    <3> QED BY <3>1, HarmlessKeepsBlame
  <2>3. CASE dirty
    <3>1. ~Untroubled'
      BY <1>3, <2>3 DEF Untroubled, Blamed
    <3> QED BY <2>1, <3>1, TroubledKeepsBlame
  <2>4. CASE Spend("faults", MaxFaults)
    BY <1>2, <1>3, <2>4
  <2> QED BY <1>3, <2>2, <2>3, <2>4 DEF NothingStarts, Return
<1>4. CASE Complete \/ ClearQuota \/ \E t \in Tasks : StartTask(t)
  <2>1. Blocked' = Blocked
    BY <1>4 DEF Complete, ClearQuota, StartTask, At, Marked, Open, IsOpenStatus, Blocked
  <2>2. Harmless
    BY <1>4, <2>1 DEF Complete, ClearQuota, StartTask, Spend, Kinds, Harmless, Budgeted, Ending,
                      Untroubled
  <2> QED BY <2>2, HarmlessKeepsBlame
<1>5. CASE HitLimit \/ FailTask
  BY <1>5, AbortKeepsBlame DEF HitLimit, FailTask
<1>6. CASE Classify
  <2>1. Harmless
    BY <1>6 DEF Classify, EnterQuotaCooldown, Spend, At, Kinds, Harmless, Budgeted, Blocked, Ending
  <2> QED BY <2>1, HarmlessKeepsBlame
<1>7. NothingStarts => env' = env \/ Spend("faults", MaxFaults)
  BY DEF NothingStarts
<1> QED BY <1>1, <1>2, <1>3, <1>4, <1>5, <1>6, <1>7, DecideKeepsBlame DEF Process, Work

LEMMA OthersKeepBlame ==
  ASSUME Blamed, Counters, BudgetsOK, Marked, Tick \/ World \/ People \/ UNCHANGED vars
  PROVE  Blamed'
<1> USE DEF Counters
<1>1. CASE Tick \/ World \/ HumanTidies \/ UNCHANGED vars
  <2>1. Harmless
    BY <1>1 DEF Tick, World, Cancel, Crash, Restart, OperatorClears, LimitBegins, LimitLifts,
                HumanTidies, Goto, Stop, SameWorld, Spend, Kinds, vars, durable, volatile, Harmless,
                Budgeted, Blocked, Ending
  <2> QED BY <2>1, HarmlessKeepsBlame
<1>2. CASE HumanEdits
  <2>1. ~Untroubled' /\ Blocked' = Blocked
    BY <1>2, TroubleBegins DEF HumanEdits, Spend, Blocked
  <2> QED BY <2>1, TroubledKeepsBlame
<1>3. ASSUME NEW t \in Tasks, HumanAdds(t) PROVE Blamed'
  <2>1. CASE backlog[t] = "absent" /\ env' = env
    <3>1. Blocked' = Blocked
      BY <1>3, <2>1 DEF HumanAdds, Marked, Blocked
    <3>2. Harmless
      BY <1>3, <2>1, <3>1 DEF HumanAdds, volatile, Harmless, Budgeted, Ending
    <3> QED BY <3>2, HarmlessKeepsBlame
  <2>2. CASE Spend("reopens", MaxReopens)
    <3>1. ~Untroubled'
      BY <2>2, TroubleBegins DEF Spend
    <3>2. Blocked' \subseteq Blocked
      BY <1>3 DEF HumanAdds, Marked, Blocked
    <3> QED BY <3>1, <3>2, TroubledKeepsBlame
  <2> QED BY <1>3, <2>1, <2>2 DEF HumanAdds
<1> QED BY <1>1, <1>2, <1>3 DEF People

\* App.Watch: one bad task does not stop it. It gives up only when as many tasks have been
\* tried and blocked as it bears failures, where nothing but the tasks can fail a pass.
THEOREM GivesUpOnManyTasks == Spec => []OneBadTaskDoesNotStop
<1>1. Init => Blamed
  <2>1. Init => Blocked = {} /\ dirty = FALSE /\ failures = 0 /\ pc = "pass"
    BY DEF Init, Blocked
  <2> QED BY <2>1, FS_EmptySet DEF Blamed, Uncounting, Ending
<1>2. Blamed /\ Patience /\ Accounted /\ Marked /\ [Next]_vars => Blamed'
  BY ProcessKeepsBlame, OthersKeepBlame DEF Next, Patience, Accounted
<1>3. Blamed => OneBadTaskDoesNotStop
  BY DEF Blamed, Untroubled, Blocked, OneBadTaskDoesNotStop
<1> QED BY <1>1, <1>2, <1>3, PatienceInvariant, AccountInvariant, MarkedInvariant, PTL DEF Spec
-----------------------------------------------------------------------------
\* One step of the backoff, and the waits as far as the n-th hit.
NextWait(w) == IF 2 * w >= MaxCooldown THEN MaxCooldown ELSE 2 * w

IsBackoff(f, n) == /\ f \in [1..n -> Nat]
                   /\ \A h \in 1..n : f[h] = IF h = 1 THEN BaseCooldown ELSE NextWait(f[h - 1])

\* Counting on from 1 reaches every number.
LEMMA CountingUp ==
  ASSUME NEW S, 1 \in S, \A n \in Nat \ {0} : n \in S => n + 1 \in S
  PROVE  Nat \ {0} \subseteq S
<1> DEFINE T == (Nat \ {0}) \ S
<1> SUFFICES ASSUME T # {} PROVE FALSE
  OBVIOUS
<1>1. T \subseteq Nat
  OBVIOUS
<1>2. PICK x \in T : \A y \in T : ~(<<y, x>> \in OpToRel(<, Nat))
  <2> HIDE DEF T
  <2> QED BY <1>1, NatLessThanWellFounded, WFMin
<1>3. \A y \in T : ~(y < x)
  BY <1>1, <1>2 DEF OpToRel
<1>4. x \in Nat /\ x # 0 /\ x # 1 /\ x \notin S
  BY <1>2
<1>5. x - 1 \in Nat \ {0} /\ x - 1 < x /\ (x - 1) + 1 = x
  BY ONLY <1>4, SMT
<1>6. x - 1 \in S
  BY <1>3, <1>5
<1> QED BY <1>4, <1>5, <1>6

LEMMA NextWaitIsNat == \A w \in Nat : NextWait(w) \in Nat
  BY CooldownAssumption DEF NextWait

\* The waits can be worked out as far as any hit, and in one way only.
LEMMA BackoffExists == \A n \in Nat \ {0} : \E f : IsBackoff(f, n)
<1> DEFINE S == {n \in Nat \ {0} : \E f : IsBackoff(f, n)}
<1>1. 1 \in S
  <2>1. IsBackoff([h \in 1..1 |-> BaseCooldown], 1)
    BY CooldownAssumption DEF IsBackoff
  <2> QED BY <2>1
<1>2. ASSUME NEW n \in Nat \ {0}, n \in S PROVE n + 1 \in S
  <2>1. PICK f : IsBackoff(f, n)
    BY <1>2
  <2> DEFINE g == [h \in 1..(n + 1) |-> IF h <= n THEN f[h] ELSE NextWait(f[n])]
  <2>2. g \in [1..(n + 1) -> Nat]
    <3>1. \A h \in 1..(n + 1) : h <= n => f[h] \in Nat
      BY <2>1 DEF IsBackoff
    <3>2. f[n] \in Nat
      BY <3>1
    <3>3. NextWait(f[n]) \in Nat
      BY <3>2, NextWaitIsNat
    <3> QED BY <3>1, <3>3
  <2>3. ASSUME NEW h \in 1..(n + 1)
        PROVE  g[h] = IF h = 1 THEN BaseCooldown ELSE NextWait(g[h - 1])
    <3>1. CASE h <= n
      BY <2>1, <3>1 DEF IsBackoff
    <3>2. CASE h = n + 1
      BY <3>2
    <3> QED BY <3>1, <3>2
  <2>4. IsBackoff(g, n + 1)
    BY <2>2, <2>3 DEF IsBackoff
  <2> QED BY <2>4
<1> HIDE DEF S
<1>3. Nat \ {0} \subseteq S
  BY <1>1, <1>2, CountingUp
<1> QED BY <1>3 DEF S

LEMMA BackoffIsUnique ==
  ASSUME NEW n \in Nat \ {0}, NEW m \in Nat \ {0}, NEW f, NEW g, IsBackoff(f, n), IsBackoff(g, m)
  PROVE  \A h \in 1..n : h <= m => f[h] = g[h]
<1> DEFINE S == {h \in Nat \ {0} : h <= n /\ h <= m => f[h] = g[h]}
<1>1. 1 \in S
  BY DEF IsBackoff
<1>2. ASSUME NEW h \in Nat \ {0}, h \in S PROVE h + 1 \in S
  BY <1>2 DEF IsBackoff
<1>3. Nat \ {0} \subseteq S
  <2> HIDE DEF S
  <2> QED BY <1>1, <1>2, CountingUp
<1> QED BY <1>3

\* resumeTime: the wait after a first hit is the base, and each further hit doubles it, up
\* to the cap.
LEMMA WaitDoubles ==
  /\ Wait \in [Nat \ {0} -> Nat]
  /\ \A h \in Nat \ {0} : Wait[h] = IF h = 1 THEN BaseCooldown ELSE NextWait(Wait[h - 1])
<1> DEFINE A(n) == CHOOSE f : IsBackoff(f, n)
           W    == [h \in Nat \ {0} |-> A(h)[h]]
<1>1. ASSUME NEW n \in Nat \ {0} PROVE IsBackoff(A(n), n)
  BY BackoffExists
<1>2. W \in [Nat \ {0} -> Nat]
  <2>1. ASSUME NEW n \in Nat \ {0} PROVE A(n)[n] \in Nat
    <3>1. IsBackoff(A(n), n) /\ n \in 1..n
      BY <1>1
    <3> HIDE DEF A
    <3> QED BY <3>1 DEF IsBackoff
  <2> HIDE DEF A
  <2> QED BY <2>1
<1>3. ASSUME NEW h \in Nat \ {0}
      PROVE  W[h] = IF h = 1 THEN BaseCooldown ELSE NextWait(W[h - 1])
  <2>1. A(h)[h] = IF h = 1 THEN BaseCooldown ELSE NextWait(A(h)[h - 1])
    <3>1. IsBackoff(A(h), h) /\ h \in 1..h
      BY <1>1
    <3> HIDE DEF A
    <3> QED BY <3>1 DEF IsBackoff
  <2>2. CASE h = 1
    BY <2>1, <2>2
  <2>3. CASE h # 1
    <3>1. h - 1 \in Nat \ {0} /\ h - 1 \in 1..h /\ h - 1 <= h - 1
      BY <2>3
    <3>2. A(h)[h - 1] = A(h - 1)[h - 1]
      <4>1. IsBackoff(A(h), h) /\ IsBackoff(A(h - 1), h - 1)
        BY <1>1, <3>1
      <4> HIDE DEF A
      <4> QED BY <3>1, <4>1, BackoffIsUnique
    <3> QED BY <2>1, <2>3, <3>1, <3>2
  <2> QED BY <2>2, <2>3
<1> HIDE DEF W
<1>4. \E f : f = [h \in Nat \ {0} |->
                    IF h = 1 THEN BaseCooldown
                    ELSE IF 2 * f[h - 1] >= MaxCooldown THEN MaxCooldown ELSE 2 * f[h - 1]]
  <2>1. W = [h \in Nat \ {0} |-> W[h]]
    BY <1>2
  <2>2. W = [h \in Nat \ {0} |->
                    IF h = 1 THEN BaseCooldown
                    ELSE IF 2 * W[h - 1] >= MaxCooldown THEN MaxCooldown ELSE 2 * W[h - 1]]
    BY <2>1, <1>3 DEF NextWait
  <2> QED BY <2>2
<1>5. Wait = [h \in Nat \ {0} |->
                    IF h = 1 THEN BaseCooldown
                    ELSE IF 2 * Wait[h - 1] >= MaxCooldown THEN MaxCooldown ELSE 2 * Wait[h - 1]]
  BY <1>4, Zenon DEF Wait
<1>6. \A h \in Nat \ {0} : Wait[h] = IF h = 1 THEN BaseCooldown ELSE NextWait(Wait[h - 1])
  BY <1>5 DEF NextWait
<1> DEFINE S == {h \in Nat \ {0} : Wait[h] \in Nat}
<1>7. 1 \in S
  BY <1>6, CooldownAssumption
<1>8. ASSUME NEW h \in Nat \ {0}, h \in S PROVE h + 1 \in S
  <2>1. h + 1 \in Nat \ {0} /\ h + 1 # 1 /\ (h + 1) - 1 = h
    OBVIOUS
  <2>2. Wait[h + 1] = NextWait(Wait[h])
    BY <1>6, <2>1
  <2> QED BY <1>8, <2>1, <2>2, NextWaitIsNat
<1>9. Nat \ {0} \subseteq S
  <2> HIDE DEF S
  <2> QED BY <1>7, <1>8, CountingUp
<1> QED BY <1>5, <1>6, <1>9

\* The waits never exceed the cap, where the first one does not.
LEMMA WaitIsCapped ==
  ASSUME BaseCooldown <= MaxCooldown
  PROVE  \A h \in Nat \ {0} : Wait[h] \in Nat \ {0} /\ Wait[h] <= MaxCooldown
<1> DEFINE S == {h \in Nat \ {0} : Wait[h] \in Nat \ {0} /\ Wait[h] <= MaxCooldown}
<1>1. 1 \in S
  BY WaitDoubles, CooldownAssumption
<1>2. ASSUME NEW h \in Nat \ {0}, h \in S PROVE h + 1 \in S
  <2>1. h + 1 \in Nat \ {0} /\ h + 1 # 1 /\ (h + 1) - 1 = h
    OBVIOUS
  <2>2. Wait[h + 1] = NextWait(Wait[h])
    BY <2>1, WaitDoubles
  <2> QED BY <1>2, <2>1, <2>2, CooldownAssumption DEF NextWait
<1>3. Nat \ {0} \subseteq S
  <2> HIDE DEF S
  <2> QED BY <1>1, <1>2, CountingUp
<1> QED BY <1>3

LEMMA WaitGrows ==
  ASSUME BaseCooldown <= MaxCooldown, NEW h \in Nat \ {0}
  PROVE  \/ Wait[h + 1] > Wait[h]
         \/ Wait[h + 1] = Wait[h] /\ Wait[h + 1] = MaxCooldown
<1>1. h + 1 \in Nat \ {0} /\ h + 1 # 1 /\ (h + 1) - 1 = h
  OBVIOUS
<1>2. Wait[h + 1] = NextWait(Wait[h])
  BY <1>1, WaitDoubles
<1>3. Wait[h] \in Nat \ {0} /\ Wait[h] <= MaxCooldown
  BY WaitIsCapped
<1> QED BY <1>2, <1>3, CooldownAssumption DEF NextWait

LEMMA RecordedIsState == ASSUME NEW q \in States PROVE RecordExhaustion(q) \in States
<1> DEFINE h == IF q.hits < HitsCap THEN q.hits + 1 ELSE HitsCap
<1>1. h \in 0..HitsCap /\ h \in Nat \ {0}
  BY CooldownAssumption DEF States
<1>2. Wait[h] \in Nat
  BY <1>1, WaitDoubles
<1> QED BY <1>1, <1>2 DEF RecordExhaustion, States

\* Every step leaves the record as it is, clears it, lets time pass, or records a hit.
QuotaMoves == quota' \in {quota, Fresh, Elapse(quota), RecordExhaustion(quota)}

LEMMA QuotaSteps == [Next]_vars => QuotaMoves
<1> SUFFICES ASSUME [Next]_vars PROVE QuotaMoves
  OBVIOUS
<1>1. CASE Process
  BY <1>1 DEF Process, NextTask, AwaitQuota, Cooled, Work, NoExecutor, NothingStarts, StartTask,
              Complete, ClearQuota, HitLimit, FailTask, Abort, Classify, EnterQuotaCooldown, Decide, Wake,
              durable, Clear, QuotaMoves
<1>2. CASE Tick \/ World \/ People \/ UNCHANGED vars
  BY <1>2 DEF Tick, World, Cancel, Crash, Restart, OperatorClears, LimitBegins, LimitLifts, People,
              HumanEdits, HumanTidies, HumanAdds, vars, durable, Clear, QuotaMoves
<1> QED BY <1>1, <1>2 DEF Next

QuotaOK == quota \in States

LEMMA QuotaInvariant == Spec => []QuotaOK
<1>1. Fresh \in States
  BY CooldownAssumption DEF Fresh, States
<1>2. \A q \in States : Elapse(q) \in States
  BY DEF Elapse, States
<1>3. QuotaOK /\ [Next]_vars => QuotaOK'
  BY <1>1, <1>2, QuotaSteps, RecordedIsState DEF QuotaMoves, QuotaOK
<1>4. Init => QuotaOK
  BY <1>1 DEF Init, QuotaOK
<1> QED BY <1>3, <1>4, PTL DEF Spec

\* quota.RecordExhaustion and resumeTime: a further hit waits longer than the one before,
\* until the cap is reached, for every base and every cap that is not below it.
THEOREM EachHitWaits == Spec => EachHitWaitsLonger
<1> DEFINE Longer == BaseCooldown <= MaxCooldown /\ quota.hits > 0 /\ quota'.hits > quota.hits =>
                       \/ quota'.left > Wait[quota.hits]
                       \/ quota'.left = Wait[quota.hits] /\ quota'.left = MaxCooldown
<1>1. ASSUME quota \in States, QuotaMoves PROVE Longer
  <2> SUFFICES ASSUME BaseCooldown <= MaxCooldown, quota.hits > 0, quota'.hits > quota.hits
               PROVE  \/ quota'.left > Wait[quota.hits]
                      \/ quota'.left = Wait[quota.hits] /\ quota'.left = MaxCooldown
    OBVIOUS
  <2>1. quota.hits \in Nat \ {0} /\ quota.hits <= HitsCap
    BY <1>1, CooldownAssumption DEF States
  <2>2. quota' = RecordExhaustion(quota)
    BY <1>1, <2>1 DEF QuotaMoves, Fresh, Elapse
  <2>3. quota'.hits = quota.hits + 1 /\ quota'.left = Wait[quota.hits + 1]
    BY <2>1, <2>2, CooldownAssumption DEF RecordExhaustion
  <2> QED BY <2>1, <2>3, WaitGrows
<1>2. QuotaOK /\ [Next]_vars => [Longer]_vars
  BY <1>1, QuotaSteps DEF QuotaOK
<1> QED BY <1>2, QuotaInvariant, PTL DEF Spec, EachHitWaitsLonger
-----------------------------------------------------------------------------
\* What TypeOK says, the quota aside.
RestOK == /\ LoopOK /\ backlog \in [Tasks -> Status] /\ dirty \in BOOLEAN
          /\ limited \in BOOLEAN /\ idle \in 0..MaxFailures /\ burnt \in Nat /\ env \in [Kinds -> Nat]

LEMMA RestInvariant == Spec => []RestOK
<1> USE WatchAssumption DEF RestOK, LoopOK, Labels, Ended, Status, Failure, Error, Kinds
<1>0. 0 \in 0..(MaxFailures - 1) /\ 0 \in 0..MaxFailures
  OBVIOUS
<1>1. ASSUME Init PROVE RestOK
  <2>1. env \in [Kinds -> Nat]
    BY <1>1 DEF Init
  <2>2. backlog \in [Tasks -> Status]
    BY <1>1 DEF Init
  <2>3. LoopOK
    BY <1>0, <1>1 DEF Init
  <2> QED BY <1>0, <1>1, <2>1, <2>2, <2>3 DEF Init
<1>2. RestOK /\ NextTask => RestOK'
  BY DEF NextTask, Return, Goto, SameWorld, durable
<1>3. QuotaOK /\ RestOK /\ AwaitQuota => RestOK'
  BY DEF QuotaOK, AwaitQuota, Goto, SameWorld, durable, States
<1>4. RestOK /\ Cooled => RestOK'
  BY DEF Cooled, Return, Goto, SameWorld, durable
<1>5. ASSUME RestOK, Wake PROVE RestOK'
  <2>1. CASE Goto("pass")
    BY <1>5, <2>1 DEF Wake, Goto, SameWorld, durable
  <2>2. CASE Stop("stopped")
    BY <1>0, <1>5, <2>2 DEF Wake, Stop, SameWorld, durable
  <2> QED BY <1>5, <2>1, <2>2 DEF Wake
<1>6. RestOK /\ NoExecutor => RestOK'
  BY DEF NoExecutor, Return, Spend, SameWorld, durable
<1>7. RestOK /\ NothingStarts => RestOK'
  BY DEF NothingStarts, Return, Spend, SameWorld, durable
<1>8. RestOK /\ Complete => RestOK'
  BY DEF Complete, SameWorld
<1>9. RestOK /\ Classify => RestOK'
  BY DEF Classify, EnterQuotaCooldown, Spend
<1>10. ASSUME RestOK, NEW t \in Tasks, StartTask(t) PROVE RestOK'
  BY <1>10 DEF StartTask, SameWorld
<1>11. RestOK /\ ClearQuota => RestOK'
  BY DEF ClearQuota, Spend
<1>12. ASSUME RestOK, NEW f \in {"quota", "none", "other"}, Abort(f), burnt' \in Nat PROVE RestOK'
  BY <1>12 DEF Abort, Return, Spend
<1>13. ASSUME RestOK, Decide PROVE RestOK'
  <2>1. FailuresSoFar \in 0..(MaxFailures - 1)
    BY <1>0, <1>13 DEF FailuresSoFar
  <2>2. idle' \in 0..MaxFailures /\ UNCHANGED <<durable, watching, limited, burnt, env>>
    BY <1>13 DEF Decide
  <2>3. ASSUME NEW l \in {"stopped", "gave-up"}, Stop(l) PROVE RestOK'
    BY <1>0, <1>13, <2>2, <2>3 DEF Stop, durable
  <2>4. ASSUME NEW f \in 0..(MaxFailures - 1), SleepWith(f) PROVE RestOK'
    BY <1>13, <2>2, <2>4 DEF SleepWith, durable
  <2>5. FailuresSoFar + 1 < MaxFailures => FailuresSoFar + 1 \in 0..(MaxFailures - 1)
    BY <2>1
  <2> QED BY <1>13, <2>1, <2>3, <2>4, <2>5 DEF Decide
<1>14. ASSUME RestOK, Cancel \/ Crash PROVE RestOK'
  <2>1. CASE Cancel
    BY <1>14, <2>1 DEF Cancel, SameWorld, durable
  <2>2. CASE Crash
    BY <1>0, <1>14, <2>2 DEF Crash, Stop, SameWorld, durable
  <2> QED BY <1>14, <2>1, <2>2
<1>15. RestOK /\ Restart => RestOK'
  BY DEF Restart, Goto, Spend, SameWorld, durable
<1>16. RestOK /\ OperatorClears => RestOK'
  BY DEF OperatorClears, SameWorld, volatile
<1>17. ASSUME RestOK, LimitBegins \/ LimitLifts PROVE RestOK'
  <2>1. env' \in [Kinds -> Nat]
    BY <1>17 DEF LimitBegins, LimitLifts, Spend
  <2>2. limited' \in BOOLEAN
    BY <1>17 DEF LimitBegins, LimitLifts
  <2>3. UNCHANGED <<durable, watching, volatile, idle, burnt>>
    BY <1>17 DEF LimitBegins, LimitLifts
  <2> QED BY <1>17, <2>1, <2>2, <2>3 DEF durable, volatile
<1>18. ASSUME RestOK, HumanEdits \/ HumanTidies PROVE RestOK'
  <2>1. env' \in [Kinds -> Nat]
    BY <1>18 DEF HumanEdits, HumanTidies, Spend
  <2>2. dirty' \in BOOLEAN
    BY <1>18 DEF HumanEdits, HumanTidies
  <2>3. UNCHANGED <<backlog, volatile>> /\ SameWorld
    BY <1>18 DEF HumanEdits, HumanTidies
  <2> QED BY <1>18, <2>1, <2>2, <2>3 DEF SameWorld, volatile
<1>19. RestOK /\ Tick => RestOK'
  BY DEF Tick, SameWorld
<1>20. RestOK /\ (UNCHANGED vars) => RestOK'
  BY DEF vars, durable, volatile
<1>21. ASSUME RestOK, NEW t \in Tasks, HumanAdds(t) PROVE RestOK'
  BY <1>21 DEF HumanAdds, Spend, SameWorld, volatile
<1>22. RestOK /\ (HitLimit \/ FailTask) => RestOK'
  BY <1>12 DEF HitLimit, FailTask
<1>23. QuotaOK /\ RestOK /\ [Next]_vars => RestOK'
  BY <1>2, <1>3, <1>4, <1>5, <1>6, <1>7, <1>8, <1>9, <1>10, <1>11, <1>12, <1>13, <1>14, <1>15,
     <1>16, <1>17, <1>18, <1>19, <1>20, <1>21, <1>22
     DEF Next, Process, Work, World, People
<1> QED BY <1>1, <1>23, QuotaInvariant, PTL DEF Spec

\* The types of the model; and a watch that is still running has failed fewer times in a
\* row than it bears.
THEOREM Typed == Spec => []TypeOK
<1>1. QuotaOK /\ RestOK => TypeOK
  BY DEF QuotaOK, RestOK, TypeOK, BackgroundOK, Kinds
<1> QED BY <1>1, QuotaInvariant, RestInvariant, PTL
-----------------------------------------------------------------------------
\* How many steps of its own an interrupted process takes yet, at most.  Only a run whose
\* error is not the interrupt goes by way of the sleep, which then ends at once, or is over.
Away(l) ==
  CASE l = "await" -> 8 [] l = "cooling" -> 7 [] l = "ready" -> 6 [] l = "running" -> 6
    [] l = "classify" -> 5 [] l = "sleep" -> 3 [] l = "clear" -> 3 [] l = "pass" -> 2
    [] l = "decide" -> 1
    [] OTHER -> 0
GoesOn     == pc = "decide" /\ watching /\ err # "cancelled"
Detour     == IF GoesOn THEN 3 ELSE 0
StepsToEnd == Away(pc) + Detour

\* Once it is interrupted, each of its steps brings a process closer to its end, nothing
\* else takes it further away, and it is not an interrupted one any more only when it ended.
Winds      == cancelled =>
                /\ StepsToEnd' <= StepsToEnd
                /\ Process => StepsToEnd' < StepsToEnd
                /\ ~cancelled' => pc' \in Ended
WindsDown  == [][Winds]_vars
AtItsEnd   == pc \in Labels /\ (cancelled => pc \notin Ended) /\ StepsToEnd \in 0..8
              /\ (StepsToEnd = 0 <=> pc \in Ended)

\* The process is interrupted only where it runs.
LEMMA EndInvariant == Spec => []AtItsEnd
<1> USE DEF AtItsEnd, StepsToEnd, Away, Detour, GoesOn, Ended, Labels
<1>1. Init => AtItsEnd
  BY DEF Init
<1>2. AtItsEnd /\ [Next]_vars => AtItsEnd'
  <2> SUFFICES ASSUME AtItsEnd, [Next]_vars PROVE AtItsEnd'
    OBVIOUS
  <2>1. pc' \in Labels /\ (cancelled' => pc' \notin Ended)
    <3> USE DEF At, Goto, Return, Stop, SameWorld, durable, volatile
    <3>1. CASE Process
      <4>1. CASE NextTask \/ AwaitQuota \/ Cooled \/ Classify \/ Decide \/ Wake
        BY <4>1 DEF NextTask, AwaitQuota, Cooled, Classify, Decide, Wake, SleepWith
      <4>2. CASE Work
        BY <4>2 DEF Work, NoExecutor, NothingStarts, Complete, ClearQuota, HitLimit, FailTask, Abort,
                    StartTask
      <4> QED BY <3>1, <4>1, <4>2 DEF Process
    <3>2. CASE Tick \/ World \/ People
      BY <3>2 DEF Tick, World, Cancel, Crash, Restart, OperatorClears, LimitBegins, LimitLifts,
                  People, HumanEdits, HumanTidies, HumanAdds
    <3>3. CASE UNCHANGED vars
      BY <3>3 DEF vars
    <3> QED BY <3>1, <3>2, <3>3 DEF Next
  <2>2. /\ StepsToEnd' \in 0..8
        /\ StepsToEnd' = 0 <=> pc' \in Ended
    BY <2>1
  <2> QED BY <2>1, <2>2
<1> QED BY <1>1, <1>2, PTL DEF Spec

\* Where an interrupted process goes from where it is ...
Onwards(l, k) ==
  \/ l = "await" /\ k \in {"ready", "cooling"}
  \/ l = "cooling" /\ k \in {"ready", "decide"}
  \/ l = "ready" /\ k \in {"classify", "decide"}
  \/ l = "running" /\ k \in {"classify", "clear"}
  \/ l = "clear" /\ k = "pass"
  \/ l = "classify" /\ k = "decide"
  \/ l = "sleep" /\ k = "pass"
  \/ l \notin Ended /\ k \in Ended

\* ... unless the interrupt is what ends the pass, or the sleep is still to come ...
LEMMA InterruptedMoves ==
  ASSUME pc \in Labels, pc \notin Ended, cancelled, Process
  PROVE  /\ \/ Onwards(pc, pc')
            \/ pc = "pass" /\ pc' = "decide" /\ err' = "cancelled"
            \/ GoesOn /\ pc' = "sleep"
         /\ ~cancelled' => pc' \in Ended
<1> USE DEF Onwards, Ended, Labels, At, Goto, Return, Stop
<1>1. CASE NextTask \/ AwaitQuota \/ Cooled
  BY <1>1 DEF NextTask, AwaitQuota, Cooled
<1>2. CASE Classify
  BY <1>2 DEF Classify
<1>3. CASE Decide
  <2>1. \/ pc = "decide" /\ (Stop("stopped") \/ Stop("gave-up"))
        \/ GoesOn /\ \E f : SleepWith(f)
    BY <1>3 DEF Decide, Tolerated, GoesOn
  <2> QED BY <2>1 DEF SleepWith
<1>4. CASE Wake
  BY <1>4 DEF Wake
<1>5. CASE Work
  BY <1>5 DEF Work, NoExecutor, NothingStarts, Complete, ClearQuota, HitLimit, FailTask, Abort,
               StartTask
<1> QED BY <1>1, <1>2, <1>3, <1>4, <1>5 DEF Process

\* ... is closer to its end ...
LEMMA ProcessWinds ==
  ASSUME AtItsEnd, cancelled, Process
  PROVE  StepsToEnd' < StepsToEnd /\ (~cancelled' => pc' \in Ended)
<1>1. pc \in Labels /\ pc \notin Ended
  BY DEF AtItsEnd
<1>2. ~cancelled' => pc' \in Ended
  BY <1>1, InterruptedMoves
<1>3. ASSUME Onwards(pc, pc') PROVE StepsToEnd' < StepsToEnd
  <2>1. Away(pc)' < Away(pc) /\ Away(pc)' \in Nat /\ Away(pc) \in Nat
    BY <1>1, <1>3 DEF Onwards, Away, Ended, Labels
  <2>2. pc' = "decide" => Away(pc)' + 3 < Away(pc)
    BY <1>3 DEF Onwards, Away, Ended
  <2>3. Detour \in {0, 3} /\ Detour' \in {0, 3} /\ (pc' # "decide" => Detour' = 0)
    BY DEF Detour, GoesOn
  <2> QED BY ONLY <2>1, <2>2, <2>3 DEF StepsToEnd
<1>4. ASSUME pc = "pass", pc' = "decide", err' = "cancelled" PROVE StepsToEnd' < StepsToEnd
  <2>1. Detour = 0 /\ Detour' = 0
    BY <1>4 DEF Detour, GoesOn
  <2> QED BY <1>4, <2>1 DEF StepsToEnd, Away
<1>5. ASSUME GoesOn, pc' = "sleep" PROVE StepsToEnd' < StepsToEnd
  <2>1. pc = "decide" /\ Detour = 3 /\ Detour' = 0
    BY <1>5 DEF Detour, GoesOn
  <2> QED BY <1>5, <2>1 DEF StepsToEnd, Away
<1> QED BY <1>1, <1>2, <1>3, <1>4, <1>5, InterruptedMoves

\* ... and nothing else takes it further away.
LEMMA OthersWind == ASSUME AtItsEnd, cancelled, Tick \/ World \/ People
                    PROVE  StepsToEnd' <= StepsToEnd /\ (~cancelled' => pc' \in Ended)
<1> USE DEF Stop, SameWorld, durable, volatile
<1>1. CASE Tick \/ Cancel \/ OperatorClears \/ LimitBegins \/ LimitLifts \/ People
  <2>1. UNCHANGED <<pc, err, watching, cancelled>>
    BY <1>1 DEF Tick, Cancel, OperatorClears, LimitBegins, LimitLifts, People,
                HumanEdits, HumanTidies, HumanAdds
  <2>2. StepsToEnd' = StepsToEnd
    BY <2>1 DEF StepsToEnd, Detour, GoesOn
  <2> QED BY <2>1, <2>2 DEF AtItsEnd
<1>2. CASE Crash
  BY <1>2 DEF Crash, AtItsEnd, StepsToEnd, Away, Detour, GoesOn, Ended
<1>3. CASE Restart
  BY <1>3 DEF Restart, AtItsEnd
<1> QED BY <1>1, <1>2, <1>3 DEF World

\* An interrupted process takes at most eight more steps of its own, wherever the interrupt
\* found it and whatever the provider, the clock or people do (Watch, AwaitQuota, RunLoop
\* and WaitUntilAvailable all look at the context).
THEOREM InterruptWindsDown == Spec => []AtItsEnd /\ WindsDown
<1>1. AtItsEnd /\ AtItsEnd' /\ [Next]_vars => [Winds]_vars
  <2> SUFFICES ASSUME AtItsEnd, AtItsEnd', Next, cancelled
               PROVE  /\ StepsToEnd' <= StepsToEnd
                      /\ Process => StepsToEnd' < StepsToEnd
                      /\ ~cancelled' => pc' \in Ended
    BY DEF Winds
  <2>1. StepsToEnd \in Int /\ StepsToEnd' \in Int
    BY DEF AtItsEnd
  <2>2. Process => StepsToEnd' < StepsToEnd /\ (~cancelled' => pc' \in Ended)
    BY ProcessWinds
  <2>3. Tick \/ World \/ People => StepsToEnd' <= StepsToEnd /\ (~cancelled' => pc' \in Ended)
    BY OthersWind
  <2> QED BY <2>1, <2>2, <2>3 DEF Next
<1> QED BY <1>1, EndInvariant, PTL DEF Spec, WindsDown
-----------------------------------------------------------------------------
\* There is work to do and the tree is dirty, and no usage limit has been met.
Stuck == dirty /\ Open # {} /\ env.limits = 0 /\ pc \notin Ended

\* How many steps of its own a stuck watch takes yet, at most: seven a pass, for as many
\* passes as it may still fail.  An error that is tolerated, from before, is one pass more,
\* and a task that completes starts the count again.
Leeway == MaxFailures - FailuresSoFar
Excused == pc \in {"classify", "decide"} /\ watching /\ err \in Tolerated
Excess  == IF Excused THEN 7 ELSE 0
InPass(l) ==
  CASE l = "sleep" -> 7 [] l = "pass" -> 6 [] l = "await" -> 5 [] l = "cooling" -> 4
    [] l = "ready" -> 3 [] l = "classify" -> 2 [] l = "decide" -> 1 [] OTHER -> 0
StepsLeft ==
  CASE pc = "running" -> 8 * MaxFailures + 10
    [] pc = "clear" -> 8 * MaxFailures + 7
    [] pc \in Ended -> 0
    [] OTHER -> 8 * Leeway + InPass(pc) + Excess

\* Each step of a stuck watch leaves it fewer, and nothing leaves it more.
Tires   == Stuck => StepsLeft' <= StepsLeft /\ (Process => StepsLeft' < StepsLeft)
Wearies == [][Tires]_vars
Finite  == StepsLeft \in 0..(8 * MaxFailures + 10)

\* No usage limit is met before one has begun.
LimitCounted == env.limits = 0 => ~limited /\ last # "quota"

\* What has begun stays counted, whatever budget is spent.
LEMMA LimitsStayCounted ==
  ASSUME BudgetsOK, NEW k \in Kinds, NEW max, Spend(k, max), env'.limits = 0
  PROVE  env.limits = 0 /\ k # "limits"
BY DEF Spend, BudgetsOK, Kinds

\* Nor is a limit that was never met what the latest session ended with.
LEMMA LimitInvariant == Spec => []LimitCounted
<1>1. Init => LimitCounted
  BY DEF Init, LimitCounted
<1>2. BudgetsOK /\ LimitCounted /\ [Next]_vars => LimitCounted'
  <2> SUFFICES ASSUME BudgetsOK, LimitCounted, [Next]_vars, env'.limits = 0
               PROVE  ~limited' /\ last' # "quota"
    BY DEF LimitCounted
  <2> USE DEF At, Goto, Return, Stop, SameWorld, durable, volatile
  <2>1. \A k \in Kinds : \A max : Spend(k, max) => env.limits = 0 /\ k # "limits"
    BY LimitsStayCounted
  <2>2. UNCHANGED env => ~limited /\ last # "quota"
    BY DEF LimitCounted
  <2>3. ASSUME NEW k \in Kinds, NEW max, Spend(k, max) PROVE ~limited /\ last # "quota" /\ k # "limits"
    BY <2>1, <2>3 DEF LimitCounted
  <2>4. CASE NextTask \/ AwaitQuota \/ Cooled \/ Decide \/ Wake
    BY <2>2, <2>4 DEF NextTask, AwaitQuota, Cooled, Decide, Wake, SleepWith
  <2>5. CASE Classify
    <3>1. UNCHANGED env \/ Spend("faults", MaxFaults)
      BY <2>5 DEF Classify, EnterQuotaCooldown
    <3>2. limited' = limited /\ last' = last
      BY <2>5 DEF Classify
    <3> QED BY <2>2, <2>3, <3>1, <3>2 DEF Kinds
  <2>6. CASE Work
    <3>1. UNCHANGED env \/ Spend("faults", MaxFaults)
      BY <2>6 DEF Work, NoExecutor, NothingStarts, Complete, ClearQuota, HitLimit, FailTask, Abort,
                  StartTask
    <3>2. ~limited
      BY <2>2, <2>3, <3>1 DEF Kinds
    <3>3. limited' = limited /\ (last' = last \/ last' \in {"none", "other"})
      BY <2>6, <3>2 DEF Work, NoExecutor, NothingStarts, Complete, ClearQuota, HitLimit, FailTask,
                        Abort, StartTask
    <3> QED BY <2>2, <2>3, <3>1, <3>3 DEF Kinds
  <2>7. CASE Tick \/ World \/ People
    <3>1. ~LimitBegins
      BY <2>3 DEF LimitBegins, Kinds
    <3>2. UNCHANGED env \/ \E k \in Kinds : \E max : Spend(k, max)
      BY <2>7 DEF Tick, World, Cancel, Crash, Restart, OperatorClears, LimitBegins, LimitLifts,
                  People, HumanEdits, HumanTidies, HumanAdds, Kinds
    <3>3. (limited' = limited \/ ~limited') /\ last' \in {last, "no-session"}
      BY <2>7, <3>1 DEF Tick, World, Cancel, Crash, Restart, OperatorClears, LimitLifts,
                  People, HumanEdits, HumanTidies, HumanAdds
    <3>4. ~limited /\ last # "quota"
      BY <2>2, <2>3, <3>2
    <3> QED BY <3>3, <3>4
  <2>8. CASE UNCHANGED vars
    BY <2>2, <2>8 DEF vars
  <2> QED BY <2>4, <2>5, <2>6, <2>7, <2>8 DEF Next, Process
<1>3. Accounted => BudgetsOK
  BY DEF Accounted
<1> QED BY <1>1, <1>2, <1>3, AccountInvariant, PTL DEF Spec

\* Where a stuck watch goes from where it is, and what its count of failures is then.
StepsOn ==
  /\ UNCHANGED <<completed, failures>> /\ Excess' = 0
  /\ \/ pc = "pass" /\ pc' \in {"await", "decide"}
     \/ pc = "await" /\ pc' \in {"cooling", "ready"}
     \/ pc = "cooling" /\ pc' \in {"ready", "decide"}
     \/ pc = "ready" /\ pc' \in {"classify", "decide"}
     \/ pc = "sleep" /\ pc' = "pass"
Classifies == pc = "classify" /\ pc' = "decide" /\ UNCHANGED <<completed, failures, err, watching>>
EndsPass   == /\ pc = "decide" /\ pc' = "sleep" /\ completed' = 0
              /\ \/ Excess = 7 /\ failures' = FailuresSoFar
                 \/ failures' = FailuresSoFar + 1
Retraces ==
  \/ pc' \in Ended
  \/ pc = "running" /\ pc' = "clear"
  \/ pc = "running" /\ pc' = "classify" /\ Excess' = 0
  \/ pc = "clear" /\ pc' = "pass" /\ completed' > 0
  \/ StepsOn \/ Classifies \/ EndsPass

\* It goes nowhere else: a dirty tree lets no task start (RunNext, requireCleanTree).
LEMMA StuckMoves == ASSUME LoopOK, LimitCounted, Stuck, Process PROVE Retraces
<1> USE DEF Retraces, StepsOn, Classifies, EndsPass, Excess, Excused, Tolerated, At, Goto, Return,
            SameWorld
<1>1. CASE NextTask
  BY <1>1 DEF NextTask, AllRun
<1>2. CASE AwaitQuota \/ Cooled
  BY <1>2 DEF AwaitQuota, Cooled
<1>3. CASE Classify
  BY <1>3 DEF Classify, Stuck, LimitCounted
<1>4. CASE Decide
  <2>1. Stop("stopped") \/ Stop("gave-up") => pc' \in Ended
    BY DEF Stop, Ended
  <2>2. ASSUME ~Stop("stopped"), ~Stop("gave-up")
        PROVE  pc = "decide" /\ watching /\ \/ err \in Tolerated /\ SleepWith(FailuresSoFar)
                                            \/ SleepWith(FailuresSoFar + 1)
    BY <1>4, <2>2 DEF Decide
  <2> QED BY <2>1, <2>2 DEF SleepWith
<1>5. CASE Wake
  BY <1>5 DEF Wake, Stop, Ended
<1>6. CASE NoExecutor \/ NothingStarts
  BY <1>6 DEF NoExecutor, NothingStarts, Stuck
<1>7. CASE \E t \in Tasks : StartTask(t)
  BY <1>7 DEF StartTask, Stuck
<1>8. CASE Complete \/ ClearQuota
  <2>1. CASE Complete
    BY <2>1 DEF Complete
  <2>2. CASE ClearQuota
    <3>1. completed' > 0
      BY <2>2 DEF ClearQuota, LoopOK
    <3> QED BY <2>2, <3>1 DEF ClearQuota
  <2> QED BY <1>8, <2>1, <2>2
<1>9. CASE HitLimit \/ FailTask
  <2>1. PICK f : Abort(f)
    BY <1>9 DEF HitLimit, FailTask
  <2> QED BY <2>1 DEF Abort
<1> QED BY <1>1, <1>2, <1>3, <1>4, <1>5, <1>6, <1>7, <1>8, <1>9 DEF Process, Work

\* What is left of the count, while a pass goes on and when it ends.
LEMMA LeewayMoves ==
  ASSUME LoopOK, LoopOK'
  PROVE  /\ Leeway \in 1..MaxFailures /\ Leeway' \in 1..MaxFailures
         /\ UNCHANGED <<completed, failures>> => Leeway' = Leeway
         /\ completed' > 0 => Leeway' = MaxFailures
         /\ completed' = 0 /\ failures' = FailuresSoFar => Leeway' = Leeway
         /\ completed' = 0 /\ failures' = FailuresSoFar + 1 => Leeway' = Leeway - 1
<1>1. /\ MaxFailures \in Nat \ {0} /\ failures \in 0..(MaxFailures - 1) /\ completed \in Nat
      /\ failures' \in 0..(MaxFailures - 1) /\ completed' \in Nat
  BY WatchAssumption DEF LoopOK
<1>2. /\ FailuresSoFar \in 0..(MaxFailures - 1) /\ FailuresSoFar' \in 0..(MaxFailures - 1)
      /\ completed' = 0 => FailuresSoFar' = failures'
      /\ completed' > 0 => FailuresSoFar' = 0
      /\ UNCHANGED <<completed, failures>> => FailuresSoFar' = FailuresSoFar
  BY <1>1 DEF FailuresSoFar
<1>3. PICK n, f, g : /\ n = MaxFailures /\ f = FailuresSoFar /\ g = FailuresSoFar'
                     /\ n \in Nat /\ f \in 0..(n - 1) /\ g \in 0..(n - 1)
  BY <1>1, <1>2
<1>4. Leeway = n - f /\ Leeway' = n - g
  BY <1>3 DEF Leeway
<1>5. \A x \in Nat : \A y \in 0..(x - 1) : x - y \in 1..x
  OBVIOUS
<1>6. /\ UNCHANGED <<completed, failures>> => g = f
      /\ completed' > 0 => g = 0
      /\ completed' = 0 /\ failures' = FailuresSoFar => g = f
      /\ completed' = 0 /\ failures' = FailuresSoFar + 1 => g = f + 1
  BY <1>2, <1>3
<1>7. Leeway \in 1..n /\ Leeway' \in 1..n
  BY <1>3, <1>4, <1>5
<1>8. /\ g = f => Leeway' = Leeway
      /\ g = 0 => Leeway' = n
      /\ g = f + 1 => Leeway' = Leeway - 1
  <2>1. \A x, y \in Int : x - (y + 1) = (x - y) - 1 /\ x - 0 = x
    OBVIOUS
  <2>2. n \in Int /\ f \in Int
    BY <1>3
  <2> QED BY <1>4, <2>1, <2>2
<1> QED BY <1>3, <1>6, <1>7, <1>8

\* The steps left are a number, and no more than the constants say.
LEMMA StepsLeftBounded == ASSUME LoopOK PROVE Finite
<1>1. MaxFailures \in Nat \ {0} /\ Leeway \in 1..MaxFailures
  BY WatchAssumption DEF LoopOK, Leeway, FailuresSoFar
<1>2. Excess \in {0, 7} /\ InPass(pc) \in 0..7 /\ (Excess = 7 => InPass(pc) <= 2)
  BY DEF Excess, Excused, InPass
<1> QED BY <1>1, <1>2 DEF Finite, StepsLeft

\* Every one of these moves leaves fewer steps: a pass that ends costs a failure, or the
\* error that excused it.
LEMMA StuckShortens ==
  ASSUME LoopOK, LoopOK', LimitCounted, Stuck, Process
  PROVE  StepsLeft' < StepsLeft
<1> DEFINE Loops == {"sleep", "pass", "await", "cooling", "ready", "classify", "decide"}
<1>1. MaxFailures \in Nat \ {0} /\ Leeway \in 1..MaxFailures /\ Leeway' \in 1..MaxFailures
  BY WatchAssumption, LeewayMoves
<1>2. pc \in Loops => StepsLeft = 8 * Leeway + InPass(pc) + Excess
  BY DEF StepsLeft, Ended
<1>3. pc' \in Loops => StepsLeft' = 8 * Leeway' + InPass(pc') + Excess'
  BY DEF StepsLeft, Ended
<1>4. Excess \in {0, 7} /\ Excess' \in {0, 7}
  BY DEF Excess
<1>5. pc \notin {"classify", "decide"} => Excess = 0
  BY DEF Excess, Excused
<1>6. pc' \notin {"classify", "decide"} => Excess' = 0
  BY DEF Excess, Excused
<1>7. CASE pc' \in Ended
  <2>1. StepsLeft' = 0
    BY <1>7 DEF StepsLeft, Ended
  <2>2. pc \in Loops \cup {"running", "clear"}
    BY DEF Stuck, LoopOK, Labels, Ended
  <2>3. StepsLeft >= 1
    BY <1>1, <1>2, <1>4, <2>2 DEF StepsLeft, InPass, Ended
  <2>4. StepsLeft \in Int
    BY <1>1, StepsLeftBounded DEF Finite
  <2> QED BY <2>1, <2>3, <2>4
<1>8. CASE pc = "running" /\ (pc' = "clear" \/ (pc' = "classify" /\ Excess' = 0))
  BY <1>1, <1>3, <1>4, <1>8 DEF StepsLeft, InPass, Ended
<1>9. CASE pc = "clear" /\ pc' = "pass" /\ completed' > 0
  BY <1>1, <1>3, <1>6, <1>9, LeewayMoves DEF StepsLeft, InPass, Ended
<1>10. CASE StepsOn
  <2>1. Leeway' = Leeway /\ Excess' = 0 /\ Excess = 0
    BY <1>4, <1>5, <1>10, LeewayMoves DEF StepsOn
  <2>2. InPass(pc') < InPass(pc) /\ InPass(pc) \in Nat /\ InPass(pc') \in Nat
        /\ pc \in Loops /\ pc' \in Loops
    BY <1>10 DEF InPass, StepsOn
  <2> HIDE DEF Loops
  <2> QED BY <1>1, <1>2, <1>3, <2>1, <2>2
<1>11. CASE Classifies
  <2>1. Leeway' = Leeway /\ Excess' = Excess
    BY <1>11, LeewayMoves DEF Classifies, Excess, Excused
  <2> QED BY <1>1, <1>2, <1>3, <1>4, <1>11, <2>1 DEF Classifies, InPass
<1>12. CASE EndsPass
  <2>1. \/ Leeway' = Leeway /\ Excess = 7
        \/ Leeway' = Leeway - 1
    BY <1>4, <1>12, LeewayMoves DEF EndsPass
  <2>2. Excess' = 0
    BY <1>6, <1>12 DEF EndsPass
  <2> QED BY <1>1, <1>2, <1>3, <1>4, <1>12, <2>1, <2>2 DEF EndsPass, InPass
<1>13. \/ pc' \in Ended
       \/ pc = "running" /\ (pc' = "clear" \/ (pc' = "classify" /\ Excess' = 0))
       \/ pc = "clear" /\ pc' = "pass" /\ completed' > 0
       \/ StepsOn \/ Classifies \/ EndsPass
  BY StuckMoves DEF Retraces
<1> QED BY <1>7, <1>8, <1>9, <1>10, <1>11, <1>12, <1>13

\* Nothing outside the process gives a stuck watch more steps.
LEMMA OthersTire ==
  ASSUME LoopOK, Stuck, Tick \/ World \/ People
  PROVE  StepsLeft' <= StepsLeft
<1>1. CASE Tick \/ Cancel \/ OperatorClears \/ LimitBegins \/ LimitLifts \/ People
  <2>1. UNCHANGED <<pc, err, watching, completed, failures>>
    BY <1>1 DEF Tick, Cancel, OperatorClears, LimitBegins, LimitLifts, People,
                HumanEdits, HumanTidies, HumanAdds, SameWorld, volatile
  <2>2. StepsLeft' = StepsLeft
    BY <2>1 DEF StepsLeft, Leeway, FailuresSoFar, Excess, Excused
  <2> QED BY <2>2, StepsLeftBounded DEF Finite
<1>2. CASE Crash
  <2>1. StepsLeft' = 0
    BY <1>2 DEF Crash, Stop, StepsLeft, Ended
  <2> QED BY <2>1, StepsLeftBounded DEF Finite
<1>3. CASE Restart
  BY <1>3 DEF Restart, Stuck
<1> QED BY <1>1, <1>2, <1>3 DEF World

\* With work to do, a tree that is dirty and no usage limit met, the watch has a bounded
\* number of steps left in it, and every step it takes is one of them (Watch's
\* consecutiveFailures, which only a completed task and a tolerated error leave or reset).
THEOREM StuckWatchTires == Spec => []Finite /\ Wearies
<1>1. LoopOK /\ LoopOK' /\ Finite /\ Finite' /\ LimitCounted /\ [Next]_vars => [Tires]_vars
  <2> SUFFICES ASSUME LoopOK, LoopOK', Finite, Finite', LimitCounted, Next, Stuck
               PROVE  StepsLeft' <= StepsLeft /\ (Process => StepsLeft' < StepsLeft)
    BY DEF Tires
  <2>1. StepsLeft \in Int /\ StepsLeft' \in Int
    BY WatchAssumption DEF Finite
  <2>2. Process => StepsLeft' < StepsLeft
    BY StuckShortens
  <2>3. Tick \/ World \/ People => StepsLeft' <= StepsLeft
    BY OthersTire
  <2> QED BY <2>1, <2>2, <2>3 DEF Next
<1>2. TypeOK => LoopOK /\ Finite
  BY StepsLeftBounded DEF TypeOK
<1> QED BY <1>1, <1>2, Typed, LimitInvariant, PTL DEF Spec, Wearies
=============================================================================
