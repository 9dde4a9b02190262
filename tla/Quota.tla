------------------------------- MODULE Quota -------------------------------
(***************************************************************************)
(* The persisted cooldown of internal/quota/quota.go, as operators on the  *)
(* record kept in .ai/quota.json.  Time is relative: left is the number of *)
(* ticks until ResumeAt, and Elapse is the passing of one tick.  The       *)
(* reason, the time of detection and the checkpoint's name play no part in *)
(* any decision and are left out.                                          *)
(***************************************************************************)
EXTENDS Naturals

CONSTANTS
  BaseCooldown,  \* quota.sleepDuration: the wait after a first hit, in ticks
  MaxCooldown,   \* the cap of the backoff
  HitsCap        \* bound of the model: hits are not counted beyond it

ASSUME CooldownAssumption ==
  /\ BaseCooldown \in Nat \ {0} /\ MaxCooldown \in Nat \ {0} /\ HitsCap \in Nat \ {0}

States == [exhausted : BOOLEAN, left : Nat, hits : 0..HitsCap]

\* Also what load returns for a file that is missing or cannot be parsed.
Fresh == [exhausted |-> FALSE, left |-> 0, hits |-> 0]

\* availableAt: a cooldown whose deadline has passed is available again.
Available(q) == q.exhausted => q.left = 0

\* resumeTime without a hint: the base, doubled by every further hit, up to the
\* cap.  The base itself is not capped.
Wait[h \in Nat \ {0}] ==
  IF h = 1 THEN BaseCooldown
  ELSE IF 2 * Wait[h - 1] >= MaxCooldown THEN MaxCooldown ELSE 2 * Wait[h - 1]

\* Mutant of RecordExhaustion: the backoff is forgotten.
RecordExhaustionBase(q) ==
  [exhausted |-> TRUE, left |-> BaseCooldown, hits |-> IF q.hits < HitsCap THEN q.hits + 1 ELSE HitsCap]

\* RecordExhaustion; no caller has a reset time to pass as its hint.
RecordExhaustion(q) ==
  LET h == IF q.hits < HitsCap THEN q.hits + 1 ELSE HitsCap
  IN  [exhausted |-> TRUE, left |-> Wait[h], hits |-> h]

\* Clear forgets the cooldown and the backoff with it.
Clear(q) == Fresh

Elapse(q) ==
  [exhausted |-> q.exhausted, left |-> IF q.left > 0 THEN q.left - 1 ELSE 0, hits |-> q.hits]
=============================================================================
