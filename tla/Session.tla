------------------------------- MODULE Session -------------------------------
(***************************************************************************)
(* The session manager of internal/claude/session.go.  A call launches a   *)
(* new session or continues an old one, runs the CLI until an attempt is   *)
(* good, limited, or the last one allowed, and records in the session's    *)
(* metadata file how it ended.  Others ask that file afterwards:           *)
(* DetectFailure decides whether the pipeline waits for the usage limit.   *)
(*                                                                         *)
(* The manager's lock admits one call at a time; a crash may fall anywhere *)
(* in it, and its metadata stays on the disk for the next process.         *)
(***************************************************************************)
EXTENDS Naturals, Sequences

CONSTANTS
  MaxRetries,   \* claude.maxRetries: how many attempts a call may make
  \* Bounds, on sessions, operations, failing writes, failing starts of the CLI, and crashes.
  MaxSessions, MaxCalls, MaxFaults, MaxUnrun, MaxCrashes

ASSUME SessionAssumption ==
  {MaxRetries, MaxSessions, MaxCalls, MaxFaults, MaxUnrun, MaxCrashes} \subseteq Nat

VARIABLES
  meta,      \* the metadata files
  current,   \* currentSessionID
  call,      \* the call in progress
  tried,     \* how the attempts of the latest call ended
  shown,     \* what its last attempt showed
  reply,     \* what the latest call returned
  env

vars == <<meta, current, call, tried, shown, reply, env>>

Sessions == 1..MaxSessions    \* ids, numbered as they are generated; 0 stands for none
Failure  == {"quota", "network", "timeout", "crash"}
Statuses == {"active", "paused", "completed", "failed"}
Meta   == [file : {"none", "whole", "torn"}, status : Statuses \cup {"none"},
           lastFailure : Failure \cup {"none"}, spent : BOOLEAN, errors : BOOLEAN]
NoFile == [file |-> "none", status |-> "none", lastFailure |-> "none", spent |-> FALSE, errors |-> FALSE]
Torn   == [NoFile EXCEPT !.file = "torn"]   \* cut short: it cannot be loaded

\* What one run of the CLI shows: a time-out, a marker of either kind anywhere in its
\* output, an error flag in its envelope, a non-zero exit status.
Runs == [timedOut : BOOLEAN, limit : BOOLEAN, network : BOOLEAN, isError : BOOLEAN, exit : BOOLEAN]
Fine == [timedOut |-> FALSE, limit |-> FALSE, network |-> FALSE, isError |-> FALSE, exit |-> FALSE]

NoCall  == [at |-> "idle", sid |-> 0, errors |-> FALSE, meta |-> NoFile]
NoReply == [sid |-> 0, failed |-> FALSE, errors |-> FALSE, ran |-> FALSE]
Attempts == IF MaxRetries < 1 THEN 1 ELSE MaxRetries
-----------------------------------------------------------------------------
\* Mutant: the exit status is looked at first.
ClassifyExitFirst(r) ==
  CASE r.timedOut -> "timeout"
    [] ~r.timedOut /\ (r.isError \/ r.exit) -> "crash"
    [] OTHER -> IF r.limit THEN "quota" ELSE IF r.network THEN "network" ELSE "none"

\* executePrompt: the first that applies.
Classify(r) ==
  CASE r.timedOut -> "timeout"
    [] ~r.timedOut /\ r.limit -> "quota"
    [] ~r.timedOut /\ ~r.limit /\ r.network -> "network"
    [] OTHER -> IF r.isError \/ r.exit THEN "crash" ELSE "none"

\* The session's file can be loaded.
Loads(s) == meta[s].file = "whole"

DetectFailure    == IF current = 0 \/ ~Loads(current) THEN "crash" ELSE meta[current].lastFailure
IsQuotaExhausted == current # 0 /\ Loads(current) /\ meta[current].spent

Save(s, m) == meta' = [meta EXCEPT ![s] = m]

\* A write of the session's file fails, before it empties the file or after.  (lost is
\* history: the sessions a write of which did not take place.)
SaveFails(s, e) ==
  /\ env.faults < MaxFaults /\ env' = [e EXCEPT !.faults = @ + 1, !.lost = @ \cup {s}]
  /\ meta' = meta \/ Save(s, Torn)
Free       == call.at = "idle"
Begin(s, m) == /\ call' = [at |-> "trying", sid |-> s, errors |-> FALSE, meta |-> m]
               /\ current' = s /\ tried' = <<>> /\ shown' = Fine /\ reply' = NoReply
Return(s, failed, errors, ran) ==
  /\ call' = NoCall
  /\ reply' = [sid |-> s, failed |-> failed, errors |-> errors, ran |-> ran]
CountCall  == env.calls < MaxCalls /\ env' = [env EXCEPT !.calls = @ + 1]
-----------------------------------------------------------------------------
Init == /\ meta = [s \in Sessions |-> NoFile]
        /\ current = 0 /\ call = NoCall /\ tried = <<>> /\ shown = Fine /\ reply = NoReply
        /\ env = [launched |-> 0, calls |-> 0, unrun |-> 0, faults |-> 0, crashes |-> 0,
                  lost |-> {}]

\* LaunchSession: a new id becomes the current one before its file is written.
LaunchSession ==
  /\ Free /\ env.launched + 1 \in Sessions /\ env.calls < MaxCalls
  /\ LET s == env.launched + 1
         m == [NoFile EXCEPT !.file = "whole", !.status = "active"]
     IN  \/ /\ Save(s, m) /\ Begin(s, m)
            /\ env' = [env EXCEPT !.launched = s, !.calls = @ + 1]
         \/ /\ SaveFails(s, [env EXCEPT !.launched = s])
            /\ current' = s /\ tried' = <<>> /\ shown' = Fine /\ Return(s, TRUE, FALSE, FALSE)

\* ContinueSession: the file keeps its old status until the call ends.
ContinueSession(s) ==
  /\ Free /\ Loads(s) /\ CountCall
  /\ Begin(s, [meta[s] EXCEPT !.status = "active"])
  /\ UNCHANGED meta

\* The loop of runAndRecord goes on after this outcome.
Again(f) == f \notin {"none", "quota"} /\ Len(tried) + 1 < Attempts

\* One run of the CLI, classified.
Attempt ==
  /\ call.at = "trying"
  /\ \E r \in Runs : LET f == Classify(r) IN
       /\ tried' = Append(tried, f) /\ shown' = r
       /\ call' = IF Again(f) THEN [call EXCEPT !.errors = TRUE] ELSE [call EXCEPT !.at = "recording"]
  /\ UNCHANGED <<meta, current, reply, env>>

NotRun == env.unrun < MaxUnrun

\* Mutant: the error goes back to the caller, and nowhere else.
CannotRunSilently ==
  /\ call.at = "trying" /\ NotRun /\ env' = [env EXCEPT !.unrun = @ + 1]
  /\ Return(call.sid, TRUE, TRUE, FALSE) /\ UNCHANGED <<meta, current, tried, shown>>

\* The CLI could not be run at all, or the context was cancelled: the status is
\* recorded, if that works, and the last failure is left as it was.
CannotRun ==
  /\ call.at = "trying" /\ NotRun
  /\ \/ /\ Save(call.sid, [call.meta EXCEPT !.status = "failed", !.errors = TRUE])
        /\ env' = [env EXCEPT !.unrun = @ + 1]
     \/ SaveFails(call.sid, [env EXCEPT !.unrun = @ + 1])
  /\ Return(call.sid, TRUE, TRUE, FALSE) /\ UNCHANGED <<current, tried, shown>>

Last(s) == s[Len(s)]

\* Mutant: success does not clear the failure of the call before.
OutcomeKeepsFailure(m, f) ==
  IF f = "none" THEN [m EXCEPT !.status = "completed", !.errors = call.errors]
  ELSE [m EXCEPT !.status = IF f = "quota" THEN "paused" ELSE "failed", !.lastFailure = f,
                 !.errors = TRUE, !.spent = f = "quota" \/ @]

\* How the last attempt changes the metadata.
Outcome(m, f) ==
  IF f = "none" THEN [m EXCEPT !.status = "completed", !.lastFailure = "none", !.errors = call.errors]
  ELSE [m EXCEPT !.status = IF f = "quota" THEN "paused" ELSE "failed", !.lastFailure = f,
                 !.errors = TRUE, !.spent = f = "quota" \/ @]

\* The end of runAndRecord.
Record ==
  /\ call.at = "recording"
  /\ LET f == Last(tried) IN
       \/ /\ Save(call.sid, Outcome(call.meta, f))
          /\ Return(call.sid, FALSE, call.errors \/ f # "none", TRUE) /\ UNCHANGED env
       \/ SaveFails(call.sid, env) /\ Return(call.sid, TRUE, call.errors \/ f # "none", TRUE)
  /\ UNCHANGED <<current, tried, shown>>

\* ResumeSession: makes the session the current one, and writes its file, whose error is
\* dropped.
ResumeSession(s) == /\ Free /\ Loads(s)
                    /\ \/ CountCall /\ Save(s, meta[s])
                       \/ SaveFails(s, env)
                    /\ current' = s /\ UNCHANGED <<call, tried, shown, reply>>

EndSession(s) == /\ Free /\ Loads(s)
                 /\ \/ CountCall /\ Save(s, [meta[s] EXCEPT !.status = "completed"])
                    \/ SaveFails(s, env)
                 /\ UNCHANGED <<current, call, tried, shown, reply>>

\* RecoverFromFailure, of any known kind.
RecoverFromFailure == /\ Free /\ current # 0 /\ Loads(current)
                      /\ \/ CountCall /\ Save(current, [meta[current] EXCEPT !.status = "paused", !.errors = TRUE])
                         \/ SaveFails(current, env)
                      /\ UNCHANGED <<current, call, tried, shown, reply>>

\* The files a write may be under way to: the call's, or any that is there.  (One that a
\* launch was beginning cannot be loaded and is as good as none.)
Writing == IF Free THEN {s \in Sessions : Loads(s)} ELSE {call.sid}

\* The process dies, perhaps in a write; the next one starts without a current session.
Crash == /\ env.crashes < MaxCrashes
         /\ env' = [env EXCEPT !.crashes = @ + 1, !.lost = IF Free THEN @ ELSE @ \cup {call.sid}]
         /\ meta' = meta \/ \E s \in Writing : Save(s, Torn)
         /\ current' = 0 /\ call' = NoCall /\ tried' = <<>> /\ shown' = Fine /\ reply' = NoReply

Run  == Attempt \/ CannotRun \/ Record
Next == \/ LaunchSession \/ Run \/ RecoverFromFailure \/ Crash
        \/ \E s \in Sessions : ContinueSession(s) \/ ResumeSession(s) \/ EndSession(s)
Spec == Init /\ [][Next]_vars
-----------------------------------------------------------------------------
Places  == {"idle", "trying", "recording"}
Calls   == [at : Places, sid : Sessions \cup {0}, errors : BOOLEAN, meta : Meta]
Replies == [sid : Sessions \cup {0}, failed : BOOLEAN, errors : BOOLEAN, ran : BOOLEAN]
Events  == [launched : Sessions \cup {0}, calls : 0..MaxCalls, faults : 0..MaxFaults,
            unrun : 0..MaxUnrun, crashes : 0..MaxCrashes, lost : SUBSET Sessions]

\* Types, with the bound on a call's attempts.
TypeOK ==
  /\ meta \in [Sessions -> Meta] /\ current \in Sessions \cup {0} /\ call \in Calls
  /\ shown \in Runs /\ tried \in Seq(Failure \cup {"none"}) /\ Len(tried) <= Attempts
  /\ reply \in Replies /\ env \in Events

\* A call answered normally, and its session is still the current one; nor did a later
\* write that failed cut its file short.
Fresh == /\ Free /\ reply.ran /\ ~reply.failed /\ current = reply.sid
         /\ current \in env.lost => Loads(current)

\* What DetectFailure reports after a call is how its last attempt ended, also for a
\* session that failed some other way before; and a limit shows as spent quota.
DetectAgrees ==
  Fresh => /\ DetectFailure = Last(tried)
           /\ DetectFailure = "quota" => IsQuotaExhausted

\* A run whose output names a usage limit is on record as limited, whatever else went
\* wrong with it, unless it timed out: the pipeline waits instead of failing.
LimitReachesCaller ==
  Fresh /\ tried # <<>> /\ shown.limit /\ ~shown.timedOut => DetectFailure = "quota"

\* A session shown as active, with no call in progress, is one whose own file could not
\* be written or whose process died in a call, whatever happened to the others.
NoneLeftActive ==
  Free => \A s \in Sessions : meta[s].status = "active" => s \in env.lost
=============================================================================
