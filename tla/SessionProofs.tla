---------------------------- MODULE SessionProofs ----------------------------
(***************************************************************************)
(* What others find on record when a call of the session manager is over:  *)
(* for any number of sessions, calls, attempts, files that could not be    *)
(* written or were cut short, runs that could not be started, and crashes. *)
(*                                                                         *)
(* What makes it inductive: a call keeps its session current and on the    *)
(* disk, what was shown last is what the last attempt was taken for, and a *)
(* call that was recorded is on record as that attempt ended, which what   *)
(* happens between calls does not change but by cutting the file short.    *)
(***************************************************************************)
EXTENDS Session, TLAPS

\* A call in progress is the current session's, with its metadata in hand, and has attempts
\* left until it comes to an end.
InCall ==
  call.at # "idle" =>
    /\ call.sid \in Sessions /\ current = call.sid /\ ~reply.ran
    /\ call.meta.file = "whole"
    /\ call.at = "trying" => Len(tried) < Attempts
    /\ call.at = "recording" => tried # <<>>

\* What was shown last is what the last attempt was taken for.
Shown == tried # <<>> => Last(tried) = Classify(shown)

\* A call that was recorded is on record as its last attempt ended, if its file can still
\* be loaded, which only a write that failed changes.
OnRecord ==
  reply.ran /\ ~reply.failed =>
    /\ reply.sid \in Sessions /\ tried # <<>>
    /\ Loads(reply.sid) => /\ meta[reply.sid].lastFailure = Last(tried)
                           /\ Last(tried) = "quota" => meta[reply.sid].spent
    /\ ~Loads(reply.sid) => reply.sid \in env.lost

\* Only the session of the call in progress is shown as active, and those of which a write
\* did not take place.
Active ==
  \A s \in Sessions :
    meta[s].status = "active" => s \in env.lost \/ (call.at # "idle" /\ s = call.sid)

IInv == TypeOK /\ InCall /\ Shown /\ OnRecord /\ Active
-----------------------------------------------------------------------------
Outcomes == Failure \cup {"none"}

LEMMA ClassifyType == ASSUME NEW r PROVE Classify(r) \in Outcomes
BY DEF Classify, Outcomes, Failure

\* What a sequence of outcomes becomes when one is added.
LEMMA OneMore ==
  ASSUME NEW s \in Seq(Outcomes), NEW f \in Outcomes
  PROVE  /\ Append(s, f) \in Seq(Outcomes) /\ Len(Append(s, f)) = Len(s) + 1
         /\ Append(s, f) # <<>> /\ Last(Append(s, f)) = f
BY DEF Last

LEMMA LastType == ASSUME NEW s \in Seq(Outcomes), s # <<>> PROVE Last(s) \in Outcomes
BY DEF Last

\* Metadata that is updated is metadata, and keeps the rest.
Shows(m, old, st) ==
  /\ m \in Meta /\ m.status = st /\ m.file = old.file
  /\ m.lastFailure = old.lastFailure /\ m.spent = old.spent

LEMMA UpdatedMeta ==
  ASSUME NEW m \in Meta
  PROVE  /\ \A st \in Statuses : /\ Shows([m EXCEPT !.status = st], m, st)
                                 /\ Shows([m EXCEPT !.status = st, !.errors = TRUE], m, st)
         /\ \A e \in BOOLEAN :
              [m EXCEPT !.status = "completed", !.lastFailure = "none", !.errors = e] \in Meta
         /\ \A st \in Statuses, f \in Outcomes, c \in BOOLEAN :
              [m EXCEPT !.status = st, !.lastFailure = f, !.errors = TRUE, !.spent = c] \in Meta
<1>1. ASSUME NEW st \in Statuses
      PROVE  /\ Shows([m EXCEPT !.status = st], m, st)
             /\ Shows([m EXCEPT !.status = st, !.errors = TRUE], m, st)
  BY DEF Meta, Statuses, Shows
<1>2. ASSUME NEW e \in BOOLEAN
      PROVE  [m EXCEPT !.status = "completed", !.lastFailure = "none", !.errors = e] \in Meta
  BY DEF Meta, Statuses
<1>3. ASSUME NEW st \in Statuses, NEW f \in Outcomes, NEW c \in BOOLEAN
      PROVE  [m EXCEPT !.status = st, !.lastFailure = f, !.errors = TRUE, !.spent = c] \in Meta
  BY DEF Meta, Outcomes
<1> QED BY <1>1, <1>2, <1>3

LEMMA NewMeta ==
  /\ NoFile \in Meta /\ [NoFile EXCEPT !.file = "whole", !.status = "active"] \in Meta
  /\ [NoFile EXCEPT !.file = "whole", !.status = "active"].file = "whole"
  /\ NoFile.file = "none" /\ NoFile.status # "active"
  /\ Torn \in Meta /\ Torn.file = "torn" /\ Torn.status # "active"
BY DEF NoFile, Meta, Statuses, Torn

\* What the end of a call leaves on record.
LEMMA RecordedOutcome ==
  ASSUME NEW m \in Meta, NEW f \in Outcomes, call.errors \in BOOLEAN
  PROVE  /\ Outcome(m, f) \in Meta
         /\ Outcome(m, f).file = m.file /\ Outcome(m, f).status # "active"
         /\ Outcome(m, f).lastFailure = f /\ (f = "quota" => Outcome(m, f).spent)
<1>1. CASE f = "none"
  BY <1>1, UpdatedMeta DEF Outcome, Meta
<1>2. CASE f # "none"
  <2> DEFINE st == IF f = "quota" THEN "paused" ELSE "failed"
             c == f = "quota" \/ m.spent
  <2>1. st \in Statuses /\ st # "active" /\ c \in BOOLEAN /\ (f = "quota" => c)
    BY DEF Meta, Statuses
  <2>2. Outcome(m, f) = [m EXCEPT !.status = st, !.lastFailure = f, !.errors = TRUE, !.spent = c]
    BY <1>2 DEF Outcome
  <2> HIDE DEF st, c
  <2>3. [m EXCEPT !.status = st, !.lastFailure = f, !.errors = TRUE, !.spent = c] \in Meta
    BY <2>1, UpdatedMeta
  <2> QED BY <2>1, <2>2, <2>3 DEF Meta
<1> QED BY <1>1, <1>2
-----------------------------------------------------------------------------
\* A call that goes on, and one that is over.
LEMMA CallTypes ==
  /\ NoCall \in Calls /\ NoCall.at = "idle" /\ NoReply \in Replies /\ ~NoReply.ran /\ Fine \in Runs
  /\ \A s \in Sessions, m \in Meta :
       [at |-> "trying", sid |-> s, errors |-> FALSE, meta |-> m] \in Calls
  /\ \A c \in Calls : /\ [c EXCEPT !.errors = TRUE] \in Calls
                      /\ [c EXCEPT !.at = "recording"] \in Calls
  /\ \A s \in Sessions, failed, errors, ran \in BOOLEAN :
       [sid |-> s, failed |-> failed, errors |-> errors, ran |-> ran] \in Replies
<1>1. /\ NoCall \in Calls /\ NoCall.at = "idle" /\ NoReply \in Replies /\ ~NoReply.ran
      /\ Fine \in Runs
  BY NewMeta DEF NoCall, NoReply, Calls, Replies, Places, Fine, Runs
<1>2. ASSUME NEW s \in Sessions, NEW m \in Meta
      PROVE  [at |-> "trying", sid |-> s, errors |-> FALSE, meta |-> m] \in Calls
  BY DEF Calls, Places
<1>3. ASSUME NEW c \in Calls
      PROVE  [c EXCEPT !.errors = TRUE] \in Calls /\ [c EXCEPT !.at = "recording"] \in Calls
  BY DEF Calls, Places
<1>4. ASSUME NEW s \in Sessions, NEW failed \in BOOLEAN, NEW errors \in BOOLEAN, NEW ran \in BOOLEAN
      PROVE  [sid |-> s, failed |-> failed, errors |-> errors, ran |-> ran] \in Replies
  BY DEF Replies
<1> QED BY <1>1, <1>2, <1>3, <1>4

\* Counting an event, below its bound: no lost write is forgotten.
After(e, n) == n \in Events /\ e.lost \subseteq n.lost

LEMMA Counted ==
  ASSUME NEW e \in Events
  PROVE  /\ \A s \in Sessions :
              /\ [e EXCEPT !.launched = s] \in Events /\ [e EXCEPT !.launched = s].lost = e.lost
              /\ [e EXCEPT !.launched = s].faults = e.faults
              /\ e.calls < MaxCalls => After(e, [e EXCEPT !.launched = s, !.calls = @ + 1])
              /\ e.faults < MaxFaults =>
                   After(e, [e EXCEPT !.faults = @ + 1, !.lost = @ \cup {s}])
              /\ s \in [e EXCEPT !.faults = @ + 1, !.lost = @ \cup {s}].lost
              /\ e.crashes < MaxCrashes =>
                   After(e, [e EXCEPT !.crashes = @ + 1, !.lost = @ \cup {s}])
              /\ s \in [e EXCEPT !.crashes = @ + 1, !.lost = @ \cup {s}].lost
         /\ e.calls < MaxCalls => After(e, [e EXCEPT !.calls = @ + 1])
         /\ e.unrun < MaxUnrun =>
              /\ After(e, [e EXCEPT !.unrun = @ + 1])
              /\ [e EXCEPT !.unrun = @ + 1].lost = e.lost
              /\ [e EXCEPT !.unrun = @ + 1].faults = e.faults
         /\ e.crashes < MaxCrashes => After(e, [e EXCEPT !.crashes = @ + 1, !.lost = @])
<1> USE SessionAssumption
<1>1. /\ e.calls \in Nat /\ e.faults \in Nat /\ e.unrun \in Nat /\ e.crashes \in Nat
      /\ {MaxCalls, MaxFaults, MaxUnrun, MaxCrashes} \subseteq Nat
      /\ e.calls < MaxCalls => e.calls + 1 \in 0..MaxCalls
      /\ e.faults < MaxFaults => e.faults + 1 \in 0..MaxFaults
      /\ e.unrun < MaxUnrun => e.unrun + 1 \in 0..MaxUnrun
      /\ e.crashes < MaxCrashes => e.crashes + 1 \in 0..MaxCrashes
      /\ e.lost \subseteq Sessions
  BY DEF Events
<1>2. PICK c, f, u, d : c = e.calls + 1 /\ f = e.faults + 1 /\ u = e.unrun + 1 /\ d = e.crashes + 1
  OBVIOUS
<1>3. ASSUME NEW s \in Sessions
      PROVE  /\ [e EXCEPT !.launched = s] \in Events /\ [e EXCEPT !.launched = s].lost = e.lost
             /\ [e EXCEPT !.launched = s].faults = e.faults
             /\ c \in 0..MaxCalls => After(e, [e EXCEPT !.launched = s, !.calls = c])
             /\ f \in 0..MaxFaults => After(e, [e EXCEPT !.faults = f, !.lost = @ \cup {s}])
             /\ s \in [e EXCEPT !.faults = f, !.lost = @ \cup {s}].lost
             /\ d \in 0..MaxCrashes => After(e, [e EXCEPT !.crashes = d, !.lost = @ \cup {s}])
             /\ s \in [e EXCEPT !.crashes = d, !.lost = @ \cup {s}].lost
  <2>1. PICK l : l = e.lost \cup {s} OBVIOUS
  <2>2. l \subseteq Sessions /\ s \in l /\ e.lost \subseteq l BY <1>1, <2>1
  <2>3. /\ f \in 0..MaxFaults => After(e, [e EXCEPT !.faults = f, !.lost = l])
        /\ [e EXCEPT !.faults = f, !.lost = l].lost = l
        /\ d \in 0..MaxCrashes => After(e, [e EXCEPT !.crashes = d, !.lost = l])
        /\ [e EXCEPT !.crashes = d, !.lost = l].lost = l
    BY <2>2 DEF Events, After
  <2>4. /\ [e EXCEPT !.launched = s] \in Events /\ [e EXCEPT !.launched = s].lost = e.lost
        /\ [e EXCEPT !.launched = s].faults = e.faults
        /\ c \in 0..MaxCalls => After(e, [e EXCEPT !.launched = s, !.calls = c])
    BY <1>1 DEF Events, After
  <2> QED BY ONLY <2>1, <2>2, <2>3, <2>4
<1>4. /\ c \in 0..MaxCalls => After(e, [e EXCEPT !.calls = c])
      /\ u \in 0..MaxUnrun => After(e, [e EXCEPT !.unrun = u])
      /\ [e EXCEPT !.unrun = u].lost = e.lost /\ [e EXCEPT !.unrun = u].faults = e.faults
      /\ d \in 0..MaxCrashes => After(e, [e EXCEPT !.crashes = d, !.lost = @])
  BY DEF Events, After
<1> QED BY ONLY <1>1, <1>2, <1>3, <1>4

\* A failing write, of a session that is counted in.
LEMMA FaultCounted ==
  ASSUME NEW e \in Events, After(env, e), e.faults = env.faults, NEW s \in Sessions, SaveFails(s, e)
  PROVE  After(env, env') /\ s \in env'.lost
BY Counted DEF SaveFails, After

LEMMA Counting == ASSUME TypeOK, InCall, [Next]_vars PROVE After(env, env')
<1>1. env \in Events /\ After(env, env) BY DEF TypeOK, After
<1>2. CASE UNCHANGED env BY <1>1, <1>2
<1>3. CASE LaunchSession
  <2>1. PICK s \in Sessions :
          \/ env' = [env EXCEPT !.launched = s, !.calls = @ + 1] /\ env.calls < MaxCalls
          \/ SaveFails(s, [env EXCEPT !.launched = s])
    BY <1>3 DEF LaunchSession
  <2>2. CASE SaveFails(s, [env EXCEPT !.launched = s])
    <3>1. PICK e : e = [env EXCEPT !.launched = s] OBVIOUS
    <3>2. e \in Events /\ After(env, e) /\ e.faults = env.faults BY <1>1, <3>1, Counted DEF After
    <3> QED BY <2>2, <3>1, <3>2, FaultCounted
  <2> QED BY <1>1, <2>1, <2>2, Counted
<1>4. CASE CannotRun
  <2>1. call.sid \in Sessions BY <1>4 DEF CannotRun, InCall
  <2>2. PICK e : e = [env EXCEPT !.unrun = @ + 1] OBVIOUS
  <2>3. e \in Events /\ After(env, e) /\ e.faults = env.faults
    BY <1>1, <1>4, <2>2, Counted DEF After, CannotRun, NotRun
  <2>4. env' = e \/ SaveFails(call.sid, e) BY <1>4, <2>2 DEF CannotRun
  <2> QED BY <2>1, <2>3, <2>4, FaultCounted
<1>5. ASSUME NEW s \in Sessions, SaveFails(s, env) PROVE After(env, env')
  BY <1>1, <1>5, FaultCounted
<1>6. CASE CountCall BY <1>1, <1>6, Counted DEF CountCall
<1>7. CASE Crash
  <2>1. CASE Free
    <3>1. env' = [env EXCEPT !.crashes = @ + 1, !.lost = @] /\ env.crashes < MaxCrashes
      BY <1>7, <2>1 DEF Crash
    <3> QED BY <1>1, <3>1, Counted
  <2>2. CASE ~Free
    <3>1. env' = [env EXCEPT !.crashes = @ + 1, !.lost = @ \cup {call.sid}] /\ env.crashes < MaxCrashes
      BY <1>7, <2>2 DEF Crash
    <3>2. call.sid \in Sessions BY <2>2 DEF InCall, Free
    <3> QED BY <1>1, <3>1, <3>2, Counted
  <2> QED BY <2>1, <2>2
<1>8. CASE Record BY <1>2, <1>5, <1>8 DEF Record, InCall
<1>9. CASE RecoverFromFailure BY <1>5, <1>6, <1>9 DEF RecoverFromFailure, TypeOK
<1>10. ASSUME NEW s \in Sessions, ContinueSession(s) \/ ResumeSession(s) \/ EndSession(s)
       PROVE  After(env, env')
  BY <1>5, <1>6, <1>10 DEF ContinueSession, ResumeSession, EndSession
<1> QED
  BY <1>2, <1>3, <1>4, <1>7, <1>8, <1>9, <1>10 DEF Next, Run, Attempt, vars
-----------------------------------------------------------------------------
LEMMA InitIInv == Init => IInv
<1> SUFFICES ASSUME Init PROVE IInv OBVIOUS
<1> USE SessionAssumption
<1>1. env \in Events BY DEF Init, Events
<1>2. TypeOK
  <2>1. meta \in [Sessions -> Meta] /\ \A s \in Sessions : meta[s] = NoFile BY NewMeta DEF Init
  <2>2. call \in Calls /\ shown \in Runs /\ reply \in Replies BY CallTypes DEF Init
  <2>3. tried \in Seq(Outcomes) /\ Len(tried) <= Attempts BY DEF Init, Attempts
  <2> QED BY <1>1, <2>1, <2>2, <2>3 DEF TypeOK, Init, Outcomes
<1>3. ~reply.ran /\ call.at = "idle" /\ tried = <<>> BY CallTypes DEF Init
<1>4. \A s \in Sessions : meta[s].status # "active" BY NewMeta DEF Init
<1> QED BY <1>2, <1>3, <1>4 DEF IInv, InCall, Shown, OnRecord, Active

\* A call begins: nothing was tried, and its session is on the disk.
LEMMA BeginStep ==
  ASSUME IInv, [Next]_vars, call.at = "idle", NEW s \in Sessions, NEW m \in Meta,
         m.file = "whole", Begin(s, m), meta' = meta \/ meta' = [meta EXCEPT ![s] = m]
  PROVE  IInv'
<1>1. After(env, env') BY Counting DEF IInv
<1>2. /\ call' = [at |-> "trying", sid |-> s, errors |-> FALSE, meta |-> m] /\ call' \in Calls
      /\ current' = s /\ tried' = <<>> /\ shown' = Fine /\ shown' \in Runs
      /\ reply' = NoReply /\ reply' \in Replies /\ ~NoReply.ran
  BY CallTypes DEF Begin
<1>3. call'.at = "trying" /\ call'.sid = s /\ call'.meta = m BY <1>2
<1>4. /\ meta' \in [Sessions -> Meta]
      /\ \A x \in Sessions : x # s => meta'[x] = meta[x]
  BY DEF IInv, TypeOK
<1>5. TypeOK'
  BY <1>1, <1>2, <1>4, SessionAssumption DEF TypeOK, After, Attempts, Outcomes
<1>6. InCall' BY <1>2, <1>3, <1>4, SessionAssumption DEF InCall, Attempts
<1>7. Shown' /\ OnRecord' BY <1>2 DEF Shown, OnRecord
<1>8. Active' BY <1>1, <1>3, <1>4 DEF IInv, Active, After
<1> QED BY <1>5, <1>6, <1>7, <1>8 DEF IInv

\* A call ends: what is on the disk is no longer active, unless the file could not be
\* written.
LEMMA ReturnStep ==
  ASSUME IInv, [Next]_vars, current' \in Sessions,
         NEW s \in Sessions, NEW failed \in BOOLEAN, NEW errors \in BOOLEAN, NEW ran \in BOOLEAN,
         Return(s, failed, errors, ran),
         UNCHANGED <<tried, shown>> \/ (tried' = <<>> /\ shown' = Fine /\ ~ran),
         call.at # "idle" => s = call.sid,
         \/ (meta' = meta \/ Save(s, Torn)) /\ failed /\ s \in env'.lost
         \/ \E m \in Meta : /\ meta' = [meta EXCEPT ![s] = m] /\ m.file = "whole" /\ m.status # "active"
                            /\ ran /\ ~failed => /\ tried # <<>> /\ m.lastFailure = Last(tried)
                                                 /\ Last(tried) = "quota" => m.spent
                            /\ call.at # "idle"
  PROVE  IInv'
<1>0. /\ tried' \in Seq(Failure \cup {"none"}) /\ Len(tried') <= Attempts /\ shown' \in Runs
      /\ tried' # <<>> => Last(tried') = Classify(shown')
      /\ ran => tried' = tried
  <2>1. CASE UNCHANGED <<tried, shown>> BY <2>1 DEF IInv, TypeOK, Shown
  <2>2. CASE tried' = <<>> /\ shown' = Fine /\ ~ran
    BY <2>2, CallTypes, SessionAssumption DEF Attempts
  <2> QED BY <2>1, <2>2
<1>1. After(env, env') BY Counting DEF IInv
<1>2. /\ call' = NoCall /\ call' \in Calls /\ call'.at = "idle"
      /\ reply' = [sid |-> s, failed |-> failed, errors |-> errors, ran |-> ran]
      /\ reply' \in Replies
  BY CallTypes DEF Return
<1>3. reply'.sid = s /\ reply'.failed = failed /\ reply'.ran = ran BY <1>2
<1>4. CASE (meta' = meta \/ Save(s, Torn)) /\ failed /\ s \in env'.lost
  <2>0. /\ meta' \in [Sessions -> Meta]
        /\ \A x \in Sessions : meta'[x].status = "active" => meta[x].status = "active"
    BY <1>4, NewMeta DEF IInv, TypeOK, Save
  <2>1. TypeOK' BY <1>0, <1>1, <1>2, <2>0 DEF IInv, TypeOK, After
  <2>2. InCall' /\ Shown' BY <1>0, <1>2 DEF InCall, Shown
  <2>3. OnRecord' BY <1>3, <1>4 DEF OnRecord
  <2>4. Active' BY <1>1, <1>4, <2>0 DEF IInv, Active, After
  <2> QED BY <2>1, <2>2, <2>3, <2>4 DEF IInv
<1>5. ASSUME NEW m \in Meta, meta' = [meta EXCEPT ![s] = m], m.file = "whole", m.status # "active",
             ran /\ ~failed => /\ tried # <<>> /\ m.lastFailure = Last(tried)
                               /\ Last(tried) = "quota" => m.spent,
             call.at # "idle"
      PROVE  IInv'
  <2>1. /\ meta' \in [Sessions -> Meta] /\ meta'[s] = m
        /\ \A x \in Sessions : x # s => meta'[x] = meta[x]
    BY <1>5 DEF IInv, TypeOK
  <2>2. TypeOK' BY <1>0, <1>1, <1>2, <2>1 DEF IInv, TypeOK, After
  <2>3. InCall' /\ Shown' BY <1>0, <1>2 DEF InCall, Shown
  <2>4. OnRecord' BY <1>0, <1>3, <1>5, <2>1 DEF OnRecord, Loads
  <2>5. Active' BY <1>1, <1>5, <2>1 DEF IInv, Active, After
  <2> QED BY <2>2, <2>3, <2>4, <2>5 DEF IInv
<1> QED BY <1>4, <1>5

\* Between calls: how a session is shown changes, and what its last failure was does not,
\* unless its file is cut short.
LEMMA BetweenStep ==
  ASSUME IInv, [Next]_vars, call.at = "idle", UNCHANGED <<call, tried, shown, reply>>,
         current' \in Sessions \cup {0}, NEW s \in Sessions, NEW m \in Meta,
         m.file = meta[s].file, m.status = "active" => meta[s].status = "active",
         m.lastFailure = meta[s].lastFailure, m.spent = meta[s].spent,
         \/ Save(s, m)
         \/ (meta' = meta \/ Save(s, Torn)) /\ s \in env'.lost
  PROVE  IInv'
<1>1. After(env, env') BY Counting DEF IInv
<1>2. /\ meta' \in [Sessions -> Meta]
      /\ \A x \in Sessions :
           /\ meta'[x].status = "active" => meta[x].status = "active"
           /\ meta'[x].file = "whole" => /\ meta[x].file = "whole"
                                         /\ meta'[x].lastFailure = meta[x].lastFailure
                                         /\ meta'[x].spent = meta[x].spent
           /\ meta'[x].file # "whole" => meta[x].file # "whole" \/ x \in env'.lost
  BY NewMeta DEF IInv, TypeOK, Save
<1>3. TypeOK' BY <1>1, <1>2 DEF IInv, TypeOK, After
<1>4. InCall' /\ Shown' BY DEF IInv, InCall, Shown
<1>5. OnRecord' BY <1>1, <1>2 DEF IInv, OnRecord, Loads, After
<1>6. Active' BY <1>1, <1>2 DEF IInv, Active, After
<1> QED BY <1>3, <1>4, <1>5, <1>6 DEF IInv

\* An attempt is classified, and the call goes on or comes to its end.
LEMMA AttemptStep == ASSUME IInv, [Next]_vars, Attempt PROVE IInv'
<1>1. After(env, env') BY Counting DEF IInv
<1>2. PICK r \in Runs : /\ tried' = Append(tried, Classify(r)) /\ shown' = r
                        /\ call' = IF Again(Classify(r)) THEN [call EXCEPT !.errors = TRUE]
                                                         ELSE [call EXCEPT !.at = "recording"]
  BY DEF Attempt
<1>3. /\ call.at = "trying" /\ call \in Calls /\ meta' = meta /\ current' = current
      /\ reply' = reply
      /\ call.sid \in Sessions /\ Len(tried) < Attempts /\ tried \in Seq(Outcomes)
  BY DEF Attempt, IInv, TypeOK, InCall, Outcomes
<1>4. /\ tried' \in Seq(Outcomes) /\ Len(tried') = Len(tried) + 1 /\ tried' # <<>>
      /\ Last(tried') = Classify(r) /\ Len(tried) \in Nat
  BY <1>2, <1>3, OneMore, ClassifyType
<1>5. Attempts \in Nat BY SessionAssumption DEF Attempts
<1>6. Len(tried') <= Attempts BY ONLY <1>3, <1>4, <1>5
<1>7. PICK c \in Calls : c = call BY <1>3
<1>8. /\ call' \in Calls /\ call'.sid = call.sid /\ call'.meta = call.meta
      /\ \/ call'.at = "trying" /\ Len(tried) + 1 < Attempts
         \/ call'.at = "recording"
  <2>1. CASE Again(Classify(r))
    <3>1. call' = [c EXCEPT !.errors = TRUE] BY <1>2, <1>7, <2>1
    <3>2. [c EXCEPT !.errors = TRUE] \in Calls BY CallTypes, Zenon
    <3>3. /\ [c EXCEPT !.errors = TRUE].sid = c.sid /\ [c EXCEPT !.errors = TRUE].meta = c.meta
          /\ [c EXCEPT !.errors = TRUE].at = c.at
      BY DEF Calls
    <3> QED BY <1>3, <1>7, <2>1, <3>1, <3>2, <3>3 DEF Again
  <2>2. CASE ~Again(Classify(r))
    <3>1. call' = [c EXCEPT !.at = "recording"] BY <1>2, <1>7, <2>2
    <3>2. [c EXCEPT !.at = "recording"] \in Calls BY CallTypes, Zenon
    <3>3. /\ [c EXCEPT !.at = "recording"].sid = c.sid
          /\ [c EXCEPT !.at = "recording"].meta = c.meta
          /\ [c EXCEPT !.at = "recording"].at = "recording"
      BY DEF Calls
    <3> QED BY <1>7, <3>1, <3>2, <3>3
  <2> QED BY <2>1, <2>2
<1>9. TypeOK' BY <1>1, <1>2, <1>3, <1>4, <1>6, <1>8 DEF IInv, TypeOK, After, Outcomes
<1>10. InCall' BY <1>3, <1>4, <1>8 DEF IInv, InCall
<1>11. Shown' BY <1>2, <1>4 DEF Shown
<1>12. OnRecord' BY <1>3 DEF IInv, InCall, OnRecord
<1>13. Active' BY <1>1, <1>3, <1>8 DEF IInv, Active, After
<1> QED BY <1>9, <1>10, <1>11, <1>12, <1>13 DEF IInv

LEMMA NextIInv == IInv /\ [Next]_vars => IInv'
<1> SUFFICES ASSUME IInv, [Next]_vars PROVE IInv' OBVIOUS
<1>0. /\ meta \in [Sessions -> Meta] /\ call \in Calls /\ call.meta \in Meta /\ env \in Events
      /\ current \in Sessions \cup {0} /\ call.errors \in BOOLEAN
      /\ call.at # "idle" => call.sid \in Sessions /\ current = call.sid /\ call.meta.file = "whole"
      /\ NoCall.at = "idle"
  BY CallTypes DEF IInv, TypeOK, InCall, Calls
<1>1. CASE LaunchSession
  <2>1. PICK s, m : /\ s = env.launched + 1 /\ s \in Sessions
                    /\ m = [NoFile EXCEPT !.file = "whole", !.status = "active"]
    BY <1>1 DEF LaunchSession
  <2>2. m \in Meta /\ m.file = "whole" /\ s \in Sessions /\ call.at = "idle"
    BY <1>1, <2>1, NewMeta DEF LaunchSession, Free
  <2>3. CASE Save(s, m) /\ Begin(s, m)
    BY <2>2, <2>3, BeginStep DEF Save
  <2>4. CASE /\ SaveFails(s, [env EXCEPT !.launched = s]) /\ current' = s
             /\ tried' = <<>> /\ shown' = Fine /\ Return(s, TRUE, FALSE, FALSE)
    <3>1. s \in env'.lost /\ (meta' = meta \/ Save(s, Torn))
      BY <1>0, <2>2, <2>4, Counted DEF SaveFails
    <3> QED BY <2>2, <2>4, <3>1, ReturnStep
  <2> QED BY <1>1, <2>1, <2>3, <2>4 DEF LaunchSession
<1>2. CASE Attempt BY <1>2, AttemptStep
<1>3. CASE CannotRun
  <2>1. PICK m : m = [call.meta EXCEPT !.status = "failed", !.errors = TRUE] OBVIOUS
  <2>2. m \in Meta /\ m.file = "whole" /\ m.status # "active"
    <3>1. call.at # "idle" BY <1>3 DEF CannotRun
    <3>2. "failed" \in Statuses BY DEF Statuses
    <3>3. Shows(m, call.meta, "failed") BY <1>0, <2>1, <3>2, UpdatedMeta, Zenon
    <3> QED BY <1>0, <3>1, <3>3 DEF Shows
  <2>3. /\ call.at # "idle" /\ Return(call.sid, TRUE, TRUE, FALSE)
        /\ UNCHANGED <<current, tried, shown>>
    BY <1>3 DEF CannotRun
  <2>4. CASE Save(call.sid, m) BY <1>0, <2>2, <2>3, <2>4, ReturnStep DEF Save
  <2>5. CASE SaveFails(call.sid, [env EXCEPT !.unrun = @ + 1])
    <3>1. PICK e : e = [env EXCEPT !.unrun = @ + 1] OBVIOUS
    <3>2. e \in Events /\ After(env, e) /\ e.faults = env.faults
      BY <1>0, <1>3, <3>1, Counted DEF After, CannotRun, NotRun
    <3>3. call.sid \in env'.lost /\ (meta' = meta \/ Save(call.sid, Torn))
      BY <1>0, <2>3, <2>5, <3>1, <3>2, FaultCounted DEF SaveFails
    <3> QED BY <1>0, <2>3, <3>3, ReturnStep
  <2> QED BY <1>3, <2>1, <2>4, <2>5 DEF CannotRun, NotRun
<1>4. CASE Record
  <2>1. PICK f, errors : f = Last(tried) /\ errors = (call.errors \/ f # "none") OBVIOUS
  <2>2. call.at # "idle" /\ tried # <<>> /\ f \in Outcomes /\ errors \in BOOLEAN
        /\ UNCHANGED <<current, tried, shown>>
    BY <1>0, <1>4, <2>1, LastType DEF Record, IInv, InCall, TypeOK, Outcomes
  <2>3. CASE Save(call.sid, Outcome(call.meta, f)) /\ Return(call.sid, FALSE, errors, TRUE)
    <3>1. /\ Outcome(call.meta, f) \in Meta /\ Outcome(call.meta, f).file = "whole"
          /\ Outcome(call.meta, f).status # "active" /\ Outcome(call.meta, f).lastFailure = f
          /\ f = "quota" => Outcome(call.meta, f).spent
      BY <1>0, <2>2, RecordedOutcome
    <3> HIDE DEF Outcome
    <3> QED BY <1>0, <2>1, <2>2, <2>3, <3>1, ReturnStep DEF Save
  <2>4. CASE SaveFails(call.sid, env) /\ Return(call.sid, TRUE, errors, TRUE)
    <3>1. call.sid \in env'.lost /\ (meta' = meta \/ Save(call.sid, Torn))
      BY <1>0, <2>2, <2>4, FaultCounted DEF SaveFails, After
    <3> QED BY <1>0, <2>2, <2>4, <3>1, ReturnStep
  <2> QED BY <1>4, <2>1, <2>3, <2>4 DEF Record
<1>5. ASSUME NEW s \in Sessions, ContinueSession(s) PROVE IInv'
  <2>1. PICK m : m = [meta[s] EXCEPT !.status = "active"] OBVIOUS
  <2>2. m \in Meta /\ m.file = "whole"
    <3>1. meta[s] \in Meta /\ meta[s].file = "whole" BY <1>0, <1>5 DEF ContinueSession, Loads
    <3>2. "active" \in Statuses BY DEF Statuses
    <3>3. Shows(m, meta[s], "active") BY <2>1, <3>1, <3>2, UpdatedMeta, Zenon
    <3> QED BY <3>1, <3>3 DEF Shows
  <2> QED BY <1>5, <2>1, <2>2, BeginStep DEF ContinueSession, Free
<1>6. ASSUME NEW s \in Sessions, ResumeSession(s) PROVE IInv'
  <2>1. PICK m \in Meta : m = meta[s] BY <1>0
  <2>2. Save(s, m) \/ ((meta' = meta \/ Save(s, Torn)) /\ s \in env'.lost)
    BY <1>0, <1>6, <2>1, FaultCounted DEF ResumeSession, SaveFails, After
  <2>3. call.at = "idle" /\ UNCHANGED <<call, tried, shown, reply>> /\ current' \in Sessions
    BY <1>6 DEF ResumeSession, Free
  <2> QED BY <2>1, <2>2, <2>3, BetweenStep
<1>7. ASSUME NEW s \in Sessions, EndSession(s) PROVE IInv'
  <2>1. PICK m : m = [meta[s] EXCEPT !.status = "completed"] OBVIOUS
  <2>2. Shows(m, meta[s], "completed") BY <1>0, <2>1, UpdatedMeta, Zenon DEF Statuses
  <2>3. Save(s, m) \/ ((meta' = meta \/ Save(s, Torn)) /\ s \in env'.lost)
    BY <1>0, <1>7, <2>1, FaultCounted DEF EndSession, SaveFails, After
  <2>4. call.at = "idle" /\ UNCHANGED <<current, call, tried, shown, reply>>
    BY <1>7 DEF EndSession, Free
  <2> QED BY <1>0, <2>2, <2>3, <2>4, BetweenStep DEF Shows
<1>8. CASE RecoverFromFailure
  <2>1. PICK m : m = [meta[current] EXCEPT !.status = "paused", !.errors = TRUE] OBVIOUS
  <2>2. call.at = "idle" /\ UNCHANGED <<current, call, tried, shown, reply>> /\ current \in Sessions
    BY <1>0, <1>8 DEF RecoverFromFailure, Free
  <2>3. Shows(m, meta[current], "paused") BY <1>0, <2>1, <2>2, UpdatedMeta, Zenon DEF Statuses
  <2>4. \/ Save(current, m)
        \/ (meta' = meta \/ Save(current, Torn)) /\ current \in env'.lost
    BY <1>0, <1>8, <2>1, <2>2, FaultCounted DEF RecoverFromFailure, SaveFails, After
  <2> QED BY <1>0, <2>2, <2>3, <2>4, BetweenStep DEF Shows
<1>9. CASE Crash
  <2>1. /\ After(env, env') /\ current' = 0
        /\ call' = NoCall /\ tried' = <<>> /\ shown' = Fine /\ reply' = NoReply
        /\ meta' = meta \/ \E s \in Writing : Save(s, Torn)
    BY <1>9, Counting DEF Crash, IInv
  <2>2. call.at # "idle" => call.sid \in env'.lost
    BY <1>0, <1>9, Counted DEF Crash, Free
  <2>3. Writing \subseteq Sessions BY <1>0 DEF Writing, Free
  <2>4. /\ meta' \in [Sessions -> Meta]
        /\ \A x \in Sessions : meta'[x].status = "active" => meta[x].status = "active"
    BY <1>0, <2>1, <2>3, NewMeta DEF Save
  <2>5. TypeOK'
    BY <2>1, <2>4, CallTypes, SessionAssumption DEF IInv, TypeOK, After, Attempts
  <2>6. InCall' /\ Shown' /\ OnRecord' BY <2>1, CallTypes DEF InCall, Shown, OnRecord
  <2>7. Active' BY <2>1, <2>2, <2>4 DEF IInv, Active, After
  <2> QED BY <2>5, <2>6, <2>7 DEF IInv
<1>10. CASE UNCHANGED vars
  BY <1>10 DEF vars, IInv, TypeOK, InCall, Shown, OnRecord, Active, Loads
<1> QED BY <1>1, <1>2, <1>3, <1>4, <1>5, <1>6, <1>7, <1>8, <1>9, <1>10 DEF Next, Run

\* IInv holds throughout, for any number of sessions, calls, attempts, failures and crashes.
THEOREM Invariance == Spec => []IInv
BY InitIInv, NextIInv, PTL DEF Spec

\* What DetectFailure reports after a call is how its last attempt ended, and a limit shows
\* as spent quota (runAndRecord, DetectFailure, IsQuotaExhausted).
THEOREM DetectionAgrees == Spec => []DetectAgrees
<1>1. IInv => DetectAgrees
  <2> SUFFICES ASSUME IInv, Fresh
               PROVE  DetectFailure = Last(tried) /\ (DetectFailure = "quota" => IsQuotaExhausted)
    BY DEF DetectAgrees
  <2>1. current \in Sessions /\ 0 \notin Sessions BY DEF IInv, OnRecord, Fresh, Sessions
  <2>2. Loads(current) BY DEF IInv, OnRecord, Fresh
  <2> QED BY <2>1, <2>2 DEF IInv, OnRecord, Fresh, DetectFailure, IsQuotaExhausted
<1> QED BY <1>1, Invariance, PTL

\* A limit in the output of a call's last attempt is what the pipeline sees, unless the
\* attempt timed out (executePrompt, runAndRecord).
THEOREM LimitIsReported == Spec => []LimitReachesCaller
<1>1. IInv => LimitReachesCaller
  <2> SUFFICES ASSUME IInv, Fresh, tried # <<>>, shown.limit, ~shown.timedOut
               PROVE  DetectFailure = "quota"
    BY DEF LimitReachesCaller
  <2>1. current \in Sessions /\ 0 \notin Sessions BY DEF IInv, OnRecord, Fresh, Sessions
  <2>2. Last(tried) = "quota" BY DEF IInv, Shown, Classify
  <2>3. Loads(current) BY DEF IInv, OnRecord, Fresh
  <2> QED BY <2>1, <2>2, <2>3 DEF IInv, OnRecord, Fresh, DetectFailure
<1> QED BY <1>1, Invariance, PTL

\* No session is left as active by a call that is over, unless that session's own file
\* could not be written or the process died in its call (runAndRecord, EndSession).
THEOREM NoSessionLeftActive == Spec => []NoneLeftActive
<1>1. IInv => NoneLeftActive BY DEF IInv, Active, NoneLeftActive, Free
<1> QED BY <1>1, Invariance, PTL

\* Everything is of its type, and no call makes more attempts than the configuration allows.
THEOREM Typed == Spec => []TypeOK
<1>1. IInv => TypeOK BY DEF IInv
<1> QED BY <1>1, Invariance, PTL
=============================================================================
