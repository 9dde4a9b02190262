----------------------------- MODULE AtomicFile -----------------------------
(***************************************************************************)
(* internal/atomicfile/write.go: Write replaces a file by writing a        *)
(* temporary one beside it, flushing it, and renaming it over the old.     *)
(* Writers are calls of Write on the same path, from any processes (the    *)
(* quota record is written by every command that meets the usage limit).   *)
(*                                                                         *)
(* Between two system calls a writer may be killed, and power may be lost. *)
(* Then what was not flushed is gone or cut short, and the directory may   *)
(* still hold any name it has had since it was last flushed.               *)
(***************************************************************************)
EXTENDS Naturals, Sequences

CONSTANTS
  Writers,      \* calls of Write; each stands for its temporary file as well
  Old,          \* the file there before
  DirSyncs,     \* the platform lets a directory be flushed
  MaxFailures, MaxLosses  \* bounds on failing system calls and on power losses

ASSUME AtomicFileAssumption ==
  /\ Old \notin Writers /\ DirSyncs \in BOOLEAN
  /\ MaxFailures \in Nat /\ MaxLosses \in Nat

VARIABLES
  at,        \* where each call is
  holds,     \* how much of its data each file holds
  flushed,   \* files whose data is on the disk
  temps,     \* temporary files in the directory
  names,     \* the files the path has named, oldest first; the last one is there now
  settled,   \* how many of those the directory on the disk has recorded
  env

disk == <<holds, flushed, temps, names, settled>>
vars == <<at, disk, env>>

Files  == Writers \cup {Old}
Points == {"start", "created", "written", "flushed", "closed", "ready", "renamed", "ok", "error", "dead"}
Running == {"created", "written", "flushed", "closed", "ready", "renamed"}

Visible == names[Len(names)]
Step(w, a, b) == at[w] = a /\ at' = [at EXCEPT ![w] = b]
-----------------------------------------------------------------------------
Init == /\ at = [w \in Writers |-> "start"]
        /\ holds = [f \in Files |-> IF f = Old THEN "whole" ELSE "nothing"]
        /\ flushed = {Old} /\ temps = {} /\ names = <<Old>> /\ settled = 1
        /\ env = [failures |-> 0, losses |-> 0]

Create(w) == /\ Step(w, "start", "created")
             /\ temps' = temps \cup {w}
             /\ UNCHANGED <<holds, flushed, names, settled, env>>

WriteData(w) == /\ Step(w, "created", "written")
                /\ holds' = [holds EXCEPT ![w] = "whole"]
                /\ flushed' = flushed \ {w}
                /\ UNCHANGED <<temps, names, settled, env>>

\* Mutant: the data is left to the operating system.
FlushNothing(w) == Step(w, "written", "flushed") /\ UNCHANGED <<disk, env>>

Flush(w) == /\ Step(w, "written", "flushed")
            /\ flushed' = flushed \cup {w}
            /\ UNCHANGED <<holds, temps, names, settled, env>>

Close(w) == Step(w, "flushed", "closed") /\ UNCHANGED <<disk, env>>

Chmod(w) == Step(w, "closed", "ready") /\ UNCHANGED <<disk, env>>

Rename(w) == /\ Step(w, "ready", "renamed")
             /\ temps' = temps \ {w} /\ names' = Append(names, w)
             /\ UNCHANGED <<holds, flushed, settled, env>>

\* Mutant: the directory is not flushed.
SyncDirNever(w) == Step(w, "renamed", "ok") /\ UNCHANGED <<disk, env>>

\* syncDir, then return nil: whether the directory was flushed is not looked at.
SyncDir(w) == /\ Step(w, "renamed", "ok")
              /\ settled' = IF DirSyncs THEN Len(names) ELSE settled
              /\ UNCHANGED <<holds, flushed, temps, names, env>>

\* A system call fails: Write returns the error and the temporary file goes.  A
\* failed write may have written some of the data.
Fail(w) ==
  /\ at[w] \in {"start", "created", "written", "flushed", "closed", "ready"}
  /\ env.failures < MaxFailures /\ env' = [env EXCEPT !.failures = @ + 1]
  /\ at' = [at EXCEPT ![w] = "error"]
  /\ \/ at[w] = "created" /\ holds' = [holds EXCEPT ![w] = "part"]
     \/ at[w] # "created" /\ UNCHANGED holds
  /\ temps' = temps \ {w}
  /\ UNCHANGED <<flushed, names, settled>>

\* The process is killed; a write may have been cut short.
Killed(w) ==
  /\ at[w] \in Running /\ at' = [at EXCEPT ![w] = "dead"]
  /\ \/ at[w] = "created" /\ holds' = [holds EXCEPT ![w] = "part"]
     \/ UNCHANGED holds
  /\ UNCHANGED <<flushed, temps, names, settled, env>>

\* Every running call is gone; unflushed data may be; so may recent renames.
LosePower ==
  /\ env.losses < MaxLosses /\ env' = [env EXCEPT !.losses = @ + 1]
  /\ at' = [w \in Writers |-> IF at[w] \in Running THEN "dead" ELSE at[w]]
  /\ \E lost \in SUBSET (Files \ flushed), left \in {"nothing", "part"} :
       holds' = [f \in Files |-> IF f \in lost THEN left ELSE holds[f]]
  /\ \E k \in settled..Len(names) : names' = SubSeq(names, 1, k) /\ settled' = k
  /\ flushed' = Files       \* what survived is on the disk
  /\ temps' \in SUBSET temps

Next == \/ \E w \in Writers : \/ Create(w) \/ WriteData(w) \/ Flush(w) \/ Close(w) \/ Chmod(w)
                              \/ Rename(w) \/ SyncDir(w) \/ Fail(w) \/ Killed(w)
        \/ LosePower
Spec == Init /\ [][Next]_vars
-----------------------------------------------------------------------------
Acknowledged == {w \in Writers : at[w] = "ok"}

TypeOK ==
  /\ at \in [Writers -> Points]
  /\ holds \in [Files -> {"nothing", "part", "whole"}]
  /\ flushed \subseteq Files /\ temps \subseteq Writers
  /\ names \in Seq(Files) /\ settled \in 1..Len(names)
  /\ env \in [failures : Nat, losses : Nat]

\* A reader sees complete contents, whatever was killed and whenever power was lost.
NeverTorn == holds[Visible] = "whole"

\* Once Write returned nil, power loss does not bring back an older file (where
\* directories can be flushed; the code lets it pass where they cannot).
AcknowledgedSurvives ==
  DirSyncs => \A w \in Acknowledged : \E i \in DOMAIN names : names[i] = w
-----------------------------------------------------------------------------
\* The file as a register: what the path named, or Torn for a name whose data is
\* not all there; promised are the names up to the last acknowledged one.
Torn == "torn"
Contents(f) == IF holds[f] = "whole" THEN f ELSE Torn
Ackd        == {i \in DOMAIN names : names[i] \in Acknowledged}
Promised    == IF Ackd = {} \/ ~DirSyncs THEN 1 ELSE CHOOSE i \in Ackd : \A j \in Ackd : j <= i

Abstract == INSTANCE Register WITH Values <- Writers, First <- Old,
                                   log <- [i \in DOMAIN names |-> Contents(names[i])],
                                   promised <- Promised

\* Write implements the register: every step of a call is a stutter or one of the
\* register's, also through failures, kills and power losses.
ImplementsRegister == Abstract!Spec
=============================================================================
