--------------------------- MODULE DocumentProofs ---------------------------
(***************************************************************************)
(* For every document, however it is written and however often people edit *)
(* it and break its header: an update loses neither the prose, nor what    *)
(* the system recorded, nor a field changed by hand before it was read.    *)
(***************************************************************************)
EXTENDS Document, TLAPS
-----------------------------------------------------------------------------
Places == {"idle", "get", "merge", "truncate", "write"}
Shapes == {"whole", "none", "open", "bad", "absent"}
Calls  == {"update", "replace", "append", "init"}

\* Headers and texts without their bounds, and what the environment has spent.
AnyHeader == [sys : Nat, hand : Nat, extra : {"none", "some"}]
AnyText   == [shape : Shapes, head : AnyHeader, body : SUBSET Parts]
Spent     == [saves : Nat, edits : Nat, late : Nat, breaks : Nat, faults : Nat]

Shaped ==
  /\ doc \in Docs /\ file \in AnyText
  /\ pc \in Places /\ op \in doc.ops \cup {"none"}
  /\ seen \in AnyHeader /\ keep \in SUBSET Parts
  /\ acked \in Nat /\ written \in BOOLEAN /\ env \in Spent

\* How a call goes: what it reads comes before what it carries over.
InCall ==
  /\ pc = "idle" <=> op = "none"
  /\ pc = "get" => op \in {"update", "append"}
  /\ pc \in {"idle", "get"} \/ op \in {"init", "replace"} => seen = Blank
  /\ pc \in {"truncate", "write"} => keep # {}

\* The saves that have been recorded: the one in progress has not.
Recorded == IF pc = "idle" THEN env.saves ELSE env.saves - 1

Bounded ==
  /\ env.saves <= MaxSaves /\ env.edits <= MaxEdits /\ env.late <= env.edits
  /\ env.breaks <= MaxBreaks /\ env.faults <= MaxFaults
  /\ pc # "idle" => env.saves > 0
  /\ file.head.sys <= Recorded /\ seen.sys <= Recorded /\ acked <= Recorded
  /\ file.head.hand <= env.edits /\ seen.hand <= env.edits

\* The prose is in the file, until the file is truncated with the prose in hand.
ProseKept ==
  written /\ env.faults = 0 /\ ~doc.concurrent =>
    /\ pc \in {"idle", "get", "merge"} => Exists /\ "prose" \in file.body
    /\ pc \in {"truncate", "write"} => "prose" \in keep

\* Nothing was recorded, and nobody has edited anything, before there is a file.
NothingBefore ==
  /\ ~Exists \/ op = "init" => acked = 0
  /\ ~Exists => env.edits = 0
  /\ op = "init" => env.edits = env.late

\* A document that is appended to has front matter whenever it is read.
HasHeader ==
  "append" \in doc.ops /\ ~StartsOver /\ pc \in {"idle", "get"} =>
    file.shape \in {"absent", "whole", "bad"}

\* What was recorded is in the file, and in the header that will replace it.
RecordKept ==
  ~StartsOver =>
    /\ Readable => file.head.sys >= acked
    /\ pc \in {"merge", "truncate", "write"} /\ op \in {"update", "append"} => seen.sys >= acked

\* The same for the changes made by hand, but for those made too late to be read; a new
\* record does not carry them over.
HandKept ==
  ~StartsOver /\ "replace" \notin doc.ops =>
    /\ Readable => file.head.hand + env.late >= env.edits
    /\ Underway => seen.hand + env.late >= env.edits

IInv == /\ Shaped /\ InCall /\ Bounded
        /\ ProseKept /\ NothingBefore /\ HasHeader /\ RecordKept /\ HandKept
-----------------------------------------------------------------------------
USE DEF Places, Shapes, Calls, AnyHeader, AnyText, Spent, Parts, Blank, Absent, Empty, Exists,
        Readable, Underway

\* What a document may be.
LEMMA DocIsKnown ==
  ASSUME Shaped
  PROVE  /\ doc.ops \subseteq Calls /\ doc.breaks \subseteq {"none", "open", "bad"}
         /\ doc.concurrent \in BOOLEAN
  BY DocumentAssumption DEF Shaped, Kind

\* The header a call writes has what was read, and the call's own change.
LEMMA NewHeaderIs ==
  ASSUME Shaped
  PROVE  /\ NewHeader \in AnyHeader
         /\ op = "replace" => NewHeader.sys = acked + 1 /\ NewHeader.hand = 0
         /\ op = "init" => NewHeader.sys = 0 /\ NewHeader.hand = seen.hand
         /\ op \notin {"replace", "init"} => NewHeader.sys = seen.sys + 1 /\ NewHeader.hand = seen.hand
<1>1. CASE op = "replace"
  <2>1. NewHeader = [Blank EXCEPT !.sys = acked + 1]
    BY <1>1 DEF NewHeader
  <2> QED
    BY <1>1, <2>1 DEF Shaped
<1>2. CASE op # "replace"
  <2>1. PICK n \in Nat : n = IF op = "init" THEN 0 ELSE seen.sys + 1
    BY DEF Shaped
  <2>2. NewHeader = [seen EXCEPT !.sys = n, !.extra = "none"]
    BY <1>2, <2>1 DEF NewHeader
  <2>3. NewHeader \in AnyHeader /\ NewHeader.sys = n /\ NewHeader.hand = seen.hand
    BY <2>2 DEF Shaped
  <2> QED
    BY <1>2, <2>1, <2>3
<1> QED
  BY <1>1, <1>2

\* A write that was cut short leaves a file, and one whose header is whole has all of it.
LEMMA PrefixesAre ==
  ASSUME Shaped, NEW text \in Prefixes(Rendered)
  PROVE  /\ text \in AnyText /\ text.shape # "absent" /\ text.head \in {Blank, NewHeader}
         /\ text.shape = "whole" => text.head = NewHeader
<1>1. NewHeader \in AnyHeader /\ keep \in SUBSET Parts
  BY NewHeaderIs DEF Shaped
<1>2. Blank \in AnyHeader
  OBVIOUS
<1> QED
  BY <1>1, <1>2 DEF Prefixes, Rendered

\* A document starts out absent, or as Initialize wrote it.
LEMMA InitIInv == Init => IInv
<1> SUFFICES ASSUME Init PROVE IInv
  OBVIOUS
<1>1. Shaped
  <2>1. file \in AnyText
    BY DEF Init
  <2>2. env \in Spent /\ seen \in AnyHeader
    BY DEF Init
  <2> QED
    BY <2>1, <2>2 DEF Init, Shaped
<1>2. InCall /\ Bounded
  BY DocumentAssumption DEF Init, InCall, Bounded, Recorded
<1>3. ProseKept /\ NothingBefore /\ HasHeader /\ RecordKept /\ HandKept
  BY DEF Init, ProseKept, NothingBefore, HasHeader, RecordKept, HandKept
<1> QED
  BY <1>1, <1>2, <1>3 DEF IInv

\* A call begins; only Initialize needs the file not to be there.
LEMMA StartStep == ASSUME IInv, NEW o \in doc.ops, Start(o) PROVE IInv'
<1> USE DocumentAssumption, DocIsKnown DEF IInv
<1>1. Shaped'
  BY DEF Shaped, Start, Count
<1>2. InCall'
  BY DEF InCall, Start
<1>3. Bounded'
  BY DEF Shaped, Bounded, Recorded, Start, Count
<1>4. ProseKept'
  BY DEF ProseKept, Start, Count
<1>5. NothingBefore'
  BY DEF Shaped, InCall, Bounded, NothingBefore, Start, Count
<1>6. HasHeader'
  BY DEF HasHeader, StartsOver, Start, Count
<1>7. RecordKept'
  BY DEF RecordKept, StartsOver, Start, Count
<1>8. HandKept'
  BY DEF Shaped, InCall, Bounded, NothingBefore, HandKept, StartsOver, Start, Count
<1> QED
  BY <1>1, <1>2, <1>3, <1>4, <1>5, <1>6, <1>7, <1>8

\* What was read is what is there, or nothing where nothing was there before.
LEMMA GetStep == ASSUME IInv, Get PROVE IInv'
<1> USE DocumentAssumption, DocIsKnown DEF IInv
<1>1. Shaped'
  BY DEF Shaped, InCall, Get, Goto, Return
<1>2. InCall'
  BY DEF InCall, Get, Goto, Return
<1>3. Bounded'
  BY DEF Shaped, Bounded, Recorded, Get, Return
<1>4. ProseKept'
  BY DEF ProseKept, Get, Goto, Return
<1>5. NothingBefore'
  BY DEF NothingBefore, Get, Goto, Return
<1>6. HasHeader'
  BY DEF HasHeader, StartsOver, Get
<1>7. RecordKept'
  BY DEF Shaped, NothingBefore, HasHeader, RecordKept, StartsOver, Get, Return
<1>8. HandKept'
  BY DEF Shaped, NothingBefore, HasHeader, HandKept, StartsOver, Get, Return
<1> QED
  BY <1>1, <1>2, <1>3, <1>4, <1>5, <1>6, <1>7, <1>8

\* The prose is taken over from the file ...
LEMMA MergeStep == ASSUME IInv, Merge PROVE IInv'
<1> USE DocumentAssumption, DocIsKnown DEF IInv
<1>0. /\ env' = env \/ (env.faults < MaxFaults /\ env' = [env EXCEPT !.faults = @ + 1])
      /\ keep' # {} /\ keep' \in SUBSET Parts
  BY DEF Shaped, Merge, Body, Count
<1>1. Shaped'
  BY <1>0 DEF Shaped, Merge, Goto
<1>2. InCall'
  BY <1>0 DEF InCall, Merge, Goto
<1>3. Bounded'
  BY <1>0 DEF Shaped, Bounded, Recorded, Merge, Goto
<1>4. ProseKept'
  BY DEF Shaped, ProseKept, Merge, Goto, Body, Count
<1>5. NothingBefore'
  BY <1>0 DEF Shaped, NothingBefore, Merge, Goto
<1>6. HasHeader'
  BY DEF HasHeader, Merge, Goto
<1>7. RecordKept'
  BY <1>0 DEF Shaped, RecordKept, StartsOver, Merge, Goto
<1>8. HandKept'
  BY <1>0 DEF Shaped, HandKept, StartsOver, Merge, Goto
<1> QED
  BY <1>1, <1>2, <1>3, <1>4, <1>5, <1>6, <1>7, <1>8

\* ... before the file is emptied ...
LEMMA TruncateStep == ASSUME IInv, Truncate PROVE IInv'
<1> USE DocumentAssumption, DocIsKnown DEF IInv
<1>1. Shaped'
  BY DEF Shaped, Truncate, Goto
<1>2. InCall'
  BY DEF InCall, Truncate, Goto
<1>3. Bounded'
  BY DEF Shaped, Bounded, Recorded, Truncate
<1>4. ProseKept'
  BY DEF ProseKept, Truncate, Goto
<1>5. NothingBefore'
  BY DEF NothingBefore, Truncate, Goto
<1>6. HasHeader'
  BY DEF HasHeader, Truncate, Goto
<1>7. RecordKept'
  BY DEF RecordKept, StartsOver, Truncate, Goto
<1>8. HandKept'
  BY DEF HandKept, StartsOver, Truncate
<1> QED
  BY <1>1, <1>2, <1>3, <1>4, <1>5, <1>6, <1>7, <1>8

\* ... and comes back with the new header.
LEMMA WriteStep == ASSUME IInv, Write PROVE IInv'
<1> USE DocumentAssumption, DocIsKnown DEF IInv
<1>0. /\ file' = [shape |-> "whole", head |-> NewHeader, body |-> keep]
      /\ file' \in AnyText /\ NewHeader \in AnyHeader
  BY NewHeaderIs DEF Shaped, Write, Rendered
<1>1. Shaped'
  BY <1>0 DEF Shaped, Write, Return
<1>2. InCall'
  BY DEF InCall, Write, Return
<1>3. Bounded'
  BY <1>0, NewHeaderIs DEF Shaped, InCall, Bounded, Recorded, Write, Return
<1>4. ProseKept'
  BY <1>0 DEF ProseKept, Write, Return
<1>5. NothingBefore'
  BY <1>0 DEF NothingBefore, Write, Return
<1>6. HasHeader'
  BY <1>0 DEF HasHeader, Write
<1>7. RecordKept'
  BY <1>0, NewHeaderIs DEF Shaped, InCall, NothingBefore, RecordKept, StartsOver, Write, Return
<1>8. HandKept'
  BY <1>0, NewHeaderIs DEF Shaped, InCall, HandKept, StartsOver, Write, Return
<1> QED
  BY <1>1, <1>2, <1>3, <1>4, <1>5, <1>6, <1>7, <1>8

\* Any prefix of the new text may be left; what it shows of the header is no older.
LEMMA WriteCutShortStep == ASSUME IInv, WriteCutShort PROVE IInv'
<1> USE DocumentAssumption, DocIsKnown DEF IInv
<1>0. /\ file' \in AnyText /\ file'.shape # "absent" /\ file'.head \in {Blank, NewHeader}
      /\ file'.shape = "whole" => file'.head = NewHeader
      /\ NewHeader \in AnyHeader
      /\ env' = [env EXCEPT !.faults = @ + 1] /\ env.faults < MaxFaults
  BY PrefixesAre, NewHeaderIs DEF WriteCutShort, Count
<1>1. Shaped'
  BY <1>0 DEF Shaped, WriteCutShort, Return
<1>2. InCall'
  BY DEF InCall, WriteCutShort, Return
<1>3. Bounded'
  BY <1>0, NewHeaderIs DEF Shaped, InCall, Bounded, Recorded, WriteCutShort, Return
<1>4. ProseKept'
  BY <1>0 DEF Shaped, ProseKept, WriteCutShort
<1>5. NothingBefore'
  BY <1>0 DEF NothingBefore, WriteCutShort, Return
<1>6. HasHeader'
  BY <1>0 DEF Shaped, HasHeader, StartsOver, WriteCutShort
<1>7. RecordKept'
  BY <1>0, NewHeaderIs
  DEF Shaped, InCall, NothingBefore, RecordKept, StartsOver, WriteCutShort, Return
<1>8. HandKept'
  BY <1>0, NewHeaderIs DEF Shaped, InCall, HandKept, StartsOver, WriteCutShort, Return
<1> QED
  BY <1>1, <1>2, <1>3, <1>4, <1>5, <1>6, <1>7, <1>8

\* A call that ends before it writes.
LEMMA CrashStep == ASSUME IInv, Crash PROVE IInv'
<1> USE DocumentAssumption, DocIsKnown DEF IInv
<1>1. Shaped'
  BY DEF Shaped, Crash, Return, Count
<1>2. InCall'
  BY DEF InCall, Crash, Return
<1>3. Bounded'
  BY DEF Shaped, Bounded, Recorded, Crash, Return, Count
<1>4. ProseKept'
  BY DEF Shaped, ProseKept, Crash, Count
<1>5. NothingBefore'
  BY DEF NothingBefore, Crash, Return, Count
<1>6. HasHeader'
  BY DEF Shaped, HasHeader, StartsOver, Crash, Count
<1>7. RecordKept'
  BY DEF Shaped, RecordKept, StartsOver, Crash, Return, Count
<1>8. HandKept'
  BY DEF Shaped, HandKept, StartsOver, Crash, Return, Count
<1> QED
  BY <1>1, <1>2, <1>3, <1>4, <1>5, <1>6, <1>7, <1>8

\* What people do, in a call or between two.
LEMMA EditHeaderStep == ASSUME IInv, EditHeader PROVE IInv'
<1> USE DocumentAssumption, DocIsKnown DEF IInv
<1>1. Shaped'
  <2>0. PICK n \in Nat : n = IF Underway THEN env.late + 1 ELSE env.late
    BY DEF Shaped
  <2>1. env' \in Spent
    <3>1. PICK e : e = [env EXCEPT !.edits = @ + 1]
      OBVIOUS
    <3>2. e \in Spent
      BY <3>1 DEF Shaped
    <3>3. env' = [e EXCEPT !.late = n]
      BY <2>0, <3>1 DEF Shaped, EditHeader
    <3> QED
      BY <2>0, <3>2, <3>3
  <2>2. file' \in AnyText
    BY DEF Shaped, EditHeader
  <2> QED
    BY <2>1, <2>2 DEF Shaped, EditHeader, call
<1>2. InCall'
  BY DEF InCall, EditHeader, call
<1>3. Bounded'
  BY DEF Shaped, Bounded, Recorded, EditHeader, call
<1>4. ProseKept'
  BY DEF ProseKept, EditHeader, call
<1>5. NothingBefore'
  BY DEF Shaped, InCall, NothingBefore, EditHeader, HandsFree, call
<1>6. HasHeader'
  BY DEF HasHeader, EditHeader
<1>7. RecordKept'
  BY DEF Shaped, RecordKept, StartsOver, EditHeader, call
<1>8. HandKept'
  BY DEF Shaped, HandKept, StartsOver, EditHeader, HandsFree, call
<1> QED
  BY <1>1, <1>2, <1>3, <1>4, <1>5, <1>6, <1>7, <1>8

LEMMA AnnotateStep == ASSUME IInv, Annotate PROVE IInv'
<1> USE DocumentAssumption, DocIsKnown DEF IInv
<1>1. Shaped'
  BY DEF Shaped, Annotate, call
<1>2. InCall'
  BY DEF InCall, Annotate, call
<1>3. Bounded'
  BY DEF Shaped, Bounded, Recorded, Annotate, call
<1>4. ProseKept'
  BY DEF ProseKept, Annotate, call
<1>5. NothingBefore'
  BY DEF NothingBefore, Annotate, call
<1>6. HasHeader'
  BY DEF HasHeader, StartsOver, Annotate, call
<1>7. RecordKept'
  BY DEF Shaped, RecordKept, StartsOver, Annotate, call
<1>8. HandKept'
  BY DEF Shaped, HandKept, StartsOver, Annotate, call
<1> QED
  BY <1>1, <1>2, <1>3, <1>4, <1>5, <1>6, <1>7, <1>8

LEMMA EditBodyStep == ASSUME IInv, EditBody PROVE IInv'
<1> USE DocumentAssumption, DocIsKnown DEF IInv
<1>1. Shaped'
  BY DEF Shaped, EditBody, call
<1>2. InCall'
  BY DEF InCall, EditBody, call
<1>3. Bounded'
  BY DEF Bounded, Recorded, EditBody, call
<1>4. ProseKept'
  BY DEF ProseKept, EditBody, HandsFree, call
<1>5. NothingBefore'
  BY DEF NothingBefore, EditBody, call
<1>6. HasHeader'
  BY DEF HasHeader, StartsOver, EditBody, call
<1>7. RecordKept'
  BY DEF RecordKept, StartsOver, EditBody, call
<1>8. HandKept'
  BY DEF HandKept, StartsOver, EditBody, call
<1> QED
  BY <1>1, <1>2, <1>3, <1>4, <1>5, <1>6, <1>7, <1>8

LEMMA BreakHeaderStep == ASSUME IInv, BreakHeader PROVE IInv'
<1> USE DocumentAssumption, DocIsKnown DEF IInv
<1>1. Shaped'
  <2>1. PICK h \in doc.breaks : file' = [file EXCEPT !.shape = h, !.head = Blank]
    BY DEF BreakHeader
  <2>2. file' \in AnyText
    BY <2>1 DEF Shaped
  <2>3. env' \in Spent
    BY DEF Shaped, BreakHeader, Count
  <2> QED
    BY <2>2, <2>3 DEF Shaped, BreakHeader, call
<1>2. InCall'
  BY DEF InCall, BreakHeader, call
<1>3. Bounded'
  BY DEF Shaped, Bounded, Recorded, BreakHeader, Count, call
<1>4. ProseKept'
  BY DEF ProseKept, BreakHeader, Count, call
<1>5. NothingBefore'
  BY DEF NothingBefore, BreakHeader, Count, call
<1>6. HasHeader'
  BY DEF Shaped, HasHeader, StartsOver, BreakHeader, Count
<1>7. RecordKept'
  BY DEF Shaped, RecordKept, StartsOver, BreakHeader, Count, call
<1>8. HandKept'
  BY DEF Shaped, HandKept, StartsOver, BreakHeader, HandsFree, Count, call
<1> QED
  BY <1>1, <1>2, <1>3, <1>4, <1>5, <1>6, <1>7, <1>8

LEMMA MendHeaderStep == ASSUME IInv, MendHeader PROVE IInv'
<1> USE DocumentAssumption, DocIsKnown DEF IInv
<1>0. /\ file' \in AnyText /\ file'.shape = "whole" /\ file'.body = file.body
      /\ file'.head.sys = acked /\ file'.head.hand = env.edits
  BY DEF Shaped, MendHeader
<1>1. Shaped'
  BY <1>0 DEF Shaped, MendHeader, call
<1>2. InCall'
  BY DEF InCall, MendHeader, call
<1>3. Bounded'
  BY <1>0 DEF Shaped, Bounded, Recorded, MendHeader, call
<1>4. ProseKept'
  BY <1>0 DEF ProseKept, MendHeader, call
<1>5. NothingBefore'
  BY <1>0 DEF NothingBefore, MendHeader, call
<1>6. HasHeader'
  BY <1>0 DEF HasHeader, MendHeader
<1>7. RecordKept'
  BY <1>0 DEF Shaped, RecordKept, StartsOver, MendHeader, call
<1>8. HandKept'
  BY <1>0 DEF Shaped, HandKept, StartsOver, MendHeader, HandsFree, call
<1> QED
  BY <1>1, <1>2, <1>3, <1>4, <1>5, <1>6, <1>7, <1>8

LEMMA StutterStep == ASSUME IInv, UNCHANGED vars PROVE IInv'
  BY DEF IInv, Shaped, InCall, Bounded, Recorded, ProseKept, NothingBefore, HasHeader, RecordKept,
         HandKept, StartsOver, vars, call

\* Every document that memory.Manager and its users can leave satisfies IInv.
THEOREM Invariance == Spec => []IInv
<1>1. ASSUME IInv, [Next]_vars PROVE IInv'
  <2>1. CASE System
    BY <1>1, <2>1, StartStep, GetStep, MergeStep, TruncateStep, WriteStep DEF System
  <2>2. CASE Hand
    BY <1>1, <2>2, EditHeaderStep, AnnotateStep, EditBodyStep, BreakHeaderStep, MendHeaderStep DEF Hand
  <2> QED
    BY <1>1, <2>1, <2>2, WriteCutShortStep, CrashStep, StutterStep DEF Next
<1> QED
  BY <1>1, InitIInv, PTL DEF Spec

\* The types of the model; and writeMeta never writes a document without a body.
THEOREM Typed == Spec => []TypeOK
<1>1. ASSUME IInv PROVE TypeOK
  <2>1. Recorded \in Nat /\ Recorded <= MaxSaves
    BY <1>1, DocumentAssumption DEF IInv, Shaped, Bounded, Recorded
  <2>2. \A h \in AnyHeader : h.sys <= Recorded /\ h.hand <= env.edits => h \in Header
    BY <1>1, <2>1, DocumentAssumption DEF IInv, Shaped, Bounded, Header
  <2>3. file \in Text /\ seen \in Header
    BY <1>1, <2>2 DEF IInv, Shaped, Bounded, Text
  <2>4. acked \in 0..MaxSaves
    BY <1>1, <2>1, DocumentAssumption DEF IInv, Shaped, Bounded
  <2> QED
    BY <1>1, <2>3, <2>4 DEF IInv, Shaped, InCall, Bounded, TypeOK
<1> QED
  BY <1>1, Invariance, PTL

\* writeMeta carries the body over: no update discards what a person has written, not
\* even above a header that does not parse, unless a write is cut short or somebody
\* edits at the same time.
THEOREM UpdatesKeepTheBody == Spec => []BodyKept
<1>1. IInv => BodyKept
  BY DEF IInv, ProseKept, BodyKept, AtRest
<1> QED
  BY <1>1, Invariance, PTL

\* The Get methods refuse what they cannot read, so a call never starts over from an
\* empty record and what an earlier one recorded stays, however people break and mend
\* the header in between.
THEOREM UpdatesKeepTheRecord == Spec => []AckedKept
<1>1. IInv => AckedKept
  BY DEF IInv, RecordKept, AckedKept
<1> QED
  BY <1>1, Invariance, PTL

\* A status update writes back every field it read: what was changed by hand in a field
\* the system knows stays, unless it was saved while an update had the header in hand.
THEOREM UpdatesKeepHandEdits == Spec => []HandEditsKept
<1>1. IInv => HandEditsKept
  BY DEF IInv, HandKept, HandEditsKept
<1> QED
  BY <1>1, Invariance, PTL
=============================================================================
