------------------------------ MODULE Document ------------------------------
(***************************************************************************)
(* One memory document of internal/memory (memory.go, document.go): a YAML *)
(* header that the system reads and writes, above a body people write.     *)
(* One process updates it; people edit the file with an editor of theirs,  *)
(* which saves whole files, possibly while an update is under way.         *)
(*                                                                         *)
(* An update reads the document twice, the header in its Get method and    *)
(* the body in writeMeta, and then truncates and rewrites it in place, so  *)
(* a crash or a full disk may leave any prefix of the new text.  Of the    *)
(* header the model keeps three fields: sys, which grows with every change *)
(* the system records; hand, which counts the changes made by hand to the  *)
(* fields the code knows; and extra, what a hand has put there that the    *)
(* code does not know: a comment, or a key of its own.                     *)
(***************************************************************************)
EXTENDS Naturals

CONSTANTS
  Docs,        \* the documents considered: see Kind below
  MaxSaves, MaxEdits, MaxBreaks, MaxFaults   \* bounds

\* How a document is written, how a hand may leave its header, and whether people
\* edit it while the system writes it, too.
Kind == [ops : SUBSET {"update", "replace", "append", "init"}, breaks : SUBSET {"none", "open", "bad"},
         concurrent : BOOLEAN]

ASSUME DocumentAssumption ==
  /\ Docs \subseteq Kind
  /\ {MaxSaves, MaxEdits, MaxBreaks, MaxFaults} \subseteq Nat

VARIABLES
  doc,      \* which document this is
  file,     \* the shape of its header, what that says, and what the body holds
  pc, op, seen, keep,   \* the call in progress: header read, body to carry over
  acked,                \* the highest sys that a save returned nil for
  written,              \* a person has written prose in the body
  env

call == <<pc, op, seen, keep>>
vars == <<doc, file, call, acked, written, env>>

Header  == [sys : 0..MaxSaves, hand : 0..MaxEdits, extra : {"none", "some"}]
Blank   == [sys |-> 0, hand |-> 0, extra |-> "none"]
Parts   == {"prose", "default", "scrap"}

\* A header is whole, missing, without its closing delimiter, or not YAML; "absent"
\* is no file at all.
Text    == [shape : {"whole", "none", "open", "bad", "absent"}, head : Header, body : SUBSET Parts]
Absent  == [shape |-> "absent", head |-> Blank, body |-> {}]
Empty   == [shape |-> "none", head |-> Blank, body |-> {}]

Exists   == file.shape # "absent"
Readable == file.shape = "whole"
-----------------------------------------------------------------------------
\* parseDocument: without a closing delimiter the header counts as body.
Body(text) == IF text.shape = "open" THEN text.body \cup {"scrap"} ELSE text.body

\* What a write of that text may leave when it does not finish.
Prefixes(text) == {Empty, [Empty EXCEPT !.body = {"scrap"}], [Empty EXCEPT !.shape = "open"],
                   [text EXCEPT !.body = {}], [text EXCEPT !.body = {"scrap"}], text}

\* A call that has read the header and not yet written it back.
Underway == pc \in {"merge", "truncate", "write"}

Return == pc' = "idle" /\ op' = "none" /\ seen' = Blank /\ keep' = {}
Goto(l) == pc' = l /\ UNCHANGED op

Count(f) == env' = [env EXCEPT ![f] = @ + 1]
-----------------------------------------------------------------------------
Init == /\ doc \in Docs
        /\ file \in {Absent, [shape |-> "whole", head |-> Blank, body |-> {"default"}]}
        /\ pc = "idle" /\ op = "none" /\ seen = Blank /\ keep = {}
        /\ acked = 0 /\ written = FALSE
        /\ env = [saves |-> 0, edits |-> 0, late |-> 0, breaks |-> 0, faults |-> 0]

\* SaveCurrent with a new record reads no header; Initialize leaves alone whatever
\* is there; the others begin with a Get method.
Start(o) ==
  /\ pc = "idle" /\ o \in doc.ops /\ env.saves < MaxSaves
  /\ op' = o /\ UNCHANGED <<seen, keep>>
  /\ o = "init" => ~Exists
  /\ pc' = IF o \in {"init", "replace"} THEN "merge" ELSE "get"
  /\ Count("saves") /\ UNCHANGED <<doc, file, acked, written>>

\* Mutant: what cannot be read counts as an empty header.
GetLenient == /\ pc = "get" /\ Goto("merge")
              /\ seen' = IF Readable THEN file.head ELSE Blank
              /\ UNCHANGED <<doc, file, keep, acked, written, env>>

\* readMeta.  SaveDecision alone goes on from nothing when there is no front matter,
\* which is also what an unterminated one is reported as.
Get == /\ pc = "get"
       /\ \/ Readable /\ seen' = file.head /\ Goto("merge") /\ UNCHANGED keep
          \/ /\ op = "append" /\ file.shape \in {"absent", "none", "open"}
             /\ seen' = Blank /\ Goto("merge") /\ UNCHANGED keep
          \/ op = "append" /\ file.shape = "bad" /\ Return
          \/ op = "update" /\ ~Readable /\ Return
       /\ UNCHANGED <<doc, file, acked, written, env>>

\* Mutant: a header that does not parse takes the body with it.
MergeStrict == /\ pc = "merge" /\ Goto("truncate")
               /\ keep' = IF Readable /\ Body(file) # {} THEN Body(file) ELSE {"default"}
               /\ UNCHANGED <<doc, file, seen, acked, written, env>>

\* writeMeta: carry over the body that is there, if any, else the default one.  A read
\* that fails is taken for a document that is not there.
Merge == /\ pc = "merge" /\ Goto("truncate")
         /\ \/ /\ keep' = IF Exists /\ Body(file) # {} THEN Body(file) ELSE {"default"}
               /\ UNCHANGED env
            \/ env.faults < MaxFaults /\ Count("faults") /\ keep' = {"default"}
         /\ UNCHANGED <<doc, file, seen, acked, written>>

\* os.WriteFile opens the file with O_TRUNC ...
Truncate == /\ pc = "truncate" /\ Goto("write") /\ file' = Empty
            /\ UNCHANGED <<doc, seen, keep, acked, written, env>>

\* Mutant: the system writes back only what it set itself.
NewHeaderOwnFields == [sys |-> seen.sys + 1, hand |-> 0, extra |-> "none"]

\* A new record takes the place of the old one; otherwise one change is added to
\* what was read.  The header goes through a struct (yaml.Unmarshal, yaml.Marshal),
\* so what the struct has no field for is not written back.
NewHeader ==
  IF op = "replace" THEN [Blank EXCEPT !.sys = acked + 1]
  ELSE [seen EXCEPT !.sys = IF op = "init" THEN 0 ELSE @ + 1, !.extra = "none"]

Rendered == [shape |-> "whole", head |-> NewHeader, body |-> keep]

\* ... and writes the text.
Write == /\ pc = "write" /\ Return
         /\ file' = Rendered
         /\ acked' = IF NewHeader.sys > acked THEN NewHeader.sys ELSE acked
         /\ UNCHANGED <<doc, written, env>>

\* The disk is full, or the process dies: part of the text is there.
WriteCutShort == /\ pc = "write" /\ env.faults < MaxFaults /\ Return
                 /\ file' \in Prefixes(Rendered)
                 /\ Count("faults") /\ UNCHANGED <<doc, acked, written>>

\* The process dies, or the read in Get fails.
Crash == /\ pc \notin {"idle", "write"} /\ env.faults < MaxFaults /\ Return
         /\ Count("faults") /\ UNCHANGED <<doc, file, acked, written>>
-----------------------------------------------------------------------------
HandsFree == Exists /\ (doc.concurrent \/ pc = "idle")

\* Someone adds a task, or changes another field; "late", if a call has the header in hand.
EditHeader == /\ HandsFree /\ Readable /\ env.edits < MaxEdits
              /\ env' = [env EXCEPT !.edits = @ + 1, !.late = IF Underway THEN @ + 1 ELSE @]
              /\ file' = [file EXCEPT !.head.hand = @ + 1]
              /\ UNCHANGED <<doc, call, acked, written>>

\* Someone adds a comment, or a key of their own; or writes prose.
Annotate == /\ HandsFree /\ Readable
            /\ file' = [file EXCEPT !.head.extra = "some"]
            /\ UNCHANGED <<doc, call, acked, written, env>>

EditBody == /\ HandsFree /\ ~written /\ written' = TRUE
            /\ file' = [file EXCEPT !.body = {"prose"}]
            /\ UNCHANGED <<doc, call, acked, env>>

\* Someone gets the header wrong, and later puts it right.
BreakHeader == /\ HandsFree /\ Readable /\ env.breaks < MaxBreaks /\ Count("breaks")
               /\ \E h \in doc.breaks : file' = [file EXCEPT !.shape = h, !.head = Blank]
               /\ UNCHANGED <<doc, call, acked, written>>

MendHeader == /\ HandsFree /\ ~Readable
              /\ file' = [file EXCEPT !.shape = "whole",
                                      !.head = [Blank EXCEPT !.sys = acked, !.hand = env.edits]]
              /\ UNCHANGED <<doc, call, acked, written, env>>

Hand   == EditHeader \/ Annotate \/ EditBody \/ BreakHeader \/ MendHeader
System == (\E o \in doc.ops : Start(o)) \/ Get \/ Merge \/ Truncate \/ Write
Next   == System \/ WriteCutShort \/ Crash \/ Hand
Spec   == Init /\ [][Next]_vars
-----------------------------------------------------------------------------
\* Types; and no document is written without a body.
TypeOK ==
  /\ doc \in Docs /\ file \in Text
  /\ pc \in {"idle", "get", "merge", "truncate", "write"} /\ op \in doc.ops \cup {"none"}
  /\ seen \in Header /\ keep \subseteq Parts /\ (pc \in {"truncate", "write"} => keep # {})
  /\ acked \in 0..MaxSaves /\ written \in BOOLEAN
  /\ env.saves <= MaxSaves /\ env.edits <= MaxEdits /\ env.late <= env.edits
  /\ env.breaks <= MaxBreaks /\ env.faults <= MaxFaults

AtRest == pc = "idle"

\* A state update never discards the prose, even above a header someone broke, unless
\* a write was cut short or somebody edited at the same time.
BodyKept == AtRest /\ written /\ env.faults = 0 /\ ~doc.concurrent => Exists /\ "prose" \in file.body

\* SaveDecision starts over when it finds no front matter, which may be all that a
\* write cut short or a careless hand has left.
StartsOver ==
  /\ "append" \in doc.ops
  /\ env.faults > 0 \/ (env.breaks > 0 /\ doc.breaks \cap {"none", "open"} # {})

\* What the system recorded is still there, whatever happened to the document in
\* between: no other call starts over from an empty record.
AckedKept == Readable /\ ~StartsOver => file.head.sys >= acked

\* Of the changes people make to the fields the system knows, an update can only undo
\* those saved while it had the header in hand; between two updates, and before the
\* first read of one, an edit stays.  (Comments and keys of their own do not.)
HandEditsKept ==
  AtRest /\ Readable /\ "replace" \notin doc.ops /\ ~StartsOver
  => file.head.hand + env.late >= env.edits

\* No crash leaves a torn document: at rest only a hand can have made it unreadable.
NeverTorn == AtRest /\ Exists /\ env.breaks = 0 => Readable
=============================================================================
