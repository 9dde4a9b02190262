------------------------------- MODULE Review -------------------------------
(***************************************************************************)
(* The self-review of one change (internal/review): Reviewer.Review asks   *)
(* Claude, extractJSON finds the object in the reply, and ParseReview      *)
(* reads a verdict out of it.  The scan is one character a step; the       *)
(* reading of the object and the verdict are one step each.                *)
(*                                                                         *)
(* A reply is prose, the object, and more prose.  Characters are told      *)
(* apart only as far as the scan does.  What the object says is not        *)
(* spelled out: it is the reviewer's verdict and findings, and a piece of  *)
(* the reply that is not that object says anything, or does not parse.     *)
(***************************************************************************)
EXTENDS Integers, Sequences, SequencesExt, Functions

CONSTANTS
  Prose, Trailers,   \* what may stand before and after the object: sets of sequences
  MaxObject,         \* the object's length is at most this
  MaxFindings        \* how many findings a reviewer reports, at most

Chars == {"open", "close", "quote", "slash", "x"}
Brace == {"open", "close"}

ASSUME ReviewAssumption ==
  /\ Prose \subseteq Seq(Chars) /\ Trailers \subseteq Seq(Chars)
  /\ MaxObject \in Nat /\ MaxFindings \in Nat

Joined(A, B)      == {a \o b : a \in A, b \in B}
Enclosed(l, A, r) == {<<l>> \o a \o <<r>> : a \in A}

\* Inside a string literal: a slash takes the next character with it.
Plain   == {<<c>> : c \in {"x"} \cup Brace}
Escapes == {<<"slash", c>> : c \in Chars}
Inside[n \in 0..MaxObject] ==
  IF n = 0 THEN {<<>>}
  ELSE Joined(Plain, Inside[n - 1]) \cup IF n = 1 THEN {} ELSE Joined(Escapes, Inside[n - 2])

\* Inside an object: anything plain, string literals, and objects.
Nested(L, O) == Enclosed("quote", L, "quote") \cup Enclosed("open", O, "close")
Items[n \in 0..MaxObject] ==
  IF n = 0 THEN {<<>>}
  ELSE Joined({<<"x">>}, Items[n - 1])
       \cup UNION {Joined(Nested(Inside[k - 2], Items[k - 2]), Items[n - k]) : k \in 2..n}

\* The JSON objects a reviewer may write, up to a length.
Objects == UNION {Enclosed("open", Items[n - 2], "close") : n \in 2..MaxObject}

Severities == {"critical", "major", "minor", "unknown"}
Finding    == [severity : Severities, described : BOOLEAN]
\* What a reviewer says, or a piece of a reply seems to say; "none": no readable verdict.
Says == [approved : {"yes", "no", "none"}, findings : UNION {[1..n -> Finding] : n \in 0..MaxFindings}]

VARIABLES
  stage,                       \* where Review is
  reply,                       \* the text of the reply, its object, and what comes before that
  says,                        \* what the object says, once it has been read
  i, depth, inString, escaped, \* extractJSON's own
  start, piece,                \* where the scan began, and what it returned (<<>>: nothing)
  outcome                      \* Review's answer: none yet, "approved", "rejected" or "error"

reviewVars == <<stage, reply, says, i, depth, inString, escaped, start, piece, outcome>>
scan == <<i, depth, inString, escaped, start, piece>>

NoReply == [text |-> <<>>, before |-> <<>>, object |-> <<>>]
Unread  == [approved |-> "none", findings |-> <<>>]
-----------------------------------------------------------------------------
ReviewInit ==
  /\ stage = "asking" /\ reply = NoReply /\ says = Unread /\ outcome = "none"
  /\ i = 0 /\ depth = 0 /\ inString = FALSE /\ escaped = FALSE /\ start = 0 /\ piece = <<>>

\* Review returns.
Return(o) == stage' = "done" /\ outcome' = o

\* An empty diff is approved unseen; a session that fails or reports errors is an error.
AskNothing == /\ stage = "asking" /\ \E o \in {"approved", "error"} : Return(o)
              /\ UNCHANGED <<reply, says, scan>>

Receive ==
  /\ stage = "asking" /\ stage' = "seeking"
  /\ \E p \in Prose, o \in Objects \cup {<<>>}, t \in Trailers :
       reply' = [text |-> p \o o \o t, before |-> p, object |-> o]
  /\ UNCHANGED <<says, scan, outcome>>

\* strings.IndexByte: the first open brace.
Seek ==
  /\ stage = "seeking"
  /\ IF \E k \in DOMAIN reply.text : reply.text[k] = "open"
     THEN /\ start' = SelectInSeq(reply.text, LAMBDA c : c = "open") /\ i' = start'
          /\ stage' = "scanning" /\ UNCHANGED outcome
     ELSE Return("error") /\ UNCHANGED <<i, start>>
  /\ UNCHANGED <<reply, says, depth, inString, escaped, piece>>

Char == reply.text[i]

\* Mutant: a slash in a string literal is a character like any other.
InLiteralPlainly ==
  /\ inString' = (Char # "quote") /\ escaped' = FALSE
  /\ UNCHANGED <<depth, piece, stage>>

\* Within a string literal only its end counts, and a slash hides the next character.
InLiteral ==
  /\ escaped'  = (~escaped /\ Char = "slash")
  /\ inString' = (escaped \/ Char # "quote")
  /\ UNCHANGED <<depth, piece, stage>>

Outside ==
  /\ inString' = (Char = "quote") /\ UNCHANGED escaped
  /\ depth' = depth + (CASE Char = "open" -> 1 [] Char = "close" -> -1 [] OTHER -> 0)
  /\ IF Char = "close" /\ depth' = 0
     THEN piece' = SubSeq(reply.text, start, i) /\ stage' = "reading"
     ELSE UNCHANGED <<piece, stage>>

\* One character of extractJSON's loop.
Step ==
  /\ stage = "scanning" /\ i <= Len(reply.text)
  /\ IF inString THEN InLiteral ELSE Outside
  /\ i' = i + 1
  /\ UNCHANGED <<reply, says, start, outcome>>

\* The text ends before the braces balance.
RunOut == /\ stage = "scanning" /\ i > Len(reply.text) /\ Return("error")
          /\ UNCHANGED <<reply, says, scan>>

\* Mutant: a severity nobody knows is let through.
BlockingIfKnown(f) == f.described /\ f.severity \in {"critical", "major"}

\* normalizeSeverity and Review.Blocking; a finding without a description is dropped.
Blocking(f) == f.described /\ f.severity # "minor"

\* ParseReview, given what the object says.
ParseReview(s) ==
  IF s.approved = "none" THEN "error"
  ELSE IF s.approved = "yes" /\ \A k \in DOMAIN s.findings : ~Blocking(s.findings[k])
       THEN "approved" ELSE "rejected"

\* json.Unmarshal: the object says what the reviewer says; another piece says anything.
Parse ==
  /\ stage = "reading"
  /\ \/ piece = reply.object /\ says' \in Says /\ Return(ParseReview(says'))
     \/ piece # reply.object /\ UNCHANGED says /\ Return("error")
     \/ piece # reply.object /\ UNCHANGED says /\ \E s \in Says : Return(ParseReview(s))
  /\ UNCHANGED <<reply, scan>>

ReviewNext == AskNothing \/ Receive \/ Seek \/ Step \/ RunOut \/ Parse

ReviewSpec == ReviewInit /\ [][ReviewNext]_reviewVars
-----------------------------------------------------------------------------

\* A reply with an object in it, and no open brace in the prose before that.
Legible == reply.object # <<>> /\ "open" \notin Range(reply.before)

\* The object a reviewer wrote is what extractJSON returns, whatever it holds (nested
\* objects, braces and escaped quotes in string literals) and whatever follows it
\* (parse.go, extractJSON).
ObjectFound == Legible => /\ stage = "reading" => piece = reply.object
                          /\ stage = "done" => piece # <<>>

\* A reply counts as an approval only if the reviewer said so and reported nothing that
\* blocks: every described finding is known to be minor (parse.go, ParseReview).
ApprovalIsMeant ==
  Legible /\ outcome = "approved"
     => /\ says.approved = "yes"
        /\ \A k \in DOMAIN says.findings :
             says.findings[k].described => says.findings[k].severity = "minor"
=============================================================================
