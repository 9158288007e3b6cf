------------------------------ MODULE LineSpec ------------------------------
(***************************************************************************)
(* What the shell's line editor promises: a line with a cursor in it, and a *)
(* walk through the last lines that were executed.                          *)
(***************************************************************************)
EXTENDS Integers, Sequences

CONSTANTS
  Chars,        \* what can be typed; Blank is one of them
  MaxLine,      \* the longest line
  MaxPast       \* lines remembered

VARIABLES
  before, after,     \* the line, left and right of the cursor
  past,              \* the lines executed, oldest first
  at                 \* the line of past being shown; Len(past) + 1 for none

specVars == <<before, after, past, at>>

Blank == " "
Line == before \o after
SpecInit == before = <<>> /\ after = <<>> /\ past = <<>> /\ at = 1

SetLine(line) == before' = line /\ after' = <<>>

Insert(c) ==
  /\ before' = IF Len(Line) < MaxLine THEN Append(before, c) ELSE before
  /\ UNCHANGED <<after, past, at>>

Backspace ==
  /\ before # <<>> /\ before' = SubSeq(before, 1, Len(before) - 1)
  /\ UNCHANGED <<after, past, at>>

MoveLeft ==
  /\ before # <<>>
  /\ before' = SubSeq(before, 1, Len(before) - 1)
  /\ after' = <<before[Len(before)]>> \o after
  /\ UNCHANGED <<past, at>>

MoveRight ==
  /\ after # <<>>
  /\ before' = Append(before, Head(after)) /\ after' = Tail(after)
  /\ UNCHANGED <<past, at>>

\* The walk shows an executed line, and an empty line behind the newest.  Where
\* nothing was executed yet it may drop what is being typed.
Walk(to) ==
  /\ to \in 1..(Len(past) + 1)
  /\ SetLine(IF to <= Len(past) THEN past[to] ELSE <<>>)
  /\ at' = to /\ UNCHANGED past

Up == Walk(at - 1)
Down == at <= Len(past) /\ Walk(at + 1)
NothingToShow == past = <<>> /\ Walk(1)

\* The line without the blanks at its ends.
Trimmed(line) ==
  LET inked == {i \in DOMAIN line : line[i] # Blank}
  IN IF inked = {} THEN <<>>
     ELSE SubSeq(line, CHOOSE i \in inked : \A j \in inked : i <= j,
                       CHOOSE i \in inked : \A j \in inked : i >= j)

\* The newest lines that fit in the memory.
Newest(lines) == SubSeq(lines, IF Len(lines) > MaxPast THEN 2 ELSE 1, Len(lines))

Execute ==
  /\ SetLine(<<>>)
  /\ past' = IF Trimmed(Line) = <<>> THEN past ELSE Newest(Append(past, Trimmed(Line)))
  /\ at' = IF Trimmed(Line) = <<>> THEN at ELSE Len(past') + 1

Cancel == SetLine(<<>>) /\ UNCHANGED <<past, at>>

SpecNext ==
  \/ Cancel \/ Execute
  \/ \E c \in Chars : Insert(c)
  \/ Backspace \/ MoveLeft \/ MoveRight
  \/ Up \/ Down \/ NothingToShow

Spec == SpecInit /\ [][SpecNext]_specVars
=============================================================================
