----------------------------- MODULE LineEditor -----------------------------
(***************************************************************************)
(* The line editor of the shell (tools/shell/shell.c): the buffer that is   *)
(* edited in place, the ring of executed lines and the row of the screen    *)
(* the line is drawn in.  It takes any key event; module Keyboard has how   *)
(* events get there.  Commands leave the buffer as they like but set its    *)
(* length to 0, and cells behind the length are never read.                 *)
(***************************************************************************)
EXTENDS Integers, Sequences

CONSTANTS
  LineChars,           \* characters typed; Blank is one of them
  SHELL_BUFFER_SIZE,
  HISTORY_SIZE,
  IndexLimit           \* 2^32: the history's index is a u32

ASSUME LineEditorAssumption ==
  /\ SHELL_BUFFER_SIZE \in Nat \ {0} /\ HISTORY_SIZE \in Nat \ {0}
  /\ IndexLimit \in Nat /\ IndexLimit > HISTORY_SIZE

VARIABLES
  input,       \* buffer, len and cursor
  history,     \* the ring, count, head and index
  row          \* the cells of the screen right of the prompt, and shell_rendered_input_len

editorVars == <<input, history, row>>

Blank == " "
Nul == "0"

Text(in) == [i \in 1..in.len |-> in.buffer[i - 1]]
Empty(in) == [buffer |-> [in.buffer EXCEPT ![0] = Nul], len |-> 0, cursor |-> 0]
NewRow == [cells |-> [i \in 0..(SHELL_BUFFER_SIZE - 1) |-> Blank], rendered |-> 0]

EditorInit ==
  /\ input = [buffer |-> [i \in 0..(SHELL_BUFFER_SIZE - 1) |-> Nul], len |-> 0, cursor |-> 0]
  /\ history = [entries |-> [i \in 0..(HISTORY_SIZE - 1) |-> <<>>], count |-> 0, head |-> 0, index |-> 0]
  /\ row = NewRow

-----------------------------------------------------------------------------
(* Drawing.                                                                  *)

\* shell_print_buffer: what was drawn before and is no longer part of the line is blanked.
shell_print_buffer(r, in) ==
  [cells |-> [i \in DOMAIN r.cells |->
                IF i < in.len THEN in.buffer[i] ELSE IF i < r.rendered THEN Blank ELSE r.cells[i]],
   rendered |-> in.len]

shell_clear_line(r) ==
  [cells |-> [i \in DOMAIN r.cells |-> IF i < r.rendered THEN Blank ELSE r.cells[i]],
   rendered |-> 0]

-----------------------------------------------------------------------------
(* The history.                                                              *)

\* Mutant: the ring is taken to start at its first entry.
BugArrayIndex(h, n) == IF n >= h.count THEN 0 ELSE n

shell_history_array_index(h, n) ==
  IF n >= h.count THEN 0
  ELSE (((h.head + HISTORY_SIZE - h.count) % HISTORY_SIZE) + n) % HISTORY_SIZE

shell_add_history(h, line) ==
  IF line = <<>> THEN h
  ELSE LET count == IF h.count < HISTORY_SIZE THEN h.count + 1 ELSE h.count
       IN [entries |-> [h.entries EXCEPT ![h.head] = line], count |-> count,
           head |-> (h.head + 1) % HISTORY_SIZE, index |-> count]

\* The buffer after a string was copied to it.
Copied(in, line) ==
  [buffer |-> [i \in DOMAIN in.buffer |-> IF i < Len(line) THEN line[i + 1] ELSE Nul],
   len |-> Len(line), cursor |-> Len(line)]

\* An index behind the newest entry stands for an empty line.
shell_print_history_entry(h) ==
  /\ history' = h
  /\ IF h.index >= h.count
     THEN input' = Empty(input) /\ row' = shell_clear_line(row)
     ELSE /\ input' = Copied(input, h.entries[shell_history_array_index(h, h.index)])
          /\ row' = shell_print_buffer(shell_clear_line(row), input')

shell_history_prev ==
  /\ history.index > 0
  /\ shell_print_history_entry([history EXCEPT !.index = @ - 1])

\* count - 1 is the largest u32 when nothing was executed yet.
LastIndex == (history.count - 1) % IndexLimit

shell_history_next ==
  \/ /\ history.index < LastIndex
     /\ shell_print_history_entry([history EXCEPT !.index = @ + 1])
  \/ /\ history.index = LastIndex
     /\ history' = [history EXCEPT !.index = history.count]
     /\ input' = Empty(input) /\ row' = shell_clear_line(row)

-----------------------------------------------------------------------------
(* shell_poll_keyboard, by key.                                              *)

\* The characters behind the cursor move up one cell for the new one.
TypeChar(c) ==
  /\ input.len < SHELL_BUFFER_SIZE - 1
  /\ input' = [buffer |-> [i \in DOMAIN input.buffer |->
                             IF i = input.len + 1 THEN Nul
                             ELSE IF i = input.cursor THEN c
                             ELSE IF i \in (input.cursor + 1)..input.len THEN input.buffer[i - 1]
                             ELSE input.buffer[i]],
               len |-> input.len + 1, cursor |-> input.cursor + 1]
  /\ row' = shell_print_buffer(row, input')
  /\ UNCHANGED history

Delete ==
  /\ input.cursor > 0
  /\ input' = [buffer |-> [i \in DOMAIN input.buffer |->
                             IF i = input.len - 1 THEN Nul
                             ELSE IF i \in (input.cursor - 1)..(input.len - 2) THEN input.buffer[i + 1]
                             ELSE input.buffer[i]],
               len |-> input.len - 1, cursor |-> input.cursor - 1]
  /\ row' = shell_print_buffer(row, input')
  /\ UNCHANGED history

MoveCursor(to) ==
  /\ to \in 0..input.len
  /\ input' = [input EXCEPT !.cursor = to]
  /\ row' = shell_print_buffer(row, input')
  /\ UNCHANGED history

\* The blanks counted at the front, and the end without those at the back.
Leading(in, n) == \A i \in 0..(n - 1) : in.buffer[i] = Blank
Start(in) == CHOOSE n \in 0..in.len : Leading(in, n) /\ (n < in.len => in.buffer[n] # Blank)
End(in) ==
  CHOOSE n \in Start(in)..in.len :
    /\ \A i \in n..(in.len - 1) : in.buffer[i] = Blank
    /\ n > Start(in) => in.buffer[n - 1] # Blank

shell_normalize_input(in) ==
  [buffer |-> [i \in DOMAIN in.buffer |->
                 IF i < End(in) - Start(in) THEN in.buffer[i + Start(in)]
                 ELSE IF i = End(in) - Start(in) THEN Nul ELSE in.buffer[i]],
   len |-> End(in) - Start(in), cursor |-> in.cursor]

\* Enter: the command is remembered and run, and a new prompt is printed.  On an
\* empty line nothing happens.
EnterLine ==
  /\ input.len > 0
  /\ history' = shell_add_history(history, Text(shell_normalize_input(input)))
  /\ input' = [buffer |-> shell_normalize_input(input).buffer, len |-> 0, cursor |-> 0]
  /\ row' = NewRow

\* Ctrl+C.
shell_cancel_input ==
  /\ input' = Empty(input)
  /\ row' = NewRow
  /\ UNCHANGED history

EditorNext ==
  \/ \E c \in LineChars : TypeChar(c)
  \/ Delete
  \/ MoveCursor(input.cursor - 1) \/ MoveCursor(input.cursor + 1)
  \/ shell_history_prev \/ shell_history_next
  \/ EnterLine \/ shell_cancel_input

EditorSpec == EditorInit /\ [][EditorNext]_editorVars

-----------------------------------------------------------------------------
(* What is promised.                                                         *)

\* The line left and right of the cursor.
LeftOf(in) == SubSeq(Text(in), 1, in.cursor)
RightOf(in) == SubSeq(Text(in), in.cursor + 1, in.len)

\* The executed lines in the ring, oldest first, and the one being shown.
Remembered(h) == [n \in 1..h.count |-> h.entries[shell_history_array_index(h, n - 1)]]
WalkedTo(h) == IF h.index > h.count THEN h.count + 1 ELSE h.index + 1

Abstract ==
  INSTANCE LineSpec WITH
    Chars <- LineChars, MaxLine <- SHELL_BUFFER_SIZE - 1, MaxPast <- HISTORY_SIZE,
    before <- LeftOf(input), after <- RightOf(input),
    past <- Remembered(history), at <- WalkedTo(history)

\* The buffer edited in place and the ring are a line with a cursor and the last
\* lines executed, walked through in order (shell_poll_keyboard, shell_add_history,
\* shell_history_prev, shell_history_next, shell_normalize_input).
EditsALine == Abstract!Spec

\* The screen shows the line and nothing of what it was before (shell_print_buffer,
\* shell_clear_line).
ScreenShowsLine ==
  \A i \in DOMAIN row.cells : row.cells[i] = IF i < input.len THEN input.buffer[i] ELSE Blank
=============================================================================
