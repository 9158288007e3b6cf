------------------------------ MODULE Keyboard ------------------------------
(***************************************************************************)
(* The keyboard driver (kernel/drivers/keyboard/keyboard.c) between the     *)
(* controller's port and the two kinds of reader: the shell's loop, which   *)
(* reads the interrupt's queue alone, and the line readers of the login and *)
(* of the drift language, which look at the port when the queue is empty.   *)
(*                                                                         *)
(* Strokes are numbered as they are made, so that order, loss and repeats   *)
(* show.  A byte is a prefix or a scancode with its stroke; the interrupt   *)
(* can come between any two reads of the port or of the driver's variables  *)
(* that irq_save does not protect.                                          *)
(***************************************************************************)
EXTENDS Integers, Sequences, SequencesExt

CONSTANTS
  KEYBOARD_QUEUE_SIZE,    \* cells of the event queue
  MaxStrokes              \* bound: strokes made in a behaviour

ASSUME KeyboardAssumption == KEYBOARD_QUEUE_SIZE \in Nat \ {0, 1} /\ MaxStrokes \in Nat

VARIABLES
  port,       \* the bytes the controller holds or still receives, and the last one read
  keyboard,   \* the driver: ring, head, tail, modifiers, Ctrl+C flag and both prefix flags
  reader,     \* who reads, and where it is inside its read
  strokes,    \* strokes made so far, and the modifiers held down
  got,        \* what the reader was given
  dropped     \* strokes the driver let go: the queue was full or was cleared; Torn

keyboardVars == <<port, keyboard, reader, strokes, got, dropped>>

-----------------------------------------------------------------------------
(* The driver.  A scancode comes with the number n of its stroke.            *)

Modifiers == {"shift", "ctrl"}
Letters == {"c", "s"}
Arrow == "left"           \* sent as a prefix and a scancode
Prefix == [key |-> "E0", down |-> TRUE, n |-> 0]
Torn == 0                 \* in dropped: a clear came between a prefix and its scancode
NoEvent == [key |-> "none", down |-> FALSE, n |-> 0, extended |-> FALSE]

KeyboardInit ==
  /\ port = [bytes |-> <<>>, last |-> Prefix]
  /\ keyboard = [ring |-> [i \in 0..(KEYBOARD_QUEUE_SIZE - 1) |-> NoEvent], head |-> 0, tail |-> 0,
                 held |-> [m \in Modifiers |-> FALSE], ctrl_c |-> FALSE,
                 pending_extended |-> FALSE, poll_pending_extended |-> FALSE]
  /\ reader \in [who : {"shell", "line"}, at : {"idle"}, flag : {FALSE}]
  /\ strokes = [made |-> 0, held |-> {}]
  /\ got = <<>> /\ dropped = {}

After(i) == (i + 1) % KEYBOARD_QUEUE_SIZE
keyboard_queue_empty(k) == k.head = k.tail
keyboard_queue_full(k) == After(k.head) = k.tail

\* Mutant: the test for a full queue is left out.
BugEnqueue(k, event) == [k EXCEPT !.ring[k.head] = event, !.head = After(k.head)]

keyboard_enqueue(k, event) ==
  IF keyboard_queue_full(k) THEN k
  ELSE [k EXCEPT !.ring[k.head] = event, !.head = After(k.head)]

\* The event at the tail is handed out; its cell is free again.
keyboard_dequeue(k) == [k EXCEPT !.ring[k.tail] = NoEvent, !.tail = After(k.tail)]

Event(byte, extended) ==
  [key |-> byte.key, down |-> byte.down, n |-> byte.n, extended |-> extended]

\* What a scancode does to the modifiers and to the Ctrl+C flag, whoever reads it.
Noted(k, byte) ==
  IF byte.key \in Modifiers THEN [k EXCEPT !.held[byte.key] = byte.down]
  ELSE IF byte.down /\ byte.key = "c" /\ k.held["ctrl"] THEN [k EXCEPT !.ctrl_c = TRUE]
  ELSE k

\* keyboard_handler: the interrupt takes one byte.
keyboard_handler ==
  LET byte == Head(port.bytes)
      event == Event(byte, keyboard.pending_extended)
      noted == [Noted(keyboard, byte) EXCEPT !.pending_extended = FALSE]
  IN /\ port.bytes # <<>>
     /\ port' = [bytes |-> Tail(port.bytes), last |-> byte]
     /\ IF byte = Prefix
        THEN /\ keyboard' = [keyboard EXCEPT !.pending_extended = TRUE]
             /\ UNCHANGED dropped
        ELSE /\ keyboard' = keyboard_enqueue(noted, event)
             /\ dropped' = dropped \cup (IF keyboard_queue_full(keyboard) THEN {byte.n} ELSE {})
     /\ UNCHANGED <<reader, strokes, got>>

\* The events in the queue, from the tail to the head.
Queued(k) ==
  [i \in 1..((k.head - k.tail) % KEYBOARD_QUEUE_SIZE) |->
     k.ring[(k.tail + i - 1) % KEYBOARD_QUEUE_SIZE]]

Scancodes(bytes) == SelectSeq(bytes, LAMBDA b : b # Prefix)

\* keyboard_clear_pending_input: the queue is emptied and the port drained of the
\* bytes that have arrived.
Cleared(k) ==
  [k EXCEPT !.ring = [i \in DOMAIN k.ring |-> NoEvent], !.head = 0, !.tail = 0,
            !.poll_pending_extended = FALSE]

Drained(bytes, k) ==
  /\ port' = [bytes |-> SubSeq(port.bytes, Len(bytes) + 1, Len(port.bytes)),
              last |-> IF bytes = <<>> THEN port.last ELSE Last(bytes)]
  /\ dropped' = dropped \cup {e.n : e \in Range(Queued(k)) \cup Range(Scancodes(bytes))}
                 \cup (IF bytes # <<>> /\ (k.pending_extended \/ Last(bytes) = Prefix)
                       THEN {Torn} ELSE {})

keyboard_clear_pending_input(k) ==
  /\ keyboard' = Cleared(k)
  /\ \E n \in 0..Len(port.bytes) : Drained(SubSeq(port.bytes, 1, n), k)

-----------------------------------------------------------------------------
(* The readers.                                                              *)

Given(event) == got' = Append(got, event)

\* The shell reads the Ctrl+C flag and clears it, in two accesses.
ReadCtrlC ==
  /\ reader.who = "shell" /\ reader.at = "idle"
  /\ reader' = [reader EXCEPT !.at = "flag", !.flag = keyboard.ctrl_c]
  /\ UNCHANGED <<port, keyboard, strokes, got, dropped>>

TakeCtrlC ==
  /\ reader.at = "flag"
  /\ keyboard' = [keyboard EXCEPT !.ctrl_c = FALSE]
  /\ reader' = [reader EXCEPT !.at = IF reader.flag THEN "cancel" ELSE "queue", !.flag = FALSE]
  /\ UNCHANGED <<port, strokes, got, dropped>>

\* shell_cancel_input.
CancelInput ==
  /\ reader.at = "cancel"
  /\ keyboard_clear_pending_input(keyboard)
  /\ reader' = [reader EXCEPT !.at = "idle"]
  /\ UNCHANGED <<strokes, got>>

\* keyboard_read_shell_event, and the first half of keyboard_read_event.
ReadQueue ==
  /\ reader.at = IF reader.who = "shell" THEN "queue" ELSE "idle"
  /\ IF keyboard_queue_empty(keyboard)
     THEN /\ reader' = [reader EXCEPT !.at = IF reader.who = "shell" THEN "idle" ELSE "status"]
          /\ UNCHANGED <<keyboard, got>>
     ELSE /\ keyboard' = keyboard_dequeue(keyboard)
          /\ Given(keyboard.ring[keyboard.tail])
          /\ reader' = [reader EXCEPT !.at = "idle"]
  /\ UNCHANGED <<port, strokes, dropped>>

\* The line reader looks whether the port holds a byte; then it reads the port,
\* which gives the last byte again if the interrupt took it meanwhile.
ReadStatus ==
  /\ reader.at = "status"
  /\ reader' = [reader EXCEPT !.at = IF port.bytes = <<>> THEN "idle" ELSE "data"]
  /\ UNCHANGED <<port, keyboard, strokes, got, dropped>>

keyboard_poll_port_event ==
  LET byte == IF port.bytes = <<>> THEN port.last ELSE Head(port.bytes)
      noted == [Noted(keyboard, byte) EXCEPT !.poll_pending_extended = FALSE]
  IN /\ reader.at = "data"
     /\ port' = [bytes |-> IF port.bytes = <<>> THEN <<>> ELSE Tail(port.bytes), last |-> byte]
     /\ reader' = [reader EXCEPT !.at = "idle"]
     /\ IF byte = Prefix
        THEN /\ keyboard' = [keyboard EXCEPT !.poll_pending_extended = TRUE]
             /\ UNCHANGED got
        ELSE /\ keyboard' = noted
             /\ Given(Event(byte, keyboard.poll_pending_extended))
     /\ UNCHANGED <<strokes, dropped>>

\* read_line of the login drops what was typed before its prompt.
read_line ==
  /\ reader.who = "line" /\ reader.at = "idle"
  /\ keyboard_clear_pending_input(keyboard)
  /\ UNCHANGED <<reader, strokes, got>>

-----------------------------------------------------------------------------
(* The keyboard: a stroke sends its bytes.  Modifiers are released when held, *)
(* letters and arrows come at any time, held down they repeat; one release stands *)
(* for those no reader heeds.                                                 *)

Send(key, down) ==
  LET byte == [key |-> key, down |-> down, n |-> strokes.made + 1]
  IN port' = [port EXCEPT !.bytes = @ \o (IF key = Arrow THEN <<Prefix, byte>> ELSE <<byte>>)]

Stroke(key, down) ==
  /\ strokes.made < MaxStrokes
  /\ key \in Modifiers => down = (key \notin strokes.held)
  /\ Send(key, down)
  /\ strokes' = [made |-> strokes.made + 1,
                 held |-> IF key \notin Modifiers THEN strokes.held
                          ELSE IF down THEN strokes.held \cup {key} ELSE strokes.held \ {key}]
  /\ UNCHANGED <<keyboard, reader, got, dropped>>

KeyboardNext ==
  \/ \E key \in Modifiers \cup Letters \cup {Arrow} : Stroke(key, TRUE)
  \/ \E key \in Modifiers \cup {"s"} : Stroke(key, FALSE)
  \/ keyboard_handler
  \/ ReadCtrlC \/ TakeCtrlC \/ CancelInput \/ ReadQueue
  \/ ReadStatus \/ keyboard_poll_port_event \/ read_line

-----------------------------------------------------------------------------
(* What is promised.                                                         *)

\* Everything on its way from the keyboard to the reader, oldest first.
NumbersOf(events) == [i \in DOMAIN events |-> events[i].n]
Received == [i \in DOMAIN got |-> got[i].n]
Pipeline == Received \o NumbersOf(Queued(keyboard)) \o NumbersOf(Scancodes(port.bytes))

\* Strokes reach the shell in the order they were made, none twice, each with the
\* prefix it was sent with, unless a clear tore the two apart; none is lost but those
\* the full queue refused and those a Ctrl+C cleared.  The line readers lose none
\* either (keyboard_enqueue, keyboard_dequeue, keyboard_clear_pending_input,
\* keyboard_poll_port_event).
KeysInOrder ==
  /\ Range(Pipeline) \cup (dropped \ {Torn}) = 1..strokes.made
  /\ reader.who = "shell" =>
       /\ \A i, j \in DOMAIN Pipeline : i < j => Pipeline[i] < Pipeline[j]
       /\ Range(Pipeline) \cap dropped = {}
       /\ Torn \notin dropped =>
            \A i \in DOMAIN got : got[i].extended = (got[i].key = Arrow)
=============================================================================
