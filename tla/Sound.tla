------------------------------- MODULE Sound -------------------------------
(***************************************************************************)
(* Playback: the streams of kernel/sound/sound_core.c, the AC97 and HDA    *)
(* drivers that copy a stream into the pages the hardware plays, and the   *)
(* work queue that runs the copying at the timer tick.                     *)
(*                                                                         *)
(* One thread makes the calls, and the timer and sound interrupts run      *)
(* between its steps.  A unit of sound is a number, counted from 1 when a  *)
(* stream starts and modulo Numbers; Silence is not one, and takes the     *)
(* place of units that have been copied out of a ring or played.           *)
(***************************************************************************)
EXTENDS Integers, Sequences, FiniteSets, SequencesExt

CONSTANTS
  Streams,       \* stream objects
  Pages,         \* AC97_BDL_COUNT
  PageSize,      \* AC97_PAGE_SIZE, in units
  BufferSize,    \* buffer_size of a stream, in units
  Lengths,       \* units in one write
  Others,        \* calls other drivers schedule, counted modulo Others
  MaxItems       \* WORKQUEUE_MAX_ITEMS

ASSUME SoundAssumption ==
  {Pages, PageSize, BufferSize} \subseteq Nat \ {0} /\ Pages > 1 /\ MaxItems \in Nat \ {0, 1}

-----------------------------------------------------------------------------
(* The ring of deferred calls (kernel/workqueue.c).  Interrupt handlers put
   calls into it, the timer tick takes them out and makes them.  Each operation
   runs with interrupts disabled, so it is a function from ring to ring. *)

NoWork == [fn |-> "none"]

workqueue_init == [items |-> [k \in 0..(MaxItems - 1) |-> NoWork], head |-> 0, tail |-> 0]

IsFull(q) == (q.tail + 1) % MaxItems = q.head
IsEmpty(q) == q.head = q.tail

\* The ring is left as it is, and the call is lost, when it is full
workqueue_schedule(q, w) ==
  IF IsFull(q) THEN q
  ELSE [q EXCEPT !.items[q.tail] = w, !.tail = (@ + 1) % MaxItems]

\* The calls waiting, first to be made first
Count(q) == (q.tail + MaxItems - q.head) % MaxItems
Waiting(q) == [i \in 1..Count(q) |-> q.items[(q.head + i - 1) % MaxItems]]

\* Both workqueue_cancel and workqueue_flush_fn pack what remains to the front
Packed(seq) ==
  [items |-> [k \in 0..(MaxItems - 1) |-> IF k < Len(seq) THEN seq[k + 1] ELSE NoWork],
   head |-> 0, tail |-> Len(seq)]
workqueue_filter(q, w) == Packed(SelectSeq(Waiting(q), LAMBDA x : x # w))

\* One round of workqueue_run: the call made, and the ring it leaves
Due(q) == q.items[q.head]
workqueue_run(q) == [q EXCEPT !.items[q.head] = NoWork, !.head = (@ + 1) % MaxItems]

-----------------------------------------------------------------------------
(* Streams, the device and its controller. *)

None == 0              \* no stream
Silence == 0
Numbers == Pages * PageSize + BufferSize + 1

VARIABLES
  stream,      \* per stream: its ring, its state and the last unit written to it
  dev,         \* the device: active stream, driver memory, pages and next_page
  hw,          \* the controller: run bit, page being played, last valid page, interrupt
  wq,          \* the work queue
  others,      \* the other drivers' next call
  pc           \* where the thread is inside sound_stream_stop, and of which stream

soundVars == <<stream, dev, hw, wq, others, pc>>

Closed == [open |-> FALSE, state |-> "stopped", buffer |-> [k \in 0..(BufferSize - 1) |-> Silence],
           write |-> 0, read |-> 0, ready |-> 0, last |-> Numbers, paused |-> FALSE]
Refill == [fn |-> "refill"]
OtherCall(n) == [fn |-> "other", arg |-> n]
AtRest == [at |-> "rest", of |-> None, then |-> "nothing"]

SoundInit ==
  /\ stream = [s \in Streams |-> Closed]
  /\ dev = [active |-> None, alive |-> TRUE, next |-> 0,
            page |-> [k \in 0..(Pages - 1) |-> [i \in 1..PageSize |-> Silence]]]
  /\ \E kind \in {"ac97", "hda"} :
       hw = [kind |-> kind, run |-> FALSE, civ |-> 0, lvi |-> 0, halted |-> FALSE, irq |-> FALSE]
  /\ wq = workqueue_init
  /\ others = 0
  /\ pc = AtRest

-----------------------------------------------------------------------------
(* The ring of a stream. *)

Smaller(a, b) == IF a < b THEN a ELSE b

\* sound_stream_read of up to n units: the units, and the ring without them
ReadUnits(s, n) ==
  [i \in 1..Smaller(n, s.ready) |-> s.buffer[(s.read + i - 1) % BufferSize]]
AfterRead(s, n) ==
  [s EXCEPT !.read = (@ + Smaller(n, s.ready)) % BufferSize, !.ready = @ - Smaller(n, s.ready),
            !.buffer = [k \in DOMAIN @ |->
               IF (k + BufferSize - s.read) % BufferSize < Smaller(n, s.ready) THEN Silence ELSE @[k]]]

\* The number of the i-th unit written after last
Nth(last, i) == ((last + i - 1) % Numbers) + 1

\* sound_stream_write of n units that fit
AfterWrite(s, n) ==
  [s EXCEPT !.buffer = [k \in DOMAIN @ |->
              IF (k + BufferSize - s.write) % BufferSize < n
              THEN Nth(s.last, ((k + BufferSize - s.write) % BufferSize) + 1) ELSE @[k]],
            !.write = (@ + n) % BufferSize, !.ready = @ + n, !.last = Nth(@, n)]

Padded(units) == [i \in 1..PageSize |-> IF i <= Len(units) THEN units[i] ELSE Silence]

-----------------------------------------------------------------------------
(* The driver.  A filling is the device and the stream it reads from. *)

FillPage(f, k) ==
  [d |-> [f.d EXCEPT !.page[k] = Padded(ReadUnits(f.s, PageSize))], s |-> AfterRead(f.s, PageSize)]
FillPages(d, s, ks) == FoldLeft(FillPage, [d |-> d, s |-> s], ks)

\* The pages from next_page up to, and without, the one the hardware is at
PagesBefore(from, to) == [i \in 1..((to + Pages - from) % Pages) |-> (from + i - 1) % Pages]

\* The hardware, halted at its last valid page, goes on when it is given another
SetLastValid(h, k) ==
  IF h.run /\ h.halted /\ k # h.civ
  THEN [h EXCEPT !.lvi = k, !.civ = (@ + 1) % Pages, !.halted = FALSE]
  ELSE [h EXCEPT !.lvi = k]

LastValid(current) == (current + Pages - 1) % Pages

CanRefill == dev.alive /\ dev.active # None /\ stream[dev.active].state = "running"
Refilled == FillPages(dev, stream[dev.active], PagesBefore(dev.next, hw.civ))
TakeRefill(f) ==
  /\ dev' = [f.d EXCEPT !.next = hw.civ]
  /\ stream' = [stream EXCEPT ![dev.active] = f.s]
ac97_refill ==
  IF CanRefill THEN TakeRefill(Refilled) /\ hw' = SetLastValid(hw, LastValid(hw.civ))
  ELSE UNCHANGED <<dev, stream, hw>>
hda_refill ==
  /\ UNCHANGED hw
  /\ IF CanRefill THEN TakeRefill(Refilled) ELSE UNCHANGED <<dev, stream>>

\* Nothing is read while a stream starts, as start has just emptied its ring
fill_initial_pages(d, t) == FillPages(d, t, [i \in 1..Pages |-> i - 1])
TakeStart(f, s) ==
  /\ stream' = [stream EXCEPT ![s] = f.s]
  /\ dev' = [f.d EXCEPT !.active = s, !.next = 0]
ac97_start(t, s) ==
  /\ TakeStart(fill_initial_pages(dev, t), s)
  /\ hw' = [hw EXCEPT !.lvi = Pages - 1, !.run = TRUE, !.halted = FALSE]
hda_start(t, s) ==
  /\ TakeStart(fill_initial_pages(dev, t), s)
  /\ hw' = [hw EXCEPT !.run = TRUE]

-----------------------------------------------------------------------------
(* Calls of the thread. *)

Rest == pc = AtRest /\ dev.alive

sound_stream_open(s) ==
  /\ Rest /\ ~stream[s].open
  /\ stream' = [stream EXCEPT ![s] = [Closed EXCEPT !.open = TRUE]]
  /\ UNCHANGED <<dev, hw, wq, others, pc>>

Started == [Closed EXCEPT !.open = TRUE, !.state = "running"]

\* A start for capture is refused by the driver, when the stream is already the active one
sound_stream_start(s, playback) ==
  /\ Rest /\ stream[s].open
  /\ IF playback THEN IF hw.kind = "ac97" THEN ac97_start(Started, s) ELSE hda_start(Started, s)
     ELSE /\ stream' = [stream EXCEPT ![s] = [Started EXCEPT !.state = "error"]]
          /\ dev' = [dev EXCEPT !.active = s]
          /\ UNCHANGED hw
  /\ UNCHANGED <<wq, others, pc>>

sound_stream_pause(s) ==
  /\ Rest /\ stream[s].state = "running"
  /\ stream' = [stream EXCEPT ![s].state = "paused", ![s].paused = TRUE]
  /\ UNCHANGED <<dev, hw, wq, others, pc>>

sound_stream_resume(s) ==
  /\ Rest /\ stream[s].state = "paused"
  /\ stream' = [stream EXCEPT ![s].state = "running"]
  /\ UNCHANGED <<dev, hw, wq, others, pc>>

\* More than fits is cut off, and the caller is told
sound_stream_write(s, n) ==
  /\ Rest /\ stream[s].open /\ stream[s].state = "running"
  /\ stream' = [stream EXCEPT ![s] = AfterWrite(@, Smaller(n, BufferSize - @.ready))]
  /\ UNCHANGED <<dev, hw, wq, others, pc>>

\* sound_stream_stop, by itself or inside close or unregister: the state, the hardware,
\* the pending refills, the active stream, one after the other
BeginStop(s, then) ==
  /\ stream' = [stream EXCEPT ![s].state = "stopped"]
  /\ pc' = [at |-> "device", of |-> s, then |-> then]
  /\ UNCHANGED <<dev, hw, wq, others>>
sound_stream_stop(s) == Rest /\ stream[s].open /\ BeginStop(s, "nothing")
sound_stream_close(s) ==
  /\ Rest /\ stream[s].open
  /\ IF stream[s].state \in {"running", "paused"} THEN BeginStop(s, "close")
     ELSE /\ stream' = [stream EXCEPT ![s] = Closed]
          /\ UNCHANGED <<dev, hw, wq, others, pc>>
sound_device_unregister ==
  /\ Rest
  /\ pc' = [at |-> "device", of |-> dev.active, then |-> "unregister"]
  /\ UNCHANGED <<stream, dev, hw, wq, others>>

\* ac97_stop and hda_stop
StopDevice ==
  /\ pc.at = "device"
  /\ hw' = [hw EXCEPT !.run = FALSE, !.halted = FALSE]
  /\ pc' = [pc EXCEPT !.at = "cancel"]
  /\ UNCHANGED <<stream, dev, wq, others>>
CancelRefills ==
  /\ pc.at = "cancel"
  /\ wq' = workqueue_filter(wq, Refill)
  /\ pc' = [pc EXCEPT !.at = "release"]
  /\ UNCHANGED <<stream, dev, hw, others>>

\* The stream an unregister finds active is stopped here, the closed one emptied
Released(s, then) ==
  IF s = None THEN stream
  ELSE [stream EXCEPT ![s] = IF then = "close" THEN Closed ELSE [@ EXCEPT !.state = "stopped"]]

ReleaseStream ==
  /\ pc.at = "release"
  /\ stream' = Released(pc.of, pc.then)
  /\ dev' = [dev EXCEPT !.active = None, !.alive = pc.then # "unregister"]
  /\ pc' = AtRest
  /\ UNCHANGED <<hw, wq, others>>

-----------------------------------------------------------------------------
(* Interrupts, between any two steps of the thread. *)

\* An AC97 controller halts at its last valid page and interrupts
PlayAc97 ==
  hw' = IF hw.civ = hw.lvi THEN [hw EXCEPT !.halted = TRUE, !.irq = TRUE]
        ELSE [hw EXCEPT !.civ = (@ + 1) % Pages]
\* An HDA controller interrupts at every page and never halts; it is taken to be slower
\* than the refilling of the page it comes to
PlayHda ==
  /\ (hw.civ + 1) % Pages # dev.next
  /\ hw' = [hw EXCEPT !.civ = (@ + 1) % Pages, !.irq = TRUE]
PlayPage ==
  /\ hw.run /\ ~hw.halted
  /\ IF hw.kind = "ac97" THEN PlayAc97 ELSE PlayHda
  /\ dev' = [dev EXCEPT !.page[hw.civ] = Padded(<<>>)]
  /\ UNCHANGED <<stream, wq, others, pc>>

\* The refill is scheduled only when nothing else is
BugIrq ==
  /\ hw.irq /\ dev.alive
  /\ hw' = [hw EXCEPT !.irq = FALSE]
  /\ wq' = IF IsEmpty(wq) THEN workqueue_schedule(wq, Refill) ELSE wq
  /\ UNCHANGED <<stream, dev, others, pc>>
\* ac97_irq and hda_irq: acknowledge, and leave the copying to the tick
SoundIrq ==
  /\ hw.irq /\ dev.alive
  /\ hw' = [hw EXCEPT !.irq = FALSE]
  /\ wq' = workqueue_schedule(wq, Refill)
  /\ UNCHANGED <<stream, dev, others, pc>>

\* Another driver's handler; it leaves a place for the refill
OtherIrq ==
  /\ Count(wq) < MaxItems - 2
  /\ wq' = workqueue_schedule(wq, OtherCall(others))
  /\ others' = (others + 1) % Others
  /\ UNCHANGED <<stream, dev, hw, pc>>

\* One call of workqueue_run at the tick
RunWork ==
  /\ ~IsEmpty(wq)
  /\ wq' = workqueue_run(wq)
  /\ IF Due(wq) # Refill THEN UNCHANGED <<stream, dev, hw>>
     ELSE IF hw.kind = "ac97" THEN ac97_refill ELSE hda_refill
  /\ UNCHANGED <<others, pc>>

Interrupt == PlayPage \/ SoundIrq \/ RunWork

StreamCall(s) ==
  \/ sound_stream_open(s) \/ sound_stream_pause(s) \/ sound_stream_resume(s)
  \/ sound_stream_stop(s) \/ sound_stream_close(s)
  \/ \E playback \in BOOLEAN : sound_stream_start(s, playback)
Stopping == StopDevice \/ CancelRefills \/ ReleaseStream

SoundNext ==
  \/ \E s \in Streams : StreamCall(s) \/ \E n \in Lengths : sound_stream_write(s, n)
  \/ sound_device_unregister \/ Stopping \/ Interrupt \/ OtherIrq

SoundSpec == SoundInit /\ [][SoundNext]_soundVars
-----------------------------------------------------------------------------
(* Properties. *)

SoundTypeOK ==
  /\ hw.civ \in 0..(Pages - 1) /\ hw.lvi \in 0..(Pages - 1) /\ dev.next \in 0..(Pages - 1)
  /\ dev.active \in Streams \cup {None}
  /\ \A s \in Streams : stream[s].ready \in 0..BufferSize
  /\ wq.head \in 0..(MaxItems - 1) /\ wq.tail \in 0..(MaxItems - 1)

\* The pages still to be played, and what the ring holds after them
ToPlay ==
  IF hw.halted THEN <<>>
  ELSE <<hw.civ>> \o PagesBefore((hw.civ + 1) % Pages, dev.next)
Queued(s) ==
  FoldLeft(LAMBDA acc, k : acc \o dev.page[k], <<>>, ToPlay) \o ReadUnits(stream[s], BufferSize)

\* What a running stream will play is what was written to it, in order, without a unit
\* lost or played twice: neither the ring, nor the refilling of pages behind the
\* hardware, nor the restart of a stream disturbs it (sound_core.c:164-262,
\* ac97.c:74-117, 153-164).
PlaysInOrder ==
  hw.run /\ dev.active # None /\ stream[dev.active].state \in {"running", "paused"} =>
    LET units == SelectSeq(Queued(dev.active), LAMBDA n : n # Silence) IN
    \A i \in DOMAIN units : units[i] = Nth(stream[dev.active].last, i + Numbers - Len(units))

\* A halted controller whose stream runs, and was never paused, has an interrupt or a
\* refill on its way: playing does not stop for good (ac97.c:74-100, 222-231).
NoStall ==
  hw.run /\ hw.halted /\ CanRefill /\ ~stream[dev.active].paused =>
    hw.irq \/ \E i \in DOMAIN Waiting(wq) : Waiting(wq)[i] = Refill

\* Calls of other drivers are made in the order they were scheduled, whatever is
\* cancelled among them (workqueue.c:33-142).
OthersInOrder ==
  LET calls == SelectSeq(Waiting(wq), LAMBDA w : w.fn = "other") IN
  \A i \in DOMAIN calls : calls[i].arg = (others + Others + i - Len(calls) - 1) % Others

\* The device plays what the stream was given, with its state in range
\* (sound_core.c:164-262, ac97.c:74-164).
PlaybackExact == SoundTypeOK /\ PlaysInOrder
=============================================================================
