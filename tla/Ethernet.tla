------------------------------ MODULE Ethernet ------------------------------
(***************************************************************************)
(* The e1000 driver (kernel/drivers/net/e1000.c): the rings of descriptors  *)
(* it shares with the controller, its interrupt, the work it defers, and    *)
(* the polling of net_poll at every tick.  Handlers and the tick run with   *)
(* interrupts off, and so do system calls; the controller works on its side *)
(* of the rings all the time.  A command of the shell sends with interrupts *)
(* on: the Shell actions are its steps.                                     *)
(*                                                                         *)
(* Frames are numbered, as they find a descriptor and as they are given to  *)
(* be sent.                                                                *)
(***************************************************************************)
EXTENDS Integers, Sequences

CONSTANTS
  E1000_RX_DESC, E1000_TX_DESC,
  E1000_LINK_DEBOUNCE_SAMPLES,
  WorkSlots,         \* room of the work queue that other drivers leave
  MaxFrames,         \* bound: frames that come in
  MaxSends           \* bound: frames given to be sent

ASSUME EthernetAssumption ==
  /\ {E1000_RX_DESC, E1000_TX_DESC} \subseteq Nat \ {0, 1}
  /\ E1000_LINK_DEBOUNCE_SAMPLES \in Nat \ {0, 1}
  /\ {WorkSlots, MaxFrames, MaxSends} \subseteq Nat

VARIABLES
  rx,        \* the receive ring, the controller's head and tail, rx_next, rx_pending
  tx,        \* the transmit ring, its head and tail, tx_next, tx_clean, tx_inflight, tx_pending
  irq,       \* causes not yet read, work_pending, and how often the work is queued
  link,      \* link_state, link_candidate, link_samples; the last samples, and
             \* those that made it change
  shell,     \* where a command of the shell is inside e1000_tx
  frames     \* the frames that came to the ring, each good or not, and those taken
             \* off it, each handed to the stack or not; accepted and sent ones

ethernetVars == <<rx, tx, irq, link, shell, frames>>

NoFrame == 0
NotSending == [at |-> "idle", index |-> 0, frame |-> NoFrame]

e1000_hw_init ==
  /\ rx = [ring |-> [i \in 0..(E1000_RX_DESC - 1) |-> [frame |-> NoFrame, good |-> TRUE]],
           head |-> 0, tail |-> E1000_RX_DESC - 1, next |-> 0, pending |-> FALSE]
  /\ tx = [free |-> [i \in 0..(E1000_TX_DESC - 1) |-> TRUE],
           buffer |-> [i \in 0..(E1000_TX_DESC - 1) |-> NoFrame],
           head |-> 0, tail |-> 0, next |-> 0, clean |-> 0, inflight |-> 0, pending |-> FALSE]
  /\ irq = [cause |-> {}, work_pending |-> FALSE, queued |-> 0]
  /\ link = [state |-> 0, candidate |-> 0, samples |-> 0, seen |-> <<>>, because |-> <<>>]
  /\ shell = NotSending
  /\ frames = [came |-> <<>>, taken |-> <<>>, accepted |-> 0, wire |-> <<>>]

-----------------------------------------------------------------------------
(* The controller.                                                           *)

\* A frame goes to the descriptor at the head; if software owns that, it is missed.
\* One that has an error, or that there will be no memory for, is not good.
Receive(good) ==
  /\ Len(frames.came) < MaxFrames
  /\ IF rx.head = rx.tail THEN UNCHANGED <<rx, irq, frames>>
     ELSE /\ rx' = [rx EXCEPT !.ring = [@ EXCEPT ![rx.head] =
                                          [frame |-> Len(frames.came) + 1, good |-> good]],
                              !.head = (@ + 1) % E1000_RX_DESC]
          /\ irq' = [irq EXCEPT !.cause = @ \cup {"rx"}]
          /\ frames' = [frames EXCEPT !.came = Append(@, good)]
  /\ UNCHANGED <<tx, link, shell>>

\* The frame of the descriptor at the head goes out, and the descriptor is done.
Transmit ==
  /\ tx.head # tx.tail
  /\ tx' = [tx EXCEPT !.free[tx.head] = TRUE, !.head = (@ + 1) % E1000_TX_DESC]
  /\ frames' = [frames EXCEPT !.wire = Append(@, tx.buffer[tx.head])]
  /\ irq' = [irq EXCEPT !.cause = @ \cup {"tx"}]
  /\ UNCHANGED <<rx, link, shell>>

-----------------------------------------------------------------------------
(* The driver.                                                               *)

\* The work is scheduled unless it is pending, and lost if the work queue is full.
e1000_irq_handler ==
  /\ irq.cause # {}
  /\ rx' = [rx EXCEPT !.pending = @ \/ "rx" \in irq.cause]
  /\ tx' = [tx EXCEPT !.pending = @ \/ "tx" \in irq.cause]
  /\ irq' = [cause |-> {}, work_pending |-> TRUE,
             queued |-> IF irq.work_pending \/ irq.queued = WorkSlots
                        THEN irq.queued ELSE irq.queued + 1]
  /\ UNCHANGED <<link, shell, frames>>

CanSend(t) == t.inflight < E1000_TX_DESC - 1 /\ t.free[t.next]

\* e1000_tx of a frame that is not dropped.
Given(t, f) ==
  [t EXCEPT !.buffer[t.next] = f, !.free[t.next] = FALSE,
            !.next = (t.next + 1) % E1000_TX_DESC, !.tail = (t.next + 1) % E1000_TX_DESC,
            !.inflight = @ + 1]

\* The descriptors behind tx_clean that are done, up to the first that is not.
Done(t) ==
  CHOOSE n \in 0..t.inflight :
    /\ \A k \in 0..(n - 1) : t.free[(t.clean + k) % E1000_TX_DESC]
    /\ n < t.inflight => ~t.free[(t.clean + n) % E1000_TX_DESC]

Reclaimed(t, n) ==
  [t EXCEPT !.clean = (@ + n) % E1000_TX_DESC, !.inflight = @ - n, !.pending = FALSE]

\* The filled descriptors from rx_next on, up to the first empty one.
Filled(r) ==
  CHOOSE n \in 0..E1000_RX_DESC :
    /\ \A k \in 0..(n - 1) : r.ring[(r.next + k) % E1000_RX_DESC].frame # NoFrame
    /\ n < E1000_RX_DESC => r.ring[(r.next + n) % E1000_RX_DESC].frame = NoFrame

\* Mutant: the tail is moved to the next descriptor to read instead of the one before.
BugConsumed(r, n) ==
  LET next == (r.next + n) % E1000_RX_DESC
  IN [r EXCEPT !.ring = [i \in DOMAIN r.ring |->
                           IF (i - r.next) % E1000_RX_DESC < n
                           THEN [frame |-> NoFrame, good |-> TRUE] ELSE r.ring[i]],
               !.next = next, !.pending = FALSE,
               !.tail = IF n > 0 THEN next ELSE r.tail]

Consumed(r, n) ==
  LET next == (r.next + n) % E1000_RX_DESC
  IN [r EXCEPT !.ring = [i \in DOMAIN r.ring |->
                           IF (i - r.next) % E1000_RX_DESC < n
                           THEN [frame |-> NoFrame, good |-> TRUE] ELSE r.ring[i]],
               !.next = next, !.pending = FALSE,
               !.tail = IF n > 0 THEN (next + E1000_RX_DESC - 1) % E1000_RX_DESC ELSE r.tail]

\* What is taken off the ring: bad frames are counted, good ones handed to the stack.
Delivered(r, n) ==
  IF ~r.pending THEN <<>>
  ELSE [k \in 1..n |-> LET d == r.ring[(r.next + (k - 1)) % E1000_RX_DESC]
                       IN [frame |-> d.frame, handed |-> d.good]]

\* e1000_poll_rx: sent descriptors are taken back; if the interrupt told of frames, all
\* that have come are taken, and the stack may answer one of them.
Polled(t, n) ==
  /\ rx' = IF rx.pending THEN Consumed(rx, n) ELSE rx
  /\ \/ /\ tx' = t
        /\ frames' = [frames EXCEPT !.taken = @ \o Delivered(rx, n)]
     \/ /\ \E k \in DOMAIN Delivered(rx, n) : Delivered(rx, n)[k].handed
        /\ CanSend(t) /\ frames.accepted < MaxSends
        /\ tx' = Given(t, frames.accepted + 1)
        /\ frames' = [frames EXCEPT !.taken = @ \o Delivered(rx, n), !.accepted = @ + 1]
  /\ UNCHANGED shell

e1000_poll_rx == Polled(Reclaimed(tx, Done(tx)), Filled(rx))

LastSamples(seen, raw) ==
  LET all == Append(seen, raw)
  IN SubSeq(all, IF Len(all) > E1000_LINK_DEBOUNCE_SAMPLES THEN 2 ELSE 1, Len(all))

\* e1000_link_status: a change is believed after so many samples that agree.
e1000_link_status(raw) ==
  LET seen == LastSamples(link.seen, raw)
      agrees == link.samples + 1
  IN link' =
       IF raw = link.state THEN [link EXCEPT !.candidate = raw, !.samples = 0, !.seen = seen]
       ELSE IF raw # link.candidate THEN [link EXCEPT !.candidate = raw, !.samples = 1, !.seen = seen]
       ELSE IF agrees < E1000_LINK_DEBOUNCE_SAMPLES THEN [link EXCEPT !.samples = agrees, !.seen = seen]
       ELSE [link EXCEPT !.state = raw, !.samples = 0, !.seen = seen, !.because = seen]

\* net_poll at the tick: the driver's poll and a sample of the link.
net_poll ==
  /\ e1000_poll_rx
  /\ irq' = [irq EXCEPT !.work_pending = FALSE]
  /\ \E raw \in {0, 1} : e1000_link_status(raw)

e1000_work ==
  /\ irq.queued > 0
  /\ e1000_poll_rx
  /\ irq' = [irq EXCEPT !.work_pending = FALSE, !.queued = @ - 1]
  /\ UNCHANGED link

\* A system call sends a frame, or arp_poll or tcp_poll does at the tick: with no
\* descriptor for it, it is dropped.
e1000_tx ==
  /\ frames.accepted < MaxSends
  /\ CanSend(tx)
  /\ tx' = Given(tx, frames.accepted + 1)
  /\ frames' = [frames EXCEPT !.accepted = @ + 1]
  /\ UNCHANGED <<rx, irq, link, shell>>

EthernetNext ==
  \/ \E good \in BOOLEAN : Receive(good)
  \/ Transmit \/ e1000_irq_handler \/ net_poll \/ e1000_work \/ e1000_tx

EthernetSpec == e1000_hw_init /\ [][EthernetNext]_ethernetVars

-----------------------------------------------------------------------------
(* e1000_tx of a command of the shell, which the tick can interrupt.         *)

ShellChecks ==
  /\ shell.at = "idle" /\ frames.accepted < MaxSends /\ CanSend(tx)
  /\ shell' = [at |-> "copy", index |-> tx.next, frame |-> frames.accepted + 1]
  /\ frames' = [frames EXCEPT !.accepted = @ + 1]
  /\ UNCHANGED <<rx, tx, irq, link>>

ShellCopies ==
  /\ shell.at = "copy"
  /\ tx' = [tx EXCEPT !.buffer[shell.index] = shell.frame]
  /\ shell' = [shell EXCEPT !.at = "give"]
  /\ UNCHANGED <<rx, irq, link, frames>>

ShellGives ==
  /\ shell.at = "give"
  /\ tx' = [tx EXCEPT !.free[shell.index] = FALSE]
  /\ shell' = [shell EXCEPT !.at = "tail"]
  /\ UNCHANGED <<rx, irq, link, frames>>

ShellMovesTail ==
  LET next == (shell.index + 1) % E1000_TX_DESC
  IN /\ shell.at = "tail"
     /\ tx' = [tx EXCEPT !.next = next, !.tail = next, !.inflight = @ + 1]
     /\ shell' = NotSending
     /\ UNCHANGED <<rx, irq, link, frames>>

ShellNext == EthernetNext \/ ShellChecks \/ ShellCopies \/ ShellGives \/ ShellMovesTail

-----------------------------------------------------------------------------
(* What is promised.                                                         *)

Between(from, to, n) == [k \in 1..((to - from) % n) |-> (from + (k - 1)) % n]
InRing == Between(rx.next, rx.head, E1000_RX_DESC)
Waiting == Between(tx.head, tx.tail, E1000_TX_DESC)
Upto(n) == [k \in 1..n |-> k]

\* A descriptor is occupied until the hardware reports it done, as e1000.c:324 says: an
\* occupied one is waiting to be sent.
OccupiedUntilDone ==
  shell = NotSending =>
    \A i \in DOMAIN tx.free : tx.free[i] \/ \E k \in DOMAIN Waiting : Waiting[k] = i

\* Every frame that found a descriptor is taken off the ring, once and in order, and
\* handed to the stack if it is good; none is forgotten in the ring: what is there has
\* been told of or is about to be.  Every frame accepted to be sent goes out, once and
\* in order, and its descriptor is reclaimed when it has (e1000_irq_handler,
\* e1000_poll_rx, e1000_tx).  The link changes its state when, and only when, enough
\* samples in a row say so (e1000_link_status).
FramesExact ==
  /\ frames.taken \o [k \in DOMAIN InRing |-> [frame |-> rx.ring[InRing[k]].frame,
                                               handed |-> rx.ring[InRing[k]].good]]
       = [k \in DOMAIN frames.came |-> [frame |-> k, handed |-> frames.came[k]]]
  /\ InRing # <<>> => rx.pending \/ "rx" \in irq.cause
  /\ rx.head = rx.tail => Len(InRing) = E1000_RX_DESC - 1
  /\ frames.wire \o [k \in DOMAIN Waiting |-> tx.buffer[Waiting[k]]] = Upto(frames.accepted)
  /\ tx.inflight = Len(Between(tx.clean, tx.next, E1000_TX_DESC))
  /\ OccupiedUntilDone
  /\ link.because # <<>> => link.because = [k \in 1..E1000_LINK_DEBOUNCE_SAMPLES |-> link.state]
  /\ \A v \in {0, 1} : link.seen = [k \in 1..E1000_LINK_DEBOUNCE_SAMPLES |-> v] => link.state = v
=============================================================================
