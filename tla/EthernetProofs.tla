--------------------------- MODULE EthernetProofs ---------------------------
(***************************************************************************)
(* The e1000 driver loses, doubles and reorders no frame that found a      *)
(* descriptor, for every number of descriptors and of link samples, as     *)
(* long as it is called with interrupts off (EthernetSpec).                *)
(***************************************************************************)
EXTENDS Ethernet, CommonLemmas

(* Places of the rings, counted from the first descriptor in use. *)
RxPlaces == 0 .. E1000_RX_DESC - 1
TxPlaces == 0 .. E1000_TX_DESC - 1
RxAhead(a, i) == Ahead(a, i, E1000_RX_DESC)
TxAhead(a, i) == Ahead(a, i, E1000_TX_DESC)

Unused == [frame |-> NoFrame, good |-> TRUE]

\* From next to head the receive ring holds the frames that came after those taken, and
\* the rest of it is empty; the tail is the cell before next.
RxOK(r, came, taken) ==
  /\ DOMAIN r = {"ring", "head", "tail", "next", "pending"}
  /\ r.head \in RxPlaces /\ r.next \in RxPlaces
  /\ r.tail = After(r.next, E1000_RX_DESC - 1, E1000_RX_DESC)
  /\ r.pending \in BOOLEAN
  /\ DOMAIN r.ring = RxPlaces
  /\ came \in Seq(BOOLEAN) /\ taken \in Seq([frame : Nat, handed : BOOLEAN])
  /\ Len(came) = Len(taken) + RxAhead(r.next, r.head)
  /\ \A k \in 1 .. Len(taken) : taken[k] = [frame |-> k, handed |-> came[k]]
  /\ \A i \in RxPlaces :
       r.ring[i] = IF RxAhead(r.next, i) < RxAhead(r.next, r.head)
                   THEN [frame |-> (Len(taken) + RxAhead(r.next, i)) + 1,
                         good |-> came[(Len(taken) + RxAhead(r.next, i)) + 1]]
                   ELSE Unused

\* From clean to head the descriptors are sent and not yet taken back, from head to tail
\* they hold, in order, the frames that wait.
TxOK(t, accepted, wire) ==
  /\ DOMAIN t = {"free", "buffer", "head", "tail", "next", "clean", "inflight", "pending"}
  /\ t.head \in TxPlaces /\ t.next \in TxPlaces /\ t.clean \in TxPlaces /\ t.tail = t.next
  /\ t.inflight = TxAhead(t.clean, t.next)
  /\ t.inflight = TxAhead(t.clean, t.head) + TxAhead(t.head, t.next)
  /\ DOMAIN t.free = TxPlaces /\ DOMAIN t.buffer = TxPlaces
  /\ \A i \in TxPlaces : t.free[i] <=> ~ TxAhead(t.head, i) < TxAhead(t.head, t.next)
  /\ accepted \in Nat /\ wire \in Seq(Nat) /\ accepted = Len(wire) + TxAhead(t.head, t.next)
  /\ \A k \in 1 .. Len(wire) : wire[k] = k
  /\ \A i \in TxPlaces : TxAhead(t.head, i) < TxAhead(t.head, t.next) =>
                           t.buffer[i] = (Len(wire) + TxAhead(t.head, i)) + 1

\* The candidate is the last sample.  While it differs from the state, samples is the
\* length of the run of it that the samples end in.
LinkOK(l) ==
  /\ DOMAIN l = {"state", "candidate", "samples", "seen", "because"}
  /\ l.state \in {0, 1} /\ l.candidate \in {0, 1}
  /\ l.samples \in 0 .. E1000_LINK_DEBOUNCE_SAMPLES - 1
  /\ l.seen \in Seq({0, 1}) /\ Len(l.seen) <= E1000_LINK_DEBOUNCE_SAMPLES
  /\ l.candidate = l.state <=> l.samples = 0
  /\ Len(l.seen) > 0 => l.seen[Len(l.seen)] = l.candidate
  /\ l.samples <= Len(l.seen)
  /\ \A k \in 1 .. Len(l.seen) : k > Len(l.seen) - l.samples => l.seen[k] = l.candidate
  /\ l.samples > 0 /\ l.samples < Len(l.seen) => l.seen[Len(l.seen) - l.samples] # l.candidate
  /\ l.because # <<>> => l.because = [k \in 1 .. E1000_LINK_DEBOUNCE_SAMPLES |-> l.state]
  /\ \A v \in {0, 1} :
       l.seen = [k \in 1 .. E1000_LINK_DEBOUNCE_SAMPLES |-> v] => l.state = v

\* What is in the ring has been told of, or is about to be.
Told(r, cause) == r.next # r.head => r.pending \/ "rx" \in cause

EthernetInv ==
  /\ DOMAIN frames = {"came", "taken", "accepted", "wire"}
  /\ DOMAIN irq = {"cause", "work_pending", "queued"}
  /\ shell = NotSending
  /\ RxOK(rx, frames.came, frames.taken) /\ Told(rx, irq.cause)
  /\ TxOK(tx, frames.accepted, frames.wire)
  /\ LinkOK(link)

LEMMA Sizes ==
    /\ E1000_RX_DESC \in Nat \ {0, 1} /\ E1000_TX_DESC \in Nat \ {0, 1}
    /\ E1000_LINK_DEBOUNCE_SAMPLES \in Nat \ {0, 1}
  BY EthernetAssumption

-----------------------------------------------------------------------------
(* Receiving. *)

\* The controller fills the descriptor at the head.
LEMMA Received ==
    ASSUME NEW r, NEW came, NEW taken, RxOK(r, came, taken), r.head # r.tail, NEW good \in BOOLEAN,
           NEW q, q = [r EXCEPT !.ring = [@ EXCEPT ![r.head] = [frame |-> Len(came) + 1, good |-> good]],
                                !.head = (@ + 1) % E1000_RX_DESC]
    PROVE  RxOK(q, Append(came, good), taken)
<1> DEFINE N == E1000_RX_DESC
           m == RxAhead(r.next, r.head)
           c == Append(came, good)
<1>1. /\ r.head \in RxPlaces /\ r.next \in RxPlaces /\ r.tail = After(r.next, N - 1, N)
      /\ DOMAIN r.ring = RxPlaces /\ N \in Nat \ {0, 1}
      /\ came \in Seq(BOOLEAN) /\ Len(came) = Len(taken) + m
      /\ taken \in Seq([frame : Nat, handed : BOOLEAN])
  BY Sizes DEF RxOK
<1>2. (r.head + 1) % N = After(r.head, 1, N)
  <2>1. 1 \in 0 .. N /\ N \in Nat \ {0}
    BY <1>1
  <2>2. QED
    BY Zenon, <1>1, <2>1, RingSteps DEF RxPlaces
<1>3. /\ q.ring = [r.ring EXCEPT ![r.head] = [frame |-> Len(came) + 1, good |-> good]]
      /\ q.head = After(r.head, 1, N) /\ q.next = r.next /\ q.tail = r.tail /\ q.pending = r.pending
      /\ DOMAIN q = {"ring", "head", "tail", "next", "pending"}
  BY <1>2 DEF RxOK
<1>4. m \in 0 .. N - 1 /\ m < N - 1
  <2>1. m \in 0 .. N - 1 /\ After(r.next, m, N) = r.head
    BY <1>1, RingInverse DEF RxPlaces, RxAhead
  <2>2. m # N - 1
    BY <2>1, <1>1
  <2>3. QED
    BY <2>1, <2>2, <1>1
<1>5. /\ q.head \in RxPlaces /\ RxAhead(q.next, q.head) = m + 1
      /\ \A i \in RxPlaces : RxAhead(q.next, i) < m + 1 <=> RxAhead(q.next, i) < m \/ i = r.head
      /\ \A i \in RxPlaces : RxAhead(q.next, i) = m <=> i = r.head
  BY <1>1, <1>3, <1>4, RingPush DEF RxPlaces, RxAhead
<1> HIDE DEF m
<1>6. /\ c \in Seq(BOOLEAN) /\ Len(c) = Len(taken) + (m + 1) /\ c[(Len(taken) + m) + 1] = good
      /\ \A k \in 1 .. Len(came) : c[k] = came[k]
  BY <1>1, <1>4, AppendProperties
<1> HIDE DEF c
<1>7. \A k \in 1 .. Len(taken) : taken[k] = [frame |-> k, handed |-> c[k]]
  <2>1. \A k \in 1 .. Len(taken) : k \in 1 .. Len(came)
    BY <1>1, <1>4
  <2>2. QED
    BY <2>1, <1>6 DEF RxOK
<1>8. ASSUME NEW i \in RxPlaces
      PROVE  q.ring[i] = IF RxAhead(q.next, i) < m + 1
                         THEN [frame |-> (Len(taken) + RxAhead(q.next, i)) + 1,
                               good |-> c[(Len(taken) + RxAhead(q.next, i)) + 1]]
                         ELSE Unused
  <2> DEFINE o == RxAhead(r.next, i)
  <2>1. r.ring[i] = IF o < m THEN [frame |-> (Len(taken) + o) + 1, good |-> came[(Len(taken) + o) + 1]]
                    ELSE Unused
    BY DEF RxOK, m
  <2>2. o \in Nat /\ (o < m => (Len(taken) + o) + 1 \in 1 .. Len(came))
    <3>1. o \in 0 .. N - 1
      BY <1>1, RingInverse DEF RxPlaces, RxAhead
    <3>2. QED
      BY <3>1, <1>1, <1>4
  <2>3. o < m + 1 <=> o < m \/ i = r.head
    BY <1>3, <1>5
  <2>4. i = r.head <=> o = m
    BY <1>3, <1>5
  <2> HIDE DEF o
  <2>5. CASE i = r.head
    <3>1. q.ring[i] = [frame |-> Len(came) + 1, good |-> good] /\ o = m /\ Len(came) + 1 = (Len(taken) + m) + 1
      BY <2>4, <2>5, <1>1, <1>3
    <3>2. QED
      BY <3>1, <2>3, <2>5, <1>3, <1>6 DEF o
  <2>6. CASE i # r.head
    <3>1. q.ring[i] = r.ring[i]
      BY <2>6, <1>1, <1>3
    <3>2. o < m => c[(Len(taken) + o) + 1] = came[(Len(taken) + o) + 1]
      BY <2>2, <1>6
    <3>3. QED
      BY <3>1, <3>2, <2>1, <2>3, <2>6, <1>3 DEF o
  <2>7. QED
    BY <2>5, <2>6
<1>9. DOMAIN q.ring = RxPlaces /\ q.pending \in BOOLEAN
  BY <1>1, <1>3 DEF RxOK
<1>10. /\ q.next \in RxPlaces /\ q.tail = After(q.next, N - 1, N)
       /\ Len(c) = Len(taken) + RxAhead(q.next, q.head)
  BY <1>1, <1>3, <1>5, <1>6, Zenon
<1>11. \A i \in RxPlaces :
         q.ring[i] = IF RxAhead(q.next, i) < RxAhead(q.next, q.head)
                     THEN [frame |-> (Len(taken) + RxAhead(q.next, i)) + 1,
                           good |-> c[(Len(taken) + RxAhead(q.next, i)) + 1]]
                     ELSE Unused
  BY <1>5, <1>8, Zenon
<1>12. RxOK(q, c, taken)
  BY <1>1, <1>3, <1>5, <1>6, <1>7, <1>9, <1>10, <1>11, Zenon DEF RxOK
<1>13. QED
  BY <1>12 DEF c

\* The loop of e1000_poll_rx ends at the controller's head.
LEMMA FilledRight ==
    ASSUME NEW r, NEW came, NEW taken, RxOK(r, came, taken)
    PROVE  Filled(r) = RxAhead(r.next, r.head)
<1> DEFINE N == E1000_RX_DESC
           m == RxAhead(r.next, r.head)
           at(k) == (r.next + k) % N
           P(n) == /\ \A k \in 0 .. n - 1 : r.ring[at(k)].frame # NoFrame
                   /\ n < N => r.ring[at(n)].frame = NoFrame
<1>1. r.head \in RxPlaces /\ r.next \in RxPlaces /\ N \in Nat \ {0, 1} /\ Len(taken) \in Nat
  BY Sizes DEF RxOK
<1>2. m \in 0 .. N - 1
  BY Zenon, <1>1, RingInverse DEF RxPlaces, RxAhead
<1>3. \A k \in 0 .. N - 1 : at(k) \in RxPlaces /\ RxAhead(r.next, at(k)) = k
  <2>1. N \in Nat \ {0} /\ r.next \in 0 .. N - 1
    BY <1>1 DEF RxPlaces
  <2>2. QED
    BY <2>1, RingCell, Zenon DEF RxPlaces, RxAhead
<1> HIDE DEF at
<1>4. \A k \in 0 .. N - 1 : r.ring[at(k)].frame = NoFrame <=> ~ k < m
  <2>1. ASSUME NEW k \in 0 .. N - 1
        PROVE  r.ring[at(k)].frame = NoFrame <=> ~ k < m
    <3>1. r.ring[at(k)] = IF k < m THEN [frame |-> (Len(taken) + k) + 1,
                                         good |-> came[(Len(taken) + k) + 1]] ELSE Unused
      BY <1>3, Zenon DEF RxOK
    <3>2. (Len(taken) + k) + 1 # 0
      BY <1>1
    <3>3. QED
      BY <3>1, <3>2 DEF Unused, NoFrame
  <2>2. QED
    BY <2>1
<1> HIDE DEF m
<1>5. P(m) /\ m \in 0 .. N
  BY <1>1, <1>2, <1>4
<1>6. \A n \in 0 .. N : P(n) => n = m
  BY <1>1, <1>2, <1>4
<1>7. Filled(r) = CHOOSE n \in 0 .. N : P(n)
  BY DEF Filled, at
<1> HIDE DEF P
<1>8. QED
  BY <1>5, <1>6, <1>7 DEF m

\* All of it is taken, in order, and the ring is empty and the controller's again.
LEMMA ConsumedRight ==
    ASSUME NEW r, NEW came, NEW taken, RxOK(r, came, taken), r.pending
    PROVE  /\ RxOK(Consumed(r, Filled(r)), came, taken \o Delivered(r, Filled(r)))
           /\ Consumed(r, Filled(r)).next = Consumed(r, Filled(r)).head
<1> DEFINE N == E1000_RX_DESC
           m == RxAhead(r.next, r.head)
           q == Consumed(r, m)
           d == Delivered(r, m)
           all == taken \o d
<1>1. /\ r.head \in RxPlaces /\ r.next \in RxPlaces /\ N \in Nat \ {0, 1} /\ Len(taken) \in Nat
      /\ came \in Seq(BOOLEAN) /\ taken \in Seq([frame : Nat, handed : BOOLEAN])
      /\ r.tail = After(r.next, N - 1, N) /\ DOMAIN r.ring = RxPlaces
      /\ Len(came) = Len(taken) + m
  BY Sizes DEF RxOK
<1>2. m \in 0 .. N - 1 /\ After(r.next, m, N) = r.head /\ N \in Nat \ {0} /\ r.next \in 0 .. N - 1
  BY Zenon, <1>1, RingInverse DEF RxPlaces, RxAhead
<1>3. /\ (r.next + m) % N = r.head
      /\ (r.head + (N - 1)) % N = After(r.head, N - 1, N)
      /\ \A i \in RxPlaces : (i - r.next) % N = RxAhead(r.next, i)
      /\ \A k \in 0 .. N - 1 : (r.next + k) % N = After(r.next, k, N)
  <2>1. m \in 0 .. N /\ N - 1 \in 0 .. N /\ r.head \in 0 .. N - 1 /\ \A k \in 0 .. N - 1 : k \in 0 .. N
    BY <1>1, <1>2 DEF RxPlaces
  <2>2. (r.next + m) % N = r.head
    BY <1>2, <2>1, RingSteps, Zenon
  <2>3. (r.head + (N - 1)) % N = After(r.head, N - 1, N)
    BY <1>2, <2>1, RingSteps, Zenon
  <2>4. \A i \in RxPlaces : (i - r.next) % N = RxAhead(r.next, i)
    BY <1>2, RingSteps, Zenon DEF RxPlaces, RxAhead
  <2>5. \A k \in 0 .. N - 1 : (r.next + k) % N = After(r.next, k, N)
    BY <1>2, <2>1, RingSteps, Zenon
  <2>6. QED
    BY <2>2, <2>3, <2>4, <2>5
<1>4. /\ DOMAIN q = {"ring", "head", "tail", "next", "pending"}
      /\ q.next = r.head /\ q.head = r.head /\ q.pending = FALSE
      /\ q.ring = [i \in RxPlaces |-> IF RxAhead(r.next, i) < m THEN Unused ELSE r.ring[i]]
      /\ q.tail = IF m > 0 THEN After(r.head, N - 1, N) ELSE r.tail
  <2>1. DOMAIN r = {"ring", "head", "tail", "next", "pending"}
    BY DEF RxOK
  <2>2. q = [r EXCEPT !.ring = [i \in RxPlaces |-> IF (i - r.next) % N < m THEN Unused ELSE r.ring[i]],
                      !.next = r.head, !.pending = FALSE,
                      !.tail = IF m > 0 THEN After(r.head, N - 1, N) ELSE r.tail]
    BY <1>1, <1>3, Zenon DEF Consumed, Unused
  <2>3. /\ DOMAIN q = {"ring", "head", "tail", "next", "pending"}
        /\ q.next = r.head /\ q.head = r.head /\ q.pending = FALSE
        /\ q.ring = [i \in RxPlaces |-> IF (i - r.next) % N < m THEN Unused ELSE r.ring[i]]
        /\ q.tail = IF m > 0 THEN After(r.head, N - 1, N) ELSE r.tail
    <3> HIDE DEF q, m
    <3>1. QED
      BY <2>1, <2>2
  <2>4. QED
    BY <2>3, <1>3
<1>5. /\ d \in Seq([frame : Nat, handed : BOOLEAN]) /\ Len(d) = m
      /\ \A k \in 1 .. m : d[k] = [frame |-> Len(taken) + k, handed |-> came[Len(taken) + k]]
  <2>1. d = [k \in 1 .. m |-> [frame |-> r.ring[(r.next + (k - 1)) % N].frame,
                               handed |-> r.ring[(r.next + (k - 1)) % N].good]]
    BY DEF Delivered
  <2>2. ASSUME NEW k \in 1 .. m
        PROVE  /\ r.ring[(r.next + (k - 1)) % N] = [frame |-> Len(taken) + k, good |-> came[Len(taken) + k]]
               /\ Len(taken) + k \in 1 .. Len(came)
    <3>1. k - 1 \in 0 .. N - 1 /\ k - 1 < m /\ (Len(taken) + (k - 1)) + 1 = Len(taken) + k
      BY <1>1, <1>2
    <3>2. /\ (r.next + (k - 1)) % N \in RxPlaces
          /\ RxAhead(r.next, (r.next + (k - 1)) % N) = k - 1
      BY <3>1, <1>2, RingCell, Zenon DEF RxPlaces, RxAhead
    <3>3. r.ring[(r.next + (k - 1)) % N] =
            [frame |-> (Len(taken) + (k - 1)) + 1, good |-> came[(Len(taken) + (k - 1)) + 1]]
      BY <3>1, <3>2, Zenon DEF RxOK
    <3>4. Len(taken) + k \in 1 .. Len(came)
      BY <1>1, <1>2
    <3>5. QED
      BY <3>1, <3>3, <3>4
  <2>9. ASSUME NEW k \in 1 .. m
        PROVE  [frame |-> r.ring[(r.next + (k - 1)) % N].frame,
                handed |-> r.ring[(r.next + (k - 1)) % N].good]
                 = [frame |-> Len(taken) + k, handed |-> came[Len(taken) + k]]
    <3> DEFINE x == r.ring[(r.next + (k - 1)) % N]
    <3>1. x = [frame |-> Len(taken) + k, good |-> came[Len(taken) + k]]
      BY <2>2, Zenon
    <3> HIDE DEF x
    <3>2. [frame |-> x.frame, handed |-> x.good] = [frame |-> Len(taken) + k, handed |-> came[Len(taken) + k]]
      BY <3>1
    <3>3. QED
      BY <3>2, Zenon DEF x
  <2> HIDE DEF d, m
  <2>3. d = [k \in 1 .. m |-> [frame |-> Len(taken) + k, handed |-> came[Len(taken) + k]]]
    BY <2>1, <2>9, Zenon
  <2>4. ASSUME NEW k \in 1 .. m PROVE Len(taken) + k \in Nat /\ came[Len(taken) + k] \in BOOLEAN
    <3>1. Len(taken) + k \in 1 .. Len(came)
      BY Zenon, <2>2
    <3>2. QED
      BY <3>1, <1>1
  <2>5. d \in [1 .. m -> [frame : Nat, handed : BOOLEAN]]
    BY <2>3, <2>4
  <2>6. m \in Nat
    BY <1>2
  <2>7. d \in Seq([frame : Nat, handed : BOOLEAN]) /\ Len(d) = m
    BY <2>5, <2>6, FunctionIsSeq, Zenon
  <2>8. QED
    BY Zenon, <2>3, <2>7
<1> HIDE DEF d, q
<1>6. /\ all \in Seq([frame : Nat, handed : BOOLEAN]) /\ Len(all) = Len(came)
      /\ \A k \in 1 .. Len(came) : all[k] = [frame |-> k, handed |-> came[k]]
  <2>1. /\ all \in Seq([frame : Nat, handed : BOOLEAN]) /\ Len(all) = Len(taken) + m
        /\ \A k \in 1 .. Len(taken) + m :
             all[k] = IF k <= Len(taken) THEN taken[k] ELSE d[k - Len(taken)]
    BY <1>1, <1>5, ConcatProperties
  <2>2. ASSUME NEW k \in 1 .. Len(came)
        PROVE  all[k] = [frame |-> k, handed |-> came[k]]
    <3>1. CASE k <= Len(taken)
      <4>1. k \in 1 .. Len(taken)
        BY <3>1, <1>1
      <4>2. QED
        BY <4>1, <3>1, <2>1, <1>1 DEF RxOK
    <3>2. CASE ~ k <= Len(taken)
      <4>1. k - Len(taken) \in 1 .. m /\ Len(taken) + (k - Len(taken)) = k
        BY <3>2, <1>1, <1>2
      <4>2. QED
        BY <4>1, <3>2, <2>1, <1>1, <1>5
    <3>3. QED
      BY Zenon, <3>1, <3>2
  <2>3. QED
    BY <2>1, <2>2, <1>1
<1> HIDE DEF all
<1>7. RxAhead(q.next, q.head) = 0 /\ \A i \in RxPlaces : ~ RxAhead(q.next, i) < 0
  <2>1. r.head \in 0 .. N - 1 /\ \A x \in 0 .. N - 1 : ~ x < 0
    BY <1>1 DEF RxPlaces
  <2>2. Ahead(r.head, r.head, N) = 0 /\ \A i \in 0 .. N - 1 : Ahead(r.head, i, N) \in 0 .. N - 1
    BY <2>1, <1>2, RingInverse, Zenon
  <2>3. QED
    BY <2>1, <2>2, <1>4, Zenon DEF RxPlaces, RxAhead
<1>8. \A i \in RxPlaces : q.ring[i] = Unused
  BY ZenonT(60), <1>4 DEF RxOK
<1>9. q.tail = After(q.next, N - 1, N)
  <2>1. CASE m > 0
    BY <2>1, <1>4
  <2>2. CASE ~ m > 0
    <3>1. m = 0
      BY <2>2, <1>2
    <3>2. r.head = r.next
      BY Zenon, <3>1, <1>2, RingInverse
    <3>3. QED
      BY <2>2, <3>2, <1>1, <1>4
  <2>3. QED
    BY <2>1, <2>2
<1>10. /\ q.head \in RxPlaces /\ q.next \in RxPlaces /\ q.pending \in BOOLEAN /\ DOMAIN q.ring = RxPlaces
       /\ Len(came) = Len(all) + RxAhead(q.next, q.head)
       /\ \A k \in 1 .. Len(all) : all[k] = [frame |-> k, handed |-> came[k]]
  <2>1. q.head \in RxPlaces /\ q.next \in RxPlaces /\ q.pending \in BOOLEAN /\ DOMAIN q.ring = RxPlaces
    BY Zenon, <1>1, <1>4
  <2>2. Len(came) = Len(all) + RxAhead(q.next, q.head)
    BY <1>1, <1>6, <1>7
  <2>3. QED
    BY <2>1, <2>2, <1>6, Zenon
<1>11. \A i \in RxPlaces :
         q.ring[i] = IF RxAhead(q.next, i) < RxAhead(q.next, q.head)
                     THEN [frame |-> (Len(all) + RxAhead(q.next, i)) + 1,
                           good |-> came[(Len(all) + RxAhead(q.next, i)) + 1]]
                     ELSE Unused
  BY <1>7, <1>8, Zenon
<1>12. RxOK(q, came, all)
  BY <1>1, <1>4, <1>6, <1>9, <1>10, <1>11, Zenon DEF RxOK
<1>13. QED
  BY <1>4, <1>12, FilledRight DEF q, all, d

-----------------------------------------------------------------------------
(* Sending. *)

LEMMA TxNumbers ==
    ASSUME NEW t, NEW accepted, NEW wire, TxOK(t, accepted, wire)
    PROVE  /\ E1000_TX_DESC \in Nat \ {0, 1} /\ E1000_TX_DESC \in Nat \ {0}
           /\ t.head \in 0 .. E1000_TX_DESC - 1 /\ t.next \in 0 .. E1000_TX_DESC - 1
           /\ t.clean \in 0 .. E1000_TX_DESC - 1
           /\ TxAhead(t.head, t.next) \in 0 .. E1000_TX_DESC - 1
           /\ TxAhead(t.clean, t.head) \in 0 .. E1000_TX_DESC - 1
           /\ TxAhead(t.clean, t.next) \in 0 .. E1000_TX_DESC - 1
           /\ TxAhead(t.clean, t.next) = TxAhead(t.clean, t.head) + TxAhead(t.head, t.next)
           /\ t.inflight = TxAhead(t.clean, t.next)
           /\ \A i \in TxPlaces : TxAhead(t.head, i) \in 0 .. E1000_TX_DESC - 1
           /\ Len(wire) \in Nat
<1>1. /\ E1000_TX_DESC \in Nat \ {0, 1} /\ E1000_TX_DESC \in Nat \ {0}
      /\ t.head \in 0 .. E1000_TX_DESC - 1 /\ t.next \in 0 .. E1000_TX_DESC - 1
      /\ t.clean \in 0 .. E1000_TX_DESC - 1
      /\ t.inflight = TxAhead(t.clean, t.next)
      /\ TxAhead(t.clean, t.next) = TxAhead(t.clean, t.head) + TxAhead(t.head, t.next)
  BY Sizes DEF TxOK, TxPlaces
<1>2. Len(wire) \in Nat
  BY DEF TxOK
<1>3. QED
  BY <1>1, <1>2, RingInverse, Zenon DEF TxAhead, TxPlaces

\* The controller sends the frame at its head.
LEMMA Sent ==
    ASSUME NEW t, NEW accepted, NEW wire, TxOK(t, accepted, wire), t.head # t.tail,
           NEW q, q = [t EXCEPT !.free[t.head] = TRUE, !.head = (@ + 1) % E1000_TX_DESC]
    PROVE  TxOK(q, accepted, Append(wire, t.buffer[t.head]))
<1> DEFINE M == E1000_TX_DESC
           h == After(t.head, 1, M)
           w == TxAhead(t.head, t.next)
           c == TxAhead(t.clean, t.head)
           wire1 == Append(wire, t.buffer[t.head])
<1>1. /\ M \in Nat \ {0, 1} /\ M \in Nat \ {0} /\ Len(wire) \in Nat
      /\ t.head \in 0 .. M - 1 /\ t.next \in 0 .. M - 1 /\ t.clean \in 0 .. M - 1
      /\ w \in 0 .. M - 1 /\ c \in 0 .. M - 1 /\ c + w \in 0 .. M - 1
      /\ TxAhead(t.clean, t.next) = c + w /\ t.inflight = c + w /\ t.head # t.next
      /\ \A i \in TxPlaces : TxAhead(t.head, i) \in 0 .. M - 1
  <2>1. t.head # t.next
    BY DEF TxOK
  <2>2. QED
    BY <2>1, TxNumbers, Zenon
<1>2. /\ h \in 0 .. M - 1 /\ TxAhead(h, t.next) = w - 1 /\ w > 0 /\ TxAhead(h, t.head) = M - 1
      /\ \A i \in TxPlaces : i # t.head => TxAhead(h, i) = TxAhead(t.head, i) - 1
  BY <1>1, RingPop, Zenon DEF TxAhead, TxPlaces
<1>3. TxAhead(t.clean, h) = c + 1
  <2>1. c < M - 1
    BY <1>1, <1>2
  <2>2. QED
    BY <2>1, <1>1, RingPush, Zenon DEF TxAhead
<1>4. TxAhead(t.head, t.head) = 0
  BY Zenon, <1>1, RingInverse DEF TxAhead
<1>5. /\ DOMAIN q = {"free", "buffer", "head", "tail", "next", "clean", "inflight", "pending"}
      /\ q.free = [t.free EXCEPT ![t.head] = TRUE] /\ q.buffer = t.buffer /\ q.head = h
      /\ q.tail = t.tail /\ q.next = t.next /\ q.clean = t.clean /\ q.inflight = t.inflight
  <2>1. 1 \in 0 .. M
    BY <1>1
  <2>2. (t.head + 1) % M = h
    BY <1>1, <2>1, RingSteps, Zenon
  <2>3. DOMAIN t = {"free", "buffer", "head", "tail", "next", "clean", "inflight", "pending"}
    BY DEF TxOK
  <2>4. q = [t EXCEPT !.free[t.head] = TRUE, !.head = h]
    BY <2>2, Zenon
  <2> HIDE DEF h
  <2>5. QED
    BY Zenon, <2>3, <2>4
<1> HIDE DEF h, w, c
<1>6. /\ DOMAIN t.free = TxPlaces /\ DOMAIN t.buffer = TxPlaces /\ wire \in Seq(Nat)
      /\ \A k \in 1 .. Len(wire) : wire[k] = k
      /\ \A i \in TxPlaces : t.free[i] <=> ~ TxAhead(t.head, i) < w
      /\ \A i \in TxPlaces : TxAhead(t.head, i) < w => t.buffer[i] = (Len(wire) + TxAhead(t.head, i)) + 1
      /\ accepted \in Nat /\ accepted = Len(wire) + w /\ t.tail = t.next
  BY DEF TxOK, w
<1>7. t.buffer[t.head] = Len(wire) + 1
  <2>1. t.head \in TxPlaces /\ TxAhead(t.head, t.head) < w
    BY <1>1, <1>2, <1>4 DEF TxPlaces
  <2>2. t.buffer[t.head] = (Len(wire) + TxAhead(t.head, t.head)) + 1
    BY <2>1, <1>6, Zenon
  <2>3. QED
    BY <2>2, <1>1, <1>4
<1>8. /\ wire1 \in Seq(Nat) /\ Len(wire1) = Len(wire) + 1
      /\ \A k \in 1 .. Len(wire1) : wire1[k] = k
  <2>1. wire1 = Append(wire, Len(wire) + 1)
    BY <1>7
  <2> HIDE DEF wire1
  <2>2. /\ wire1 \in Seq(Nat) /\ Len(wire1) = Len(wire) + 1 /\ wire1[Len(wire) + 1] = Len(wire) + 1
        /\ \A k \in 1 .. Len(wire) : wire1[k] = wire[k]
    BY <2>1, <1>1, <1>6, AppendProperties
  <2>3. \A k \in 1 .. Len(wire1) : k \in 1 .. Len(wire) \/ k = Len(wire) + 1
    BY <2>2, <1>1
  <2>4. QED
    BY <2>2, <2>3, <1>6
<1> HIDE DEF wire1
<1>9. \A i \in TxPlaces : q.free[i] <=> ~ TxAhead(h, i) < w - 1
  <2>1. ASSUME NEW i \in TxPlaces PROVE q.free[i] <=> ~ TxAhead(h, i) < w - 1
    <3>1. CASE i = t.head
      BY <3>1, <1>1, <1>2, <1>5, <1>6
    <3>2. CASE i # t.head
      <4>1. q.free[i] = t.free[i] /\ TxAhead(h, i) = TxAhead(t.head, i) - 1
        BY <3>2, <1>2, <1>5, <1>6
      <4>2. TxAhead(t.head, i) \in 0 .. M - 1
        BY <1>1, Zenon
      <4>3. TxAhead(h, i) < w - 1 <=> TxAhead(t.head, i) < w
        BY <4>1, <4>2, <1>1
      <4>4. QED
        BY <4>1, <4>3, <1>6, Zenon
    <3>3. QED
      BY <3>1, <3>2
  <2>2. QED
    BY <2>1
<1>10. ASSUME NEW i \in TxPlaces, TxAhead(h, i) < w - 1
       PROVE  q.buffer[i] = (Len(wire1) + TxAhead(h, i)) + 1
  <2>1. i # t.head
    BY <1>1, <1>2, <1>10
  <2>2. TxAhead(h, i) = TxAhead(t.head, i) - 1 /\ TxAhead(t.head, i) \in 0 .. M - 1
    BY <2>1, <1>1, <1>2, Zenon
  <2>3. TxAhead(t.head, i) < w
    BY <2>2, <1>1, <1>10
  <2>4. t.buffer[i] = (Len(wire) + TxAhead(t.head, i)) + 1
    BY <2>3, <1>6, Zenon
  <2>5. (Len(wire) + TxAhead(t.head, i)) + 1 = (Len(wire1) + TxAhead(h, i)) + 1
    BY <2>2, <1>1, <1>8
  <2>6. QED
    BY <2>4, <2>5, <1>5, Zenon
<1>11. /\ t.inflight = (c + 1) + (w - 1) /\ accepted = Len(wire1) + (w - 1)
       /\ DOMAIN q.free = TxPlaces /\ DOMAIN q.buffer = TxPlaces
  BY SMTT(30), <1>1, <1>5, <1>6, <1>8
<1>12. /\ q.head \in TxPlaces /\ q.next \in TxPlaces /\ q.clean \in TxPlaces /\ q.tail = q.next
       /\ q.inflight = TxAhead(q.clean, q.next) /\ TxAhead(q.head, q.next) = w - 1
       /\ q.inflight = TxAhead(q.clean, q.head) + TxAhead(q.head, q.next)
       /\ accepted = Len(wire1) + TxAhead(q.head, q.next)
  BY <1>1, <1>2, <1>3, <1>5, <1>6, <1>11, Zenon DEF TxPlaces
<1>13. /\ \A i \in TxPlaces : q.free[i] <=> ~ TxAhead(q.head, i) < TxAhead(q.head, q.next)
       /\ \A i \in TxPlaces : TxAhead(q.head, i) < TxAhead(q.head, q.next) =>
                                q.buffer[i] = (Len(wire1) + TxAhead(q.head, i)) + 1
  BY <1>5, <1>9, <1>10, <1>12, ZenonT(60)
<1>14. TxOK(q, accepted, wire1)
  BY <1>5, <1>6, <1>8, <1>11, <1>12, <1>13, Zenon DEF TxOK
<1>15. QED
  BY <1>14 DEF wire1

\* The driver gives the controller a frame, if it has a descriptor for it.
LEMMA GivenRight ==
    ASSUME NEW t, NEW accepted, NEW wire, TxOK(t, accepted, wire), CanSend(t)
    PROVE  TxOK(Given(t, accepted + 1), accepted + 1, wire)
<1> DEFINE M == E1000_TX_DESC
           n == After(t.next, 1, M)
           w == TxAhead(t.head, t.next)
           c == TxAhead(t.clean, t.head)
           q == Given(t, accepted + 1)
<1>1. /\ M \in Nat \ {0, 1} /\ M \in Nat \ {0} /\ Len(wire) \in Nat
      /\ t.head \in 0 .. M - 1 /\ t.next \in 0 .. M - 1 /\ t.clean \in 0 .. M - 1
      /\ w \in 0 .. M - 1 /\ c \in 0 .. M - 1 /\ c + w \in 0 .. M - 1
      /\ TxAhead(t.clean, t.next) = c + w /\ t.inflight = c + w
      /\ \A i \in TxPlaces : TxAhead(t.head, i) \in 0 .. M - 1
  BY TxNumbers, Zenon
<1>2. c + w < M - 1 /\ w < M - 1
  BY <1>1 DEF CanSend
<1>3. /\ n \in 0 .. M - 1 /\ TxAhead(t.head, n) = w + 1
      /\ \A i \in TxPlaces : TxAhead(t.head, i) < w + 1 <=> TxAhead(t.head, i) < w \/ i = t.next
      /\ \A i \in TxPlaces : TxAhead(t.head, i) = w <=> i = t.next
  <2>1. /\ M \in Nat \ {0, 1} /\ t.head \in 0 .. M - 1 /\ t.next \in 0 .. M - 1
        /\ Ahead(t.head, t.next, M) < M - 1
    BY <1>1, <1>2 DEF TxAhead
  <2>2. QED
    BY <2>1, RingPush DEF TxAhead, TxPlaces
<1>4. TxAhead(t.clean, n) = (c + w) + 1
  <2>1. TxAhead(t.clean, t.next) < M - 1
    BY <1>1, <1>2
  <2>2. TxAhead(t.clean, n) = TxAhead(t.clean, t.next) + 1
    BY <1>1, <2>1, RingPush, Zenon DEF TxAhead
  <2>3. QED
    BY <2>2, <1>1, Zenon
<1>5. /\ DOMAIN q = {"free", "buffer", "head", "tail", "next", "clean", "inflight", "pending"}
      /\ q.free = [t.free EXCEPT ![t.next] = FALSE]
      /\ q.buffer = [t.buffer EXCEPT ![t.next] = accepted + 1] /\ q.head = t.head
      /\ q.tail = n /\ q.next = n /\ q.clean = t.clean /\ q.inflight = t.inflight + 1
  <2>1. 1 \in 0 .. M
    BY <1>1
  <2>2. (t.next + 1) % M = n
    BY <1>1, <2>1, RingSteps, Zenon
  <2>3. DOMAIN t = {"free", "buffer", "head", "tail", "next", "clean", "inflight", "pending"}
    BY DEF TxOK
  <2>4. q = [t EXCEPT !.buffer[t.next] = accepted + 1, !.free[t.next] = FALSE,
                      !.next = n, !.tail = n, !.inflight = @ + 1]
    BY <2>2, Zenon DEF Given
  <2> HIDE DEF n, q
  <2>5. QED
    BY <2>3, <2>4
<1> HIDE DEF n, w, c, q
<1>6. /\ DOMAIN t.free = TxPlaces /\ DOMAIN t.buffer = TxPlaces /\ wire \in Seq(Nat)
      /\ \A k \in 1 .. Len(wire) : wire[k] = k
      /\ \A i \in TxPlaces : t.free[i] <=> ~ TxAhead(t.head, i) < w
      /\ \A i \in TxPlaces : TxAhead(t.head, i) < w => t.buffer[i] = (Len(wire) + TxAhead(t.head, i)) + 1
      /\ accepted \in Nat /\ accepted = Len(wire) + w
  BY DEF TxOK, w
<1>7. t.next \in TxPlaces /\ TxAhead(t.head, t.next) = w
  BY <1>1 DEF TxPlaces, w
<1>8. \A i \in TxPlaces : q.free[i] <=> ~ TxAhead(t.head, i) < w + 1
  <2>1. ASSUME NEW i \in TxPlaces PROVE q.free[i] <=> ~ TxAhead(t.head, i) < w + 1
    <3>1. CASE i = t.next
      BY <3>1, <1>3, <1>5, <1>6, <1>7
    <3>2. CASE i # t.next
      <4>1. q.free[i] = t.free[i]
        BY <3>2, <1>5, <1>6
      <4>2. QED
        BY <4>1, <3>2, <1>3, <1>6, Zenon
    <3>3. QED
      BY <3>1, <3>2
  <2>2. QED
    BY <2>1
<1>9. ASSUME NEW i \in TxPlaces, TxAhead(t.head, i) < w + 1
      PROVE  q.buffer[i] = (Len(wire) + TxAhead(t.head, i)) + 1
  <2>1. CASE i = t.next
    <3>1. q.buffer[i] = accepted + 1 /\ TxAhead(t.head, i) = w
      BY <2>1, <1>5, <1>6, <1>7
    <3>2. QED
      BY <3>1, <1>6
  <2>2. CASE i # t.next
    <3>1. TxAhead(t.head, i) < w
      BY <2>2, <1>3, <1>9, Zenon
    <3>2. q.buffer[i] = t.buffer[i]
      BY <2>2, <1>5, <1>6
    <3>3. QED
      BY <3>1, <3>2, <1>6, Zenon
  <2>3. QED
    BY <2>1, <2>2
<1>10. /\ t.inflight + 1 = (c + w) + 1 /\ (c + w) + 1 = c + (w + 1)
       /\ accepted + 1 \in Nat /\ accepted + 1 = Len(wire) + (w + 1)
       /\ DOMAIN q.free = TxPlaces /\ DOMAIN q.buffer = TxPlaces
  BY <1>1, <1>5, <1>6
<1>11. /\ q.head \in TxPlaces /\ q.next \in TxPlaces /\ q.clean \in TxPlaces /\ q.tail = q.next
       /\ TxAhead(q.head, q.next) = w + 1 /\ TxAhead(q.clean, q.head) = c
       /\ q.inflight = TxAhead(q.clean, q.next)
       /\ q.inflight = TxAhead(q.clean, q.head) + TxAhead(q.head, q.next)
       /\ accepted + 1 = Len(wire) + TxAhead(q.head, q.next)
  <2>1. TxAhead(t.clean, t.head) = c
    BY DEF c
  <2>2. QED
    BY <2>1, <1>1, <1>3, <1>4, <1>5, <1>10, Zenon DEF TxPlaces
<1>12. /\ \A i \in TxPlaces : q.free[i] <=> ~ TxAhead(q.head, i) < TxAhead(q.head, q.next)
       /\ \A i \in TxPlaces : TxAhead(q.head, i) < TxAhead(q.head, q.next) =>
                                q.buffer[i] = (Len(wire) + TxAhead(q.head, i)) + 1
  <2>1. q.head = t.head /\ TxAhead(q.head, q.next) = w + 1
    BY <1>5, <1>11, Zenon
  <2>2. QED
    BY <2>1, <1>8, <1>9, Zenon
<1>13. TxOK(q, accepted + 1, wire)
  BY <1>5, <1>6, <1>10, <1>11, <1>12, Zenon DEF TxOK
<1>14. QED
  BY <1>13 DEF q

\* The descriptors behind tx_clean that are done are those that the controller has sent.
LEMMA DoneRight ==
    ASSUME NEW t, NEW accepted, NEW wire, TxOK(t, accepted, wire)
    PROVE  Done(t) = TxAhead(t.clean, t.head)
<1> DEFINE M == E1000_TX_DESC
           w == TxAhead(t.head, t.next)
           c == TxAhead(t.clean, t.head)
           at(k) == (t.clean + k) % M
           P(n) == /\ \A k \in 0 .. n - 1 : t.free[at(k)]
                   /\ n < t.inflight => ~ t.free[at(n)]
<1>1. /\ M \in Nat \ {0, 1} /\ M \in Nat \ {0}
      /\ t.head \in 0 .. M - 1 /\ t.next \in 0 .. M - 1 /\ t.clean \in 0 .. M - 1
      /\ w \in 0 .. M - 1 /\ c \in 0 .. M - 1 /\ c + w \in 0 .. M - 1
      /\ TxAhead(t.clean, t.next) = c + w /\ t.inflight = c + w
  BY TxNumbers, Zenon
<1>2. \A k \in 0 .. M - 1 : at(k) \in TxPlaces /\ at(k) = After(t.clean, k, M)
  BY <1>1, RingCell, Zenon DEF TxPlaces
<1>3. /\ \A k \in 0 .. c - 1 : TxAhead(t.head, After(t.clean, k, M)) >= w
      /\ After(t.clean, c, M) = t.head
  BY <1>1, RingOrder, Zenon DEF TxAhead
<1>4. TxAhead(t.head, t.head) = 0
  BY Zenon, <1>1, RingInverse DEF TxAhead
<1> HIDE DEF at, w, c
<1>5. \A i \in TxPlaces : t.free[i] <=> ~ TxAhead(t.head, i) < w
  BY DEF TxOK, w
<1>6. \A i \in TxPlaces : TxAhead(t.head, i) \in 0 .. M - 1
  BY TxNumbers, Zenon
<1>7. \A k \in 0 .. c - 1 : t.free[at(k)]
  <2>1. ASSUME NEW k \in 0 .. c - 1 PROVE t.free[at(k)]
    <3>1. k \in 0 .. M - 1
      BY <1>1
    <3>2. at(k) \in TxPlaces /\ at(k) = After(t.clean, k, M)
      BY <3>1, <1>2, Zenon
    <3>3. TxAhead(t.head, at(k)) >= w /\ TxAhead(t.head, at(k)) \in 0 .. M - 1
      BY <3>2, <1>3, <1>6, Zenon
    <3>4. ~ TxAhead(t.head, at(k)) < w
      BY <3>3, <1>1
    <3>5. QED
      BY <3>2, <3>4, <1>5, Zenon
  <2>2. QED
    BY <2>1
<1>8. c < t.inflight => ~ t.free[at(c)]
  <2>1. SUFFICES ASSUME c < t.inflight PROVE ~ t.free[at(c)]
    OBVIOUS
  <2>2. c \in 0 .. M - 1 /\ 0 < w
    BY <2>1, <1>1
  <2>3. at(c) \in TxPlaces /\ at(c) = t.head
    BY <2>2, <1>2, <1>3, Zenon
  <2>4. QED
    BY <2>2, <2>3, <1>4, <1>5, Zenon
<1>9. P(c) /\ c \in 0 .. t.inflight
  BY <1>1, <1>7, <1>8
<1>10. ASSUME NEW n \in 0 .. t.inflight, P(n) PROVE n = c
  <2>1. ~ c < n
    <3>1. SUFFICES ASSUME c < n PROVE FALSE
      OBVIOUS
    <3>2. c \in 0 .. n - 1 /\ c < t.inflight
      BY <3>1, <1>1
    <3>3. QED
      BY <3>2, <1>8, <1>10
  <2>2. ~ n < c
    <3>1. SUFFICES ASSUME n < c PROVE FALSE
      OBVIOUS
    <3>2. n \in 0 .. c - 1 /\ n < t.inflight
      BY <3>1, <1>1
    <3>3. QED
      BY <3>2, <1>7, <1>10
  <2>3. QED
    BY <2>1, <2>2, <1>1
<1>11. Done(t) = CHOOSE n \in 0 .. t.inflight : P(n)
  BY DEF Done, at
<1> HIDE DEF P
<1>12. QED
  BY <1>9, <1>10, <1>11 DEF c

LEMMA ReclaimedRight ==
    ASSUME NEW t, NEW accepted, NEW wire, TxOK(t, accepted, wire)
    PROVE  TxOK(Reclaimed(t, Done(t)), accepted, wire)
<1> DEFINE M == E1000_TX_DESC
           w == TxAhead(t.head, t.next)
           c == TxAhead(t.clean, t.head)
           q == Reclaimed(t, c)
<1>1. /\ M \in Nat \ {0, 1} /\ M \in Nat \ {0}
      /\ t.head \in 0 .. M - 1 /\ t.next \in 0 .. M - 1 /\ t.clean \in 0 .. M - 1
      /\ w \in 0 .. M - 1 /\ c \in 0 .. M - 1
      /\ TxAhead(t.clean, t.next) = c + w /\ t.inflight = c + w
  BY TxNumbers, Zenon
<1>2. (t.clean + c) % M = t.head
  <2>1. After(t.clean, c, M) = t.head
    BY <1>1, RingOrder, Zenon DEF TxAhead
  <2>2. (t.clean + c) % M = After(t.clean, c, M)
    BY <1>1, RingCell, Zenon
  <2>3. QED
    BY <2>1, <2>2, Zenon
<1>3. TxAhead(t.head, t.head) = 0
  BY <1>1, RingInverse DEF TxAhead
<1>4. /\ DOMAIN q = {"free", "buffer", "head", "tail", "next", "clean", "inflight", "pending"}
      /\ q.free = t.free /\ q.buffer = t.buffer /\ q.head = t.head /\ q.tail = t.tail
      /\ q.next = t.next /\ q.clean = t.head /\ q.inflight = t.inflight - c
  <2>1. DOMAIN t = {"free", "buffer", "head", "tail", "next", "clean", "inflight", "pending"}
    BY DEF TxOK
  <2>2. q = [t EXCEPT !.clean = t.head, !.inflight = @ - c, !.pending = FALSE]
    BY <1>2, Zenon DEF Reclaimed
  <2> HIDE DEF c, q
  <2>3. QED
    BY <2>1, <2>2
<1> HIDE DEF c, w, q
<1>5. q.inflight = w /\ q.inflight = 0 + w
  BY <1>1, <1>4
<1>6. TxAhead(q.head, q.next) = w /\ TxAhead(q.clean, q.head) = 0 /\ TxAhead(q.clean, q.next) = w
  BY <1>3, <1>4, Zenon DEF w
<1>7. /\ t.tail = t.next /\ DOMAIN t.free = TxPlaces /\ DOMAIN t.buffer = TxPlaces
      /\ \A i \in TxPlaces : t.free[i] <=> ~ TxAhead(t.head, i) < TxAhead(t.head, t.next)
      /\ accepted \in Nat /\ wire \in Seq(Nat) /\ accepted = Len(wire) + TxAhead(t.head, t.next)
      /\ \A k \in 1 .. Len(wire) : wire[k] = k
      /\ \A i \in TxPlaces : TxAhead(t.head, i) < TxAhead(t.head, t.next) =>
                               t.buffer[i] = (Len(wire) + TxAhead(t.head, i)) + 1
      /\ t.head \in TxPlaces /\ t.next \in TxPlaces
  BY DEF TxOK
<1>8. TxOK(q, accepted, wire)
  BY <1>4, <1>5, <1>6, <1>7, Zenon DEF TxOK
<1>9. QED
  BY <1>8, DoneRight, Zenon DEF q, c

-----------------------------------------------------------------------------
(* The link. *)

\* The samples that are looked at: one more, and at most as many as it takes.
LEMMA Sampled ==
    ASSUME NEW seen \in Seq({0, 1}), NEW D, D = E1000_LINK_DEBOUNCE_SAMPLES, Len(seen) <= D,
           NEW raw \in {0, 1},
           NEW s, s = LastSamples(seen, raw)
    PROVE  /\ s \in Seq({0, 1}) /\ Len(s) \in 1 .. D /\ s[Len(s)] = raw
           /\ Len(s) = Len(seen) + 1 \/ (Len(s) = Len(seen) /\ Len(seen) = D)
           /\ \A k \in 1 .. Len(s) - 1 : s[k] = seen[k + ((Len(seen) + 1) - Len(s))]
<1> DEFINE all == Append(seen, raw)
           n == Len(s)
           p == Len(seen)
<1>1. /\ all \in Seq({0, 1}) /\ Len(all) = p + 1 /\ all[p + 1] = raw
      /\ \A k \in 1 .. p : all[k] = seen[k]
      /\ p \in Nat /\ p <= D /\ D \in Nat \ {0, 1}
  BY AppendProperties, Sizes
<1>2. s = SubSeq(all, IF Len(all) > D THEN 2 ELSE 1, Len(all))
  BY DEF LastSamples
<1> HIDE DEF all, p
<1>3. CASE p + 1 > D
  <2>1. s = SubSeq(all, 2, Len(all)) /\ 2 \in 1 .. Len(all) /\ p = D
    BY <1>1, <1>2, <1>3
  <2>2. /\ s \in Seq({0, 1}) /\ n = Len(all) + 1 - 2
        /\ \A i \in 1 .. Len(all) + 1 - 2 : s[i] = all[2 + i - 1]
    BY <1>1, <2>1, TailPart
  <2> HIDE DEF n
  <2>3. n = D /\ \A i \in 1 .. D : s[i] = all[i + 1]
    BY <1>1, <2>1, <2>2
  <2>4. /\ \A k \in 1 .. n - 1 : k \in 1 .. D /\ k + 1 \in 1 .. p /\ k + ((p + 1) - n) = k + 1
        /\ n \in 1 .. n /\ n \in 1 .. D /\ n = p
    BY <1>1, <2>1, <2>3
  <2>5. \A k \in 1 .. n - 1 : s[k] = seen[k + ((p + 1) - n)]
    BY <1>1, <2>3, <2>4, Zenon
  <2>6. s[n] = raw
    BY <1>1, <2>1, <2>3, <2>4, Zenon
  <2>7. QED
    BY <2>1, <2>2, <2>4, <2>5, <2>6, Zenon DEF n, p
<1>4. CASE ~ p + 1 > D
  <2>1. s = SubSeq(all, 1, Len(all)) /\ Len(all) \in 0 .. Len(all)
    BY <1>1, <1>2, <1>4
  <2>2. /\ s \in Seq({0, 1}) /\ n = Len(all)
        /\ \A i \in 1 .. Len(all) : s[i] = all[i]
    BY <1>1, <2>1, FrontPart
  <2> HIDE DEF n
  <2>3. n = p + 1
    BY <1>1, <2>2
  <2>4. /\ \A k \in 1 .. n - 1 : k \in 1 .. n /\ k \in 1 .. p /\ k + ((p + 1) - n) = k
        /\ n \in 1 .. n /\ n \in 1 .. D
    BY <1>1, <1>4, <2>3
  <2>5. \A k \in 1 .. n - 1 : s[k] = seen[k + ((p + 1) - n)]
    BY <1>1, <2>2, <2>4, Zenon
  <2>6. s[n] = raw
    BY <1>1, <2>2, <2>3, <2>4, Zenon
  <2>7. QED
    BY <2>2, <2>3, <2>4, <2>5, <2>6, Zenon DEF n, p
<1>5. QED
  BY <1>3, <1>4

LEMMA LinkRight ==
    ASSUME LinkOK(link), NEW raw \in {0, 1}, e1000_link_status(raw)
    PROVE  LinkOK(link')
<1> DEFINE D == E1000_LINK_DEBOUNCE_SAMPLES
           s == LastSamples(link.seen, raw)
           n == Len(s)
           p == Len(link.seen)
<1>1. /\ D \in Nat \ {0, 1}
      /\ DOMAIN link = {"state", "candidate", "samples", "seen", "because"}
      /\ link.state \in {0, 1} /\ link.candidate \in {0, 1} /\ link.samples \in 0 .. D - 1
      /\ link.seen \in Seq({0, 1}) /\ p <= D /\ p \in Nat
      /\ link.candidate = link.state <=> link.samples = 0
      /\ p > 0 => link.seen[p] = link.candidate
      /\ link.samples <= p
      /\ \A k \in 1 .. p : k > p - link.samples => link.seen[k] = link.candidate
      /\ link.samples > 0 /\ link.samples < p => link.seen[p - link.samples] # link.candidate
      /\ link.because # <<>> => link.because = [k \in 1 .. D |-> link.state]
  BY Sizes DEF LinkOK
<1>2. /\ s \in Seq({0, 1}) /\ n \in 1 .. D /\ s[n] = raw
      /\ n = p + 1 \/ (n = p /\ p = D)
      /\ \A k \in 1 .. n - 1 : s[k] = link.seen[k + ((p + 1) - n)]
  <2>1. link.seen \in Seq({0, 1}) /\ Len(link.seen) <= D
    BY <1>1
  <2>2. QED
    BY <2>1, Sampled, ZenonT(60)
<1> HIDE DEF s, n, p
<1>3. ASSUME NEW v \in {0, 1}, s = [k \in 1 .. D |-> v]
      PROVE  n = D /\ v = raw /\ \A k \in 1 .. n : s[k] = raw
  <2>1. n = D
    <3>1. DOMAIN s = 1 .. n
      BY <1>2 DEF n
    <3>2. DOMAIN s = 1 .. D
      BY <1>3
    <3>3. QED
      BY <3>1, <3>2, <1>1, <1>2
  <2>2. QED
    BY <2>1, <1>1, <1>2, <1>3
<1>4. CASE raw = link.state
  <2>1. link' = [link EXCEPT !.candidate = raw, !.samples = 0, !.seen = s]
    BY <1>4 DEF e1000_link_status, s
  <2>2. /\ DOMAIN link' = {"state", "candidate", "samples", "seen", "because"}
        /\ link'.state = link.state /\ link'.candidate = raw /\ link'.samples = 0
        /\ link'.seen = s /\ link'.because = link.because
    BY <2>1, <1>1
  <2>3. \A v \in {0, 1} : link'.seen = [k \in 1 .. D |-> v] => link'.state = v
    BY <2>2, <1>3, <1>4
  <2>4. QED
    BY <2>2, <2>3, <1>1, <1>2, <1>4 DEF LinkOK, n
<1>5. CASE raw # link.state /\ raw # link.candidate
  <2>1. link' = [link EXCEPT !.candidate = raw, !.samples = 1, !.seen = s]
    BY <1>5 DEF e1000_link_status, s
  <2>2. /\ DOMAIN link' = {"state", "candidate", "samples", "seen", "because"}
        /\ link'.state = link.state /\ link'.candidate = raw /\ link'.samples = 1
        /\ link'.seen = s /\ link'.because = link.because
    BY <2>1, <1>1
  <2>3. 1 < n => s[n - 1] # raw
    <3>1. SUFFICES ASSUME 1 < n PROVE s[n - 1] # raw
      OBVIOUS
    <3>2. n - 1 \in 1 .. n - 1 /\ (n - 1) + ((p + 1) - n) = p /\ p > 0
      <4>1. n \in Nat /\ p \in Nat /\ p > 0
        BY <3>1, <1>1, <1>2
      <4>2. QED
        BY <4>1, <3>1
    <3>3. s[n - 1] = link.seen[p]
      BY Zenon, <3>2, <1>2
    <3>4. QED
      BY <3>2, <3>3, <1>1, <1>5
  <2>4. \A v \in {0, 1} : link'.seen = [k \in 1 .. D |-> v] => link'.state = v
    <3>1. ASSUME NEW v \in {0, 1}, s = [k \in 1 .. D |-> v] PROVE FALSE
      <4>1. 1 < n /\ n - 1 \in 1 .. n
        BY <3>1, <1>1, <1>3
      <4>2. QED
        BY <4>1, <3>1, <1>3, <2>3
    <3>2. QED
      BY <3>1, <2>2
  <2>5. \A k \in 1 .. n : k > n - 1 => s[k] = raw
    BY <1>2
  <2>6. QED
    BY <2>2, <2>3, <2>4, <2>5, <1>1, <1>2, <1>5 DEF LinkOK, n
<1>6. CASE raw # link.state /\ raw = link.candidate
  <2>1. link.samples > 0 /\ link.samples <= p
    BY <1>1, <1>6
  <2>2. \A k \in 1 .. n : k > n - (link.samples + 1) => s[k] = raw
    <3>1. ASSUME NEW k \in 1 .. n, k > n - (link.samples + 1) PROVE s[k] = raw
      <4>1. CASE k = n
        BY <4>1, <1>2
      <4>2. CASE k # n
        <5>1. /\ k \in 1 .. n - 1 /\ k + ((p + 1) - n) \in 1 .. p
              /\ k + ((p + 1) - n) > p - link.samples
          BY <4>2, <3>1, <1>1, <1>2
        <5>2. QED
          BY Zenon, <5>1, <1>1, <1>2, <1>6
      <4>3. QED
        BY <4>1, <4>2
    <3>2. QED
      BY <3>1
  <2>3. CASE link.samples + 1 < D
    <3>1. link' = [link EXCEPT !.samples = link.samples + 1, !.seen = s]
      BY <2>3, <1>6 DEF e1000_link_status, s
    <3>2. /\ DOMAIN link' = {"state", "candidate", "samples", "seen", "because"}
          /\ link'.state = link.state /\ link'.candidate = raw /\ link'.samples = link.samples + 1
          /\ link'.seen = s /\ link'.because = link.because
      BY <3>1, <1>1, <1>6
    <3>3. link.samples + 1 < n => s[n - (link.samples + 1)] # raw
      <4>1. SUFFICES ASSUME link.samples + 1 < n PROVE s[n - (link.samples + 1)] # raw
        OBVIOUS
      <4>2. /\ n - (link.samples + 1) \in 1 .. n - 1 /\ link.samples < p
            /\ (n - (link.samples + 1)) + ((p + 1) - n) = p - link.samples
        <5>1. /\ n \in Nat /\ p \in Nat /\ link.samples \in Nat /\ n <= p + 1 /\ link.samples > 0
          BY <1>1, <1>2, <2>1
        <5>2. QED
          BY <5>1, <4>1
      <4>3. s[n - (link.samples + 1)] = link.seen[p - link.samples]
        BY <4>2, <1>2
      <4>4. QED
        BY <4>2, <4>3, <2>1, <1>1, <1>6
    <3>4. \A v \in {0, 1} : link'.seen = [k \in 1 .. D |-> v] => link'.state = v
      <4>1. ASSUME NEW v \in {0, 1}, s = [k \in 1 .. D |-> v] PROVE FALSE
        <5>1. link.samples + 1 < n /\ n - (link.samples + 1) \in 1 .. n
          BY <4>1, <2>1, <2>3, <1>1, <1>3
        <5>2. QED
          BY <5>1, <4>1, <1>3, <3>3
      <4>2. QED
        BY <4>1, <3>2
    <3>5. link.samples + 1 <= n /\ link.samples + 1 \in 0 .. D - 1 /\ link.samples + 1 # 0
      <4>1. /\ n \in Nat /\ p \in Nat /\ D \in Nat /\ link.samples \in Nat
            /\ n = p + 1 \/ (n = p /\ p = D)
        BY <1>1, <1>2
      <4>2. QED
        BY <4>1, <2>1, <2>3
    <3>6. QED
      BY <3>2, <3>3, <3>4, <3>5, <2>2, <1>1, <1>2, <1>6 DEF LinkOK, n
  <2>4. CASE ~ link.samples + 1 < D
    <3>1. link' = [link EXCEPT !.state = raw, !.samples = 0, !.seen = s, !.because = s]
      BY <2>4, <1>6 DEF e1000_link_status, s
    <3>2. /\ DOMAIN link' = {"state", "candidate", "samples", "seen", "because"}
          /\ link'.state = raw /\ link'.candidate = raw /\ link'.samples = 0
          /\ link'.seen = s /\ link'.because = s
      BY <3>1, <1>1, <1>6
    <3>3. s = [k \in 1 .. D |-> raw]
      <4>1. n = D /\ \A k \in 1 .. D : k > n - (link.samples + 1)
        BY <2>1, <2>4, <1>1, <1>2
      <4>2. \A k \in 1 .. D : s[k] = raw
        BY <4>1, <2>2
      <4>3. s = [k \in 1 .. n |-> s[k]]
        BY <1>2 DEF n
      <4>4. QED
        BY <4>1, <4>2, <4>3
    <3>4. \A v \in {0, 1} : link'.seen = [k \in 1 .. D |-> v] => link'.state = v
      BY <3>2, <1>3
    <3>5. QED
      BY <3>2, <3>3, <3>4, <1>1, <1>2 DEF LinkOK, n
  <2>5. QED
    BY <2>3, <2>4
<1>7. QED
  BY <1>4, <1>5, <1>6

-----------------------------------------------------------------------------
(* The invariant. *)

LEMMA EthernetStarts == e1000_hw_init => EthernetInv
<1> SUFFICES ASSUME e1000_hw_init PROVE EthernetInv
  OBVIOUS
<1>1. /\ E1000_RX_DESC \in Nat \ {0, 1} /\ E1000_TX_DESC \in Nat \ {0, 1}
      /\ E1000_LINK_DEBOUNCE_SAMPLES \in Nat \ {0, 1}
  BY Sizes
<1>2. /\ RxAhead(0, 0) = 0 /\ After(0, E1000_RX_DESC - 1, E1000_RX_DESC) = E1000_RX_DESC - 1
      /\ TxAhead(0, 0) = 0
      /\ \A i \in RxPlaces : ~ RxAhead(0, i) < 0
      /\ \A i \in TxPlaces : ~ TxAhead(0, i) < 0
      /\ 0 \in RxPlaces /\ 0 \in TxPlaces
  BY <1>1 DEF RxAhead, TxAhead, Ahead, After, RxPlaces, TxPlaces
<1>3. RxOK(rx, frames.came, frames.taken)
  BY <1>1, <1>2 DEF e1000_hw_init, RxOK, RxPlaces, Unused
<1>4. TxOK(tx, frames.accepted, frames.wire)
  BY <1>1, <1>2 DEF e1000_hw_init, TxOK, TxPlaces
<1>5. LinkOK(link)
  <2>1. \A v \in {0, 1} : <<>> # [k \in 1 .. E1000_LINK_DEBOUNCE_SAMPLES |-> v]
    BY <1>1
  <2>2. QED
    BY <1>1, <2>1 DEF e1000_hw_init, LinkOK
<1>6. QED
  BY <1>3, <1>4, <1>5 DEF e1000_hw_init, EthernetInv, Told

\* e1000_poll_rx, for the work of the interrupt and for the tick.
LEMMA PolledRight ==
    ASSUME EthernetInv, e1000_poll_rx
    PROVE  /\ DOMAIN frames' = {"came", "taken", "accepted", "wire"} /\ shell' = shell
           /\ RxOK(rx', frames'.came, frames'.taken) /\ Told(rx', irq.cause)
           /\ TxOK(tx', frames'.accepted, frames'.wire)
<1> DEFINE n == Filled(rx)
           t == Reclaimed(tx, Done(tx))
<1>1. /\ DOMAIN frames = {"came", "taken", "accepted", "wire"}
      /\ RxOK(rx, frames.came, frames.taken) /\ Told(rx, irq.cause)
      /\ TxOK(t, frames.accepted, frames.wire)
  BY ReclaimedRight DEF EthernetInv
<1>2. Polled(t, n)
  BY DEF e1000_poll_rx
<1> HIDE DEF t, n
<1>3. /\ DOMAIN frames' = {"came", "taken", "accepted", "wire"} /\ frames'.came = frames.came
      /\ frames'.taken = frames.taken \o Delivered(rx, n) /\ frames'.wire = frames.wire
      /\ \/ tx' = t /\ frames'.accepted = frames.accepted
         \/ CanSend(t) /\ tx' = Given(t, frames.accepted + 1) /\ frames'.accepted = frames.accepted + 1
  BY Zenon, <1>1, <1>2 DEF Polled
<1>4. TxOK(tx', frames'.accepted, frames'.wire)
  BY <1>1, <1>3, GivenRight
<1>5. RxOK(rx', frames'.came, frames'.taken) /\ Told(rx', irq.cause)
  <2>1. CASE rx.pending
    <3>1. rx' = Consumed(rx, Filled(rx)) /\ frames'.taken = frames.taken \o Delivered(rx, Filled(rx))
      BY <2>1, <1>2, <1>3 DEF Polled, n
    <3>2. QED
      BY <3>1, <2>1, <1>1, <1>3, ConsumedRight, Zenon DEF Told
  <2>2. CASE ~ rx.pending
    <3>1. rx' = rx /\ Delivered(rx, n) = <<>>
      BY <2>2, <1>2 DEF Polled, Delivered
    <3>2. frames.taken \o <<>> = frames.taken
      BY <1>1 DEF RxOK
    <3>3. QED
      BY <3>1, <3>2, <1>1, <1>3, Zenon
  <2>3. QED
    BY <2>1, <2>2
<1>6. QED
  BY <1>2, <1>3, <1>4, <1>5 DEF Polled

LEMMA EthernetSteps == EthernetInv /\ [EthernetNext]_ethernetVars => EthernetInv'
<1> SUFFICES ASSUME EthernetInv, [EthernetNext]_ethernetVars PROVE EthernetInv'
  OBVIOUS
<1>1. /\ DOMAIN frames = {"came", "taken", "accepted", "wire"}
      /\ DOMAIN irq = {"cause", "work_pending", "queued"} /\ shell = NotSending
      /\ RxOK(rx, frames.came, frames.taken) /\ Told(rx, irq.cause)
      /\ TxOK(tx, frames.accepted, frames.wire) /\ LinkOK(link)
  BY DEF EthernetInv
<1>2. ASSUME NEW good \in BOOLEAN, Receive(good) PROVE EthernetInv'
  <2>1. CASE rx.head = rx.tail
    BY <2>1, <1>1, <1>2 DEF Receive, EthernetInv
  <2>2. CASE rx.head # rx.tail
    <3>1. RxOK(rx', Append(frames.came, good), frames.taken)
      BY <2>2, <1>1, <1>2, Received, Zenon DEF Receive
    <3>2. /\ DOMAIN frames' = {"came", "taken", "accepted", "wire"}
          /\ frames'.came = Append(frames.came, good) /\ frames'.taken = frames.taken
          /\ frames'.accepted = frames.accepted /\ frames'.wire = frames.wire
          /\ DOMAIN irq' = {"cause", "work_pending", "queued"} /\ "rx" \in irq'.cause
          /\ tx' = tx /\ link' = link /\ shell' = shell
      BY <2>2, <1>1, <1>2 DEF Receive
    <3>3. QED
      BY <3>1, <3>2, <1>1, Zenon DEF EthernetInv, Told
  <2>3. QED
    BY <2>1, <2>2
<1>3. CASE Transmit
  <2>1. TxOK(tx', frames.accepted, Append(frames.wire, tx.buffer[tx.head]))
    BY <1>1, <1>3, Sent, Zenon DEF Transmit
  <2>2. /\ DOMAIN frames' = {"came", "taken", "accepted", "wire"}
        /\ frames'.came = frames.came /\ frames'.taken = frames.taken
        /\ frames'.accepted = frames.accepted
        /\ frames'.wire = Append(frames.wire, tx.buffer[tx.head])
        /\ DOMAIN irq' = {"cause", "work_pending", "queued"} /\ irq'.cause = irq.cause \cup {"tx"}
        /\ rx' = rx /\ link' = link /\ shell' = shell
    BY <1>1, <1>3 DEF Transmit
  <2>3. Told(rx, irq'.cause)
    BY <2>2, <1>1 DEF Told
  <2>4. QED
    BY <2>1, <2>2, <2>3, <1>1, Zenon DEF EthernetInv
<1>4. CASE e1000_irq_handler
  <2>1. /\ DOMAIN rx = {"ring", "head", "tail", "next", "pending"} /\ rx.pending \in BOOLEAN
        /\ DOMAIN tx = {"free", "buffer", "head", "tail", "next", "clean", "inflight", "pending"}
    BY <1>1 DEF RxOK, TxOK
  <2>2. /\ DOMAIN rx' = DOMAIN rx /\ rx'.ring = rx.ring /\ rx'.head = rx.head /\ rx'.tail = rx.tail
        /\ rx'.next = rx.next /\ rx'.pending = (rx.pending \/ "rx" \in irq.cause)
    BY <1>4, <2>1 DEF e1000_irq_handler
  <2>3. /\ DOMAIN tx' = DOMAIN tx /\ tx'.free = tx.free /\ tx'.buffer = tx.buffer
        /\ tx'.head = tx.head /\ tx'.tail = tx.tail /\ tx'.next = tx.next
        /\ tx'.clean = tx.clean /\ tx'.inflight = tx.inflight
    BY <1>4, <2>1 DEF e1000_irq_handler
  <2>4. rx'.pending \in BOOLEAN /\ Told(rx', irq'.cause)
    BY Zenon, <2>1, <2>2, <1>1 DEF Told
  <2>5. RxOK(rx', frames.came, frames.taken)
    BY <2>2, <2>4, <1>1, Zenon DEF RxOK
  <2>6. TxOK(tx', frames.accepted, frames.wire)
    BY <2>3, <1>1, Zenon DEF TxOK
  <2>7. /\ DOMAIN irq' = {"cause", "work_pending", "queued"}
        /\ link' = link /\ shell' = shell /\ frames' = frames
    BY <1>4 DEF e1000_irq_handler
  <2>8. QED
    BY <2>4, <2>5, <2>6, <2>7, <1>1, Zenon DEF EthernetInv
<1>5. CASE net_poll
  <2>1. e1000_poll_rx /\ DOMAIN irq' = {"cause", "work_pending", "queued"} /\ irq'.cause = irq.cause
    BY <1>1, <1>5 DEF net_poll
  <2>2. LinkOK(link')
    BY <1>1, <1>5, LinkRight, Zenon DEF net_poll
  <2>3. QED
    BY <2>1, <2>2, <1>1, PolledRight, Zenon DEF EthernetInv
<1>6. CASE e1000_work
  <2>1. /\ e1000_poll_rx /\ DOMAIN irq' = {"cause", "work_pending", "queued"}
        /\ irq'.cause = irq.cause /\ link' = link
    BY <1>1, <1>6 DEF e1000_work
  <2>2. QED
    BY <2>1, <1>1, PolledRight, Zenon DEF EthernetInv
<1>7. CASE e1000_tx
  <2>1. TxOK(tx', frames.accepted + 1, frames.wire)
    BY <1>1, <1>7, GivenRight, Zenon DEF e1000_tx
  <2>2. /\ DOMAIN frames' = {"came", "taken", "accepted", "wire"}
        /\ frames'.came = frames.came /\ frames'.taken = frames.taken
        /\ frames'.accepted = frames.accepted + 1 /\ frames'.wire = frames.wire
        /\ rx' = rx /\ irq' = irq /\ link' = link /\ shell' = shell
    BY <1>1, <1>7 DEF e1000_tx
  <2>3. QED
    BY <2>1, <2>2, <1>1, Zenon DEF EthernetInv
<1>8. CASE UNCHANGED ethernetVars
  BY <1>8, <1>1 DEF ethernetVars, EthernetInv
<1>9. QED
  BY <1>2, <1>3, <1>4, <1>5, <1>6, <1>7, <1>8 DEF EthernetNext

-----------------------------------------------------------------------------
(* What the invariant says about the frames. *)

LEMMA BetweenPlaces ==
    ASSUME NEW n \in Nat \ {0}, NEW a \in 0 .. n - 1, NEW b \in 0 .. n - 1
    PROVE  /\ DOMAIN Between(a, b, n) = 1 .. Ahead(a, b, n)
           /\ Len(Between(a, b, n)) = Ahead(a, b, n)
           /\ \A k \in 1 .. Ahead(a, b, n) :
                Between(a, b, n)[k] \in 0 .. n - 1 /\ Ahead(a, Between(a, b, n)[k], n) = k - 1
           /\ \A i \in 0 .. n - 1 : Ahead(a, i, n) < Ahead(a, b, n) =>
                /\ Ahead(a, i, n) + 1 \in 1 .. Ahead(a, b, n)
                /\ Between(a, b, n)[Ahead(a, i, n) + 1] = i
<1> DEFINE m == Ahead(a, b, n)
           at(k) == (a + k) % n
           f == [k \in 1 .. m |-> at(k - 1)]
<1>1. m \in 0 .. n - 1 /\ (b - a) % n = m
  BY RingInverse, RingSteps, Zenon
<1>2. Between(a, b, n) = f
  BY <1>1, Zenon DEF Between
<1>3. \A k \in 0 .. n - 1 : at(k) \in 0 .. n - 1 /\ Ahead(a, at(k), n) = k /\ at(k) = After(a, k, n)
  BY RingCell, Zenon
<1>4. \A i \in 0 .. n - 1 : Ahead(a, i, n) \in 0 .. n - 1 /\ After(a, Ahead(a, i, n), n) = i
  BY RingInverse, Zenon
<1> HIDE DEF m, at
<1>5. DOMAIN f = 1 .. m /\ Len(f) = m
  <2>1. f \in [1 .. m -> 0 .. n - 1]
    BY <1>1, <1>3
  <2>2. m \in Nat
    BY <1>1
  <2> HIDE DEF f
  <2>3. QED
    BY <2>1, <2>2, FunctionIsSeq
<1>6. \A k \in 1 .. m : f[k] \in 0 .. n - 1 /\ Ahead(a, f[k], n) = k - 1
  <2>1. \A k \in 1 .. m : k - 1 \in 0 .. n - 1 /\ f[k] = at(k - 1)
    BY <1>1
  <2> HIDE DEF f
  <2>2. QED
    BY <2>1, <1>3, Zenon
<1>7. \A i \in 0 .. n - 1 : Ahead(a, i, n) < m =>
                              Ahead(a, i, n) + 1 \in 1 .. m /\ f[Ahead(a, i, n) + 1] = i
  <2>1. ASSUME NEW i \in 0 .. n - 1, Ahead(a, i, n) < m
        PROVE  Ahead(a, i, n) + 1 \in 1 .. m /\ f[Ahead(a, i, n) + 1] = i
    <3>1. at(Ahead(a, i, n)) = i /\ Ahead(a, i, n) \in 0 .. n - 1
      BY <1>3, <1>4, Zenon
    <3> DEFINE j == Ahead(a, i, n)
    <3>2. j \in 0 .. n - 1 /\ j < m /\ at(j) = i
      BY <2>1, <3>1, Zenon
    <3> HIDE DEF j
    <3>3. j + 1 \in 1 .. m /\ (j + 1) - 1 = j
      BY <1>1, <3>2
    <3>4. f[j + 1] = i
      BY <3>2, <3>3
    <3>5. QED
      BY <3>3, <3>4 DEF j
  <2>2. QED
    BY <2>1
<1> HIDE DEF f
<1>8. QED
  BY <1>2, <1>5, <1>6, <1>7, Zenon DEF m

\* Taken frames, and then those in the ring, are the frames that came.
LEMMA FramesIn ==
    ASSUME RxOK(rx, frames.came, frames.taken), DOMAIN frames = {"came", "taken", "accepted", "wire"}
    PROVE  /\ frames.taken \o [k \in DOMAIN InRing |-> [frame |-> rx.ring[InRing[k]].frame,
                                                        handed |-> rx.ring[InRing[k]].good]]
                = [k \in DOMAIN frames.came |-> [frame |-> k, handed |-> frames.came[k]]]
           /\ InRing # <<>> => rx.next # rx.head
           /\ rx.head = rx.tail => Len(InRing) = E1000_RX_DESC - 1
<1> DEFINE N == E1000_RX_DESC
           S == [frame : Nat, handed : BOOLEAN]
           m == RxAhead(rx.next, rx.head)
           p == Len(frames.taken)
           f == [k \in DOMAIN InRing |-> [frame |-> rx.ring[InRing[k]].frame,
                                          handed |-> rx.ring[InRing[k]].good]]
           g == [k \in DOMAIN frames.came |-> [frame |-> k, handed |-> frames.came[k]]]
<1>1. /\ N \in Nat \ {0, 1} /\ N \in Nat \ {0} /\ rx.head \in 0 .. N - 1 /\ rx.next \in 0 .. N - 1
      /\ rx.tail = After(rx.next, N - 1, N)
      /\ frames.came \in Seq(BOOLEAN) /\ frames.taken \in Seq(S)
      /\ Len(frames.came) = p + m /\ p \in Nat
      /\ \A k \in 1 .. p : frames.taken[k] = [frame |-> k, handed |-> frames.came[k]]
      /\ \A i \in 0 .. N - 1 : RxAhead(rx.next, i) < m =>
           rx.ring[i] = [frame |-> (p + RxAhead(rx.next, i)) + 1,
                         good |-> frames.came[(p + RxAhead(rx.next, i)) + 1]]
  BY Sizes DEF RxOK, RxPlaces
<1>2. m \in 0 .. N - 1 /\ RxAhead(rx.next, rx.next) = 0
  BY Zenon, <1>1, RingInverse DEF RxAhead
<1>3. /\ DOMAIN InRing = 1 .. m /\ Len(InRing) = m
      /\ \A k \in 1 .. m : InRing[k] \in 0 .. N - 1 /\ RxAhead(rx.next, InRing[k]) = k - 1
  BY <1>1, BetweenPlaces, Zenon DEF InRing, RxAhead
<1> HIDE DEF m, p
<1>4. \A k \in 1 .. m : f[k] = [frame |-> p + k, handed |-> frames.came[p + k]]
  <2>1. ASSUME NEW k \in 1 .. m
        PROVE  f[k] = [frame |-> p + k, handed |-> frames.came[p + k]]
    <3>1. k - 1 < m /\ (p + (k - 1)) + 1 = p + k
      BY <1>1, <1>2
    <3>2. InRing[k] \in 0 .. N - 1 /\ RxAhead(rx.next, InRing[k]) = k - 1
      BY <1>3, Zenon
    <3>3. rx.ring[InRing[k]] = [frame |-> p + k, good |-> frames.came[p + k]]
      BY <3>1, <3>2, <1>1, ZenonT(60)
    <3>4. f[k] = [frame |-> rx.ring[InRing[k]].frame, handed |-> rx.ring[InRing[k]].good]
      BY <1>3
    <3> HIDE DEF f
    <3>5. QED
      BY <3>3, <3>4
  <2>2. QED
    BY SMTT(30), <2>1
<1>5. /\ DOMAIN f = 1 .. m /\ DOMAIN g = 1 .. p + m
      /\ \A k \in 1 .. p + m : g[k] = [frame |-> k, handed |-> frames.came[k]] /\ g[k] \in S
      /\ \A k \in 1 .. m : p + k \in 1 .. p + m
  BY <1>1, <1>2, <1>3
<1>6. g \in [1 .. p + m -> S] /\ f \in [1 .. m -> S] /\ p + m \in Nat /\ m \in Nat
  <2>1. \A k \in 1 .. m : f[k] = g[p + k]
    BY Zenon, <1>4, <1>5
  <2>2. f = [k \in 1 .. m |-> f[k]] /\ g = [k \in 1 .. p + m |-> g[k]]
    BY <1>5
  <2> HIDE DEF f, g, S
  <2>3. \A k \in 1 .. m : f[k] \in S
    BY <2>1, <1>5, Zenon
  <2>4. g \in [1 .. p + m -> S] /\ f \in [1 .. m -> S]
    BY <2>2, <2>3, <1>5, Zenon
  <2>5. p + m \in Nat /\ m \in Nat
    BY <1>1, <1>2
  <2>6. QED
    BY <2>4, <2>5
<1> HIDE DEF f, g
<1>7. /\ f \in Seq(S) /\ g \in Seq(S) /\ Len(f) = m /\ Len(g) = p + m
  BY <1>6, FunctionIsSeq, Zenon
<1>8. /\ \A k \in 1 .. p : g[k] = frames.taken[k]
      /\ \A k \in 1 .. Len(f) : g[p + k] = f[k]
  <2>1. \A k \in 1 .. p : k \in 1 .. p + m
    BY <1>1, <1>2
  <2>2. QED
    BY <2>1, <1>1, <1>4, <1>5, <1>7, Zenon
<1>9. frames.taken \o f = g
  <2>1. /\ frames.taken \in Seq(S) /\ f \in Seq(S) /\ g \in Seq(S) /\ Len(g) = p + Len(f)
        /\ \A k \in 1 .. p : g[k] = frames.taken[k]
        /\ \A k \in 1 .. Len(f) : g[p + k] = f[k]
    BY <1>1, <1>7, <1>8, Zenon
  <2> HIDE DEF S
  <2>2. QED
    BY <2>1, Joined, Zenon DEF p
<1>10. InRing # <<>> => rx.next # rx.head
  <2>1. SUFFICES ASSUME rx.next = rx.head PROVE InRing = <<>>
    OBVIOUS
  <2>2. m = 0
    BY <2>1, <1>2, Zenon DEF m
  <2>3. DOMAIN InRing = 1 .. 0
    BY <2>2, <1>3
  <2>4. InRing = [k \in DOMAIN InRing |-> InRing[k]]
    BY Zenon DEF InRing, Between
  <2>5. QED
    BY <2>3, <2>4
<1>13. \A k \in 0 .. N - 1 : Ahead(rx.next, After(rx.next, k, N), N) = k
  <2>1. N \in Nat \ {0} /\ rx.next \in 0 .. N - 1
    BY <1>1
  <2>2. QED
    BY <2>1, RingInverse, Zenon
<1>11. rx.head = rx.tail => Len(InRing) = N - 1
  <2>1. SUFFICES ASSUME rx.head = rx.tail PROVE m = N - 1
    BY <1>3
  <2>2. N - 1 \in 0 .. N - 1
    BY <1>1
  <2>3. QED
    BY <2>1, <2>2, <1>1, <1>13, ZenonT(60) DEF m, RxAhead
<1>12. QED
  BY Zenon, <1>9, <1>10, <1>11 DEF f, g

\* Sent frames, and then those that wait, are the frames that were accepted.
LEMMA FramesOut ==
    ASSUME TxOK(tx, frames.accepted, frames.wire)
    PROVE  /\ frames.wire \o [k \in DOMAIN Waiting |-> tx.buffer[Waiting[k]]] = Upto(frames.accepted)
           /\ tx.inflight = Len(Between(tx.clean, tx.next, E1000_TX_DESC))
           /\ OccupiedUntilDone
<1> DEFINE M == E1000_TX_DESC
           w == TxAhead(tx.head, tx.next)
           p == Len(frames.wire)
           f == [k \in DOMAIN Waiting |-> tx.buffer[Waiting[k]]]
           g == Upto(frames.accepted)
<1>1. /\ M \in Nat \ {0, 1} /\ M \in Nat \ {0} /\ tx.head \in 0 .. M - 1 /\ tx.next \in 0 .. M - 1
      /\ tx.clean \in 0 .. M - 1 /\ tx.tail = tx.next /\ tx.inflight = TxAhead(tx.clean, tx.next)
      /\ DOMAIN tx.free = 0 .. M - 1
      /\ \A i \in 0 .. M - 1 : tx.free[i] <=> ~ TxAhead(tx.head, i) < w
      /\ frames.wire \in Seq(Nat) /\ frames.accepted = p + w /\ p \in Nat
      /\ \A k \in 1 .. p : frames.wire[k] = k
      /\ \A i \in 0 .. M - 1 : TxAhead(tx.head, i) < w => tx.buffer[i] = (p + TxAhead(tx.head, i)) + 1
  BY Sizes DEF TxOK, TxPlaces
<1>2. w \in 0 .. M - 1
  BY Zenon, <1>1, RingInverse DEF TxAhead
<1>3. /\ DOMAIN Waiting = 1 .. w
      /\ \A k \in 1 .. w : Waiting[k] \in 0 .. M - 1 /\ TxAhead(tx.head, Waiting[k]) = k - 1
      /\ \A i \in 0 .. M - 1 : TxAhead(tx.head, i) < w =>
           TxAhead(tx.head, i) + 1 \in 1 .. w /\ Waiting[TxAhead(tx.head, i) + 1] = i
  <2>1. M \in Nat \ {0} /\ tx.head \in 0 .. M - 1 /\ tx.next \in 0 .. M - 1
    BY <1>1
  <2>2. Waiting = Between(tx.head, tx.next, M)
    BY <1>1 DEF Waiting
  <2>3. DOMAIN Waiting = 1 .. w
    BY <2>1, <2>2, BetweenPlaces, Zenon DEF TxAhead
  <2>4. \A k \in 1 .. w : Waiting[k] \in 0 .. M - 1 /\ TxAhead(tx.head, Waiting[k]) = k - 1
    BY <2>1, <2>2, BetweenPlaces, Zenon DEF TxAhead
  <2>5. \A i \in 0 .. M - 1 : TxAhead(tx.head, i) < w =>
           TxAhead(tx.head, i) + 1 \in 1 .. w /\ Waiting[TxAhead(tx.head, i) + 1] = i
    <3>1. \A i \in 0 .. M - 1 : Ahead(tx.head, i, M) < Ahead(tx.head, tx.next, M) =>
            /\ Ahead(tx.head, i, M) + 1 \in 1 .. Ahead(tx.head, tx.next, M)
            /\ Between(tx.head, tx.next, M)[Ahead(tx.head, i, M) + 1] = i
      BY <2>1, BetweenPlaces, Zenon
    <3>2. QED
      BY <3>1, <2>2, Zenon DEF TxAhead
  <2>6. QED
    BY <2>3, <2>4, <2>5
<1>4. tx.inflight = Len(Between(tx.clean, tx.next, M))
  BY <1>1, BetweenPlaces, Zenon DEF TxAhead
<1> HIDE DEF w, p
<1>5. OccupiedUntilDone
  BY <1>1, <1>3, Zenon DEF OccupiedUntilDone
<1>6. \A k \in 1 .. w : f[k] = p + k
  <2>1. ASSUME NEW k \in 1 .. w PROVE f[k] = p + k
    <3>1. k - 1 < w /\ (p + (k - 1)) + 1 = p + k
      BY <1>1, <1>2
    <3>2. Waiting[k] \in 0 .. M - 1 /\ TxAhead(tx.head, Waiting[k]) = k - 1
      BY <1>3, Zenon
    <3>3. tx.buffer[Waiting[k]] = p + k
      BY <3>1, <3>2, <1>1, Zenon
    <3>4. QED
      BY <3>3, <1>3
  <2>2. QED
    BY <2>1
<1>7. /\ g = [k \in 1 .. p + w |-> k] /\ f = [k \in 1 .. w |-> p + k]
      /\ p + w \in Nat /\ w \in Nat
  <2>1. f = [k \in 1 .. w |-> f[k]]
    BY <1>3
  <2>2. g = [k \in 1 .. p + w |-> k] /\ p + w \in Nat /\ w \in Nat
    BY <1>1, <1>2 DEF Upto
  <2> HIDE DEF f
  <2>3. f = [k \in 1 .. w |-> p + k]
    BY <2>1, <1>6, Zenon
  <2>4. QED
    BY <2>2, <2>3
<1> HIDE DEF f, g
<1>8. /\ f \in Seq(Nat) /\ g \in Seq(Nat) /\ Len(f) = w /\ Len(g) = p + w
  <2>1. g \in [1 .. p + w -> Nat] /\ f \in [1 .. w -> Nat]
    BY <1>1, <1>7
  <2>2. QED
    BY <2>1, <1>7, FunctionIsSeq, Zenon
<1>9. /\ \A k \in 1 .. p : g[k] = frames.wire[k]
      /\ \A k \in 1 .. w : g[p + k] = f[k]
  BY <1>1, <1>2, <1>7
<1>10. frames.wire \o f = g
  <2>1. /\ frames.wire \in Seq(Nat) /\ Len(g) = Len(frames.wire) + Len(f)
        /\ \A k \in 1 .. Len(frames.wire) : g[k] = frames.wire[k]
        /\ \A k \in 1 .. Len(f) : g[Len(frames.wire) + k] = f[k]
    BY <1>1, <1>8, <1>9, Zenon DEF p
  <2>2. QED
    BY <2>1, <1>8, Joined, Zenon
<1>11. QED
  BY Zenon, <1>4, <1>5, <1>10 DEF f, g

\* Every frame that found a descriptor is taken off the receive ring once, in order, and
\* none is forgotten in it; every frame e1000_tx accepts is sent once, in order, and its
\* descriptor is reclaimed; the link changes its state when enough samples in a row say so
\* (e1000_irq_handler, e1000_poll_rx, e1000_tx, e1000_link_status).
THEOREM DriverExact == EthernetSpec => []FramesExact
<1>1. e1000_hw_init => EthernetInv
  BY EthernetStarts
<1>2. EthernetInv /\ [EthernetNext]_ethernetVars => EthernetInv'
  BY SMTT(30), EthernetSteps
<1>3. EthernetInv => FramesExact
  <2>1. SUFFICES ASSUME EthernetInv PROVE FramesExact
    OBVIOUS
  <2>2. /\ link.because # <<>> =>
             link.because = [k \in 1 .. E1000_LINK_DEBOUNCE_SAMPLES |-> link.state]
        /\ \A v \in {0, 1} :
             link.seen = [k \in 1 .. E1000_LINK_DEBOUNCE_SAMPLES |-> v] => link.state = v
    BY <2>1 DEF EthernetInv, LinkOK
  <2>3. InRing # <<>> => rx.pending \/ "rx" \in irq.cause
    BY <2>1, FramesIn DEF EthernetInv, Told
  <2>4. QED
    BY Zenon, <2>1, <2>2, <2>3, FramesIn, FramesOut DEF EthernetInv, FramesExact
<1>4. QED
  BY <1>1, <1>2, <1>3, PTL DEF EthernetSpec
=============================================================================
