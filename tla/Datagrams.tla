----------------------------- MODULE Datagrams -----------------------------
(***************************************************************************)
(* Datagrams from their fragments to the socket that reads them: IPv4      *)
(* reassembly (kernel/net/ipv4.c) and the queue of a UDP socket            *)
(* (kernel/net/udp.c).                                                     *)
(*                                                                         *)
(* Fragments are lost, doubled, reordered and cut anew on their way: any   *)
(* part of a datagram may arrive at any time.  A cell of payload is the    *)
(* eight bytes a fragment offset counts.  Arrival is one step, at the      *)
(* tick; udp_socket_recvfrom is two, its copying and its update of the     *)
(* ring.                                                                   *)
(***************************************************************************)
EXTENDS Integers, Sequences

CONSTANTS Grams,             \* datagrams, each of its own source or identification
          GramCells,         \* cells of a datagram
          ReassemblySlots,   \* IPV4_REASSEMBLY_SLOTS
          ReassemblyRanges,  \* IPV4_REASSEMBLY_RANGES
          QueueSize,         \* UDP_SOCKET_QUEUE
          MaxArrivals, MaxPeriods

ASSUME DatagramsAssumption ==
    /\ {GramCells, QueueSize} \subseteq Nat \ {0}
    /\ {ReassemblySlots, ReassemblyRanges, MaxArrivals, MaxPeriods} \subseteq Nat

VARIABLES slots,     \* ipv4_reassembly
          period,    \* time in units of IPV4_REASSEMBLY_TIMEOUT
          queue,     \* the socket: cells of its ring, head, count and drops
          reading,   \* the process inside udp_socket_recvfrom
          arrived,   \* history: datagrams that reached the socket
          taken,     \* history: numbers of those its user got
          mixed      \* history: one arrived in a full ring during the copying

datagramVars == <<slots, period, queue, reading, arrived, taken, mixed>>

Cells == 0 .. GramCells - 1
RSlots == 0 .. ReassemblySlots - 1
NoCell == <<"zero", 0>>

\* What the sender put into the datagram.
Whole(g) == [k \in Cells |-> <<g, k>>]

EmptySlot(payload) ==
    [used |-> FALSE, key |-> "none", have_last |-> FALSE, header |-> FALSE,
     ranges |-> <<>>, total |-> 0, last |-> 0, payload |-> payload]

ipv4_init == [i \in RSlots |-> EmptySlot([k \in Cells |-> NoCell])]

DatagramsInit ==
    /\ slots = ipv4_init
    /\ period = 0
    /\ queue = [cell |-> [k \in 0 .. QueueSize - 1 |-> [n |-> 0, payload |-> Whole("none")]],
                head |-> 0, count |-> 0, drops |-> 0]
    /\ reading = FALSE
    /\ arrived = 0
    /\ taken = <<>>
    /\ mixed = FALSE

----------------------------------------------------------------------------
(* Reassembly. *)

ipv4_reassembly_expire(ss) ==
    [i \in RSlots |-> IF ss[i].used /\ period - ss[i].last >= 1
                      THEN [ss[i] EXCEPT !.used = FALSE] ELSE ss[i]]

\* The slot that collects datagram g, else the first that is free, else none.
Found(ss, g) == {i \in RSlots : ss[i].used /\ ss[i].key = g}
Unoccupied(ss) == {i \in RSlots : ~ss[i].used}
Candidates(ss, g) == IF Found(ss, g) # {} THEN Found(ss, g) ELSE Unoccupied(ss)

\* A slot taken for g: all is cleared but the payload of its last datagram.
NewSlot(s, g) == [EmptySlot(s.payload) EXCEPT !.used = TRUE, !.key = g]

Overlaps(s, a, b) == \E r \in DOMAIN s.ranges : a < s.ranges[r][2] /\ b > s.ranges[r][1]

\* The bytes of the fragment and its range are recorded.
StoreRange(s, g, a, b) ==
    [s EXCEPT !.header = @ \/ a = 0,
              !.payload = [k \in Cells |-> IF k >= a /\ k < b THEN <<g, k>> ELSE @[k]],
              !.ranges = Append(@, <<a, b>>),
              !.last = period,
              !.have_last = @ \/ b = GramCells,
              !.total = IF b = GramCells THEN b ELSE @]

\* The last fragment is taken to mean that all of them are there.
BugComplete(s) == s.have_last

\* A set of positions that ranges do not lead out of, from 0 on.
Follows(s, reached) ==
    /\ 0 \in reached
    /\ \A r \in DOMAIN s.ranges : s.ranges[r][1] \in reached => s.ranges[r][2] \in reached

\* Ranges lead from 0 to the end, each starting where the one before it ended.
ipv4_reassembly_complete(s) ==
    /\ s.have_last
    /\ \A reached \in SUBSET (0 .. GramCells) : Follows(s, reached) => s.total \in reached

\* The payload handed on; bytes are copied from the slot up to its total.
Assembled(s) == [k \in Cells |-> IF k < s.total THEN s.payload[k] ELSE NoCell]

----------------------------------------------------------------------------
(* The socket's queue. *)

\* A full ring gives up its oldest datagram, and counts it.
Room(q) ==
    IF q.count = QueueSize
    THEN [q EXCEPT !.head = (@ + 1) % QueueSize, !.count = @ - 1, !.drops = @ + 1]
    ELSE q

Enqueue(q, entry) ==
    [q EXCEPT !.cell[(q.head + q.count) % QueueSize] = entry, !.count = @ + 1]

udp_input(payload) ==
    /\ queue' = Enqueue(Room(queue), [n |-> arrived + 1, payload |-> payload])
    /\ arrived' = arrived + 1
    /\ mixed' = (mixed \/ (reading /\ queue.count = QueueSize))

NoDelivery == UNCHANGED <<queue, arrived, mixed>>

----------------------------------------------------------------------------
(* Arrivals. *)

\* The fragment is stored; a datagram that is complete frees its slot and goes
\* on, unless there is no memory for it.
Collect(ss, i, s) ==
    IF s.header /\ ipv4_reassembly_complete(s)
    THEN /\ slots' = [ss EXCEPT ![i] = [s EXCEPT !.used = FALSE]]
         /\ udp_input(Assembled(s)) \/ NoDelivery
    ELSE slots' = [ss EXCEPT ![i] = s] /\ NoDelivery

\* The fragment finds slot i, in use for g or taken for it.
InSlot(ss, i, s, g, a, b) ==
    IF Len(s.ranges) >= ReassemblyRanges
    THEN slots' = [ss EXCEPT ![i] = s] /\ NoDelivery
    ELSE IF Overlaps(s, a, b)
         THEN slots' = [ss EXCEPT ![i] = [s EXCEPT !.used = FALSE]] /\ NoDelivery
         ELSE Collect(ss, i, StoreRange(s, g, a, b))

SlotFor(ss, i, g) == IF ss[i].used THEN ss[i] ELSE NewSlot(ss[i], g)

Reassemble(ss, g, a, b) ==
    IF Candidates(ss, g) = {} THEN slots' = ss /\ NoDelivery
    ELSE \E i \in Candidates(ss, g) : /\ \A j \in Candidates(ss, g) : i <= j
                                      /\ InSlot(ss, i, SlotFor(ss, i, g), g, a, b)

\* Cells a to b - 1 of datagram g arrive.
ipv4_reassemble(g, a, b) ==
    /\ arrived < MaxArrivals
    /\ <<a, b>> # <<0, GramCells>>
    /\ Reassemble(ipv4_reassembly_expire(slots), g, a, b)
    /\ UNCHANGED <<period, reading, taken>>

\* A datagram that was not cut.
ipv4_dispatch(g) ==
    /\ arrived < MaxArrivals
    /\ udp_input(Whole(g))
    /\ UNCHANGED <<slots, period, reading, taken>>

\* udp_socket_recvfrom: the oldest datagram is copied, then taken off the ring.
BeginRecvfrom ==
    /\ ~reading /\ queue.count > 0
    /\ reading' = TRUE
    /\ taken' = Append(taken, queue.cell[queue.head])
    /\ UNCHANGED <<slots, period, queue, arrived, mixed>>

FinishRecvfrom ==
    /\ reading
    /\ reading' = FALSE
    /\ queue' = [queue EXCEPT !.head = (@ + 1) % QueueSize, !.count = @ - 1]
    /\ UNCHANGED <<slots, period, arrived, taken, mixed>>

PeriodPasses ==
    /\ period < MaxPeriods
    /\ period' = period + 1
    /\ UNCHANGED <<slots, queue, reading, arrived, taken, mixed>>

FragmentsNext(pieces) ==
    \/ \E p \in pieces : ipv4_reassemble(p[1], p[2], p[3])
    \/ PeriodPasses

QueueNext ==
    \/ \E g \in Grams : ipv4_dispatch(g)
    \/ BeginRecvfrom
    \/ FinishRecvfrom

\* Any part of a datagram.
Fragments == {p \in Grams \X Cells \X (1 .. GramCells) : p[2] < p[3]}

DatagramsNext == FragmentsNext(Fragments) \/ QueueNext

DatagramsSpec == DatagramsInit /\ [][DatagramsNext]_datagramVars

----------------------------------------------------------------------------
\* The ring's indices and the slots' counts are in range (ipv4.c:39-66,
\* udp.c:55-65).
DatagramsTypeOK ==
    /\ queue.head \in 0 .. QueueSize - 1 /\ queue.count \in 0 .. QueueSize
    /\ queue.drops \in 0 .. MaxArrivals
    /\ \A i \in RSlots : /\ Len(slots[i].ranges) \in 0 .. ReassemblyRanges
                         /\ slots[i].total \in 0 .. GramCells
    /\ arrived \in 0 .. MaxArrivals /\ reading \in BOOLEAN /\ mixed \in BOOLEAN

\* A slot in use holds the bytes of its own datagram wherever it says that it
\* has them, each range once, whatever the memory held of the datagrams before
\* (ipv4.c:92-110, 161-175); and one datagram never has two slots.
CollectedRight ==
    /\ \A i \in RSlots : slots[i].used =>
         \A r, q \in DOMAIN slots[i].ranges :
           /\ \A k \in slots[i].ranges[r][1] .. slots[i].ranges[r][2] - 1 :
                slots[i].payload[k] = <<slots[i].key, k>>
           /\ r # q => \/ slots[i].ranges[r][2] <= slots[i].ranges[q][1]
                       \/ slots[i].ranges[q][2] <= slots[i].ranges[r][1]
    /\ \A i, j \in RSlots :
         i # j /\ slots[i].used /\ slots[j].used => slots[i].key # slots[j].key

Ring2(q) == [k \in 1 .. q.count |-> q.cell[(q.head + k - 1) % QueueSize]]

\* Every datagram in the socket's queue is one that was sent, complete and not
\* put together from two (ipv4.c:112-147, 181-189).
DeliveredWhole ==
    \A k \in 1 .. queue.count : \E g \in Grams : Ring2(queue)[k].payload = Whole(g)

\* The queue holds the newest datagrams in the order of arrival, its user got
\* older ones, in order and none twice, and every other one was counted as
\* dropped (udp.c:173-180, 335-346).  Excepted is the arrival in a full ring
\* while recvfrom copies: the ring then moves under it.
QueueExact ==
    ~mixed =>
    LET got == [k \in DOMAIN taken |-> taken[k].n] IN
    /\ \A k \in 1 .. queue.count : Ring2(queue)[k].n = arrived - queue.count + k
    /\ \A k \in 2 .. Len(got) : got[k - 1] < got[k]
    /\ Len(got) > 0 /\ ~reading => got[Len(got)] <= arrived - queue.count
    /\ queue.drops = arrived - Len(got) - queue.count + (IF reading THEN 1 ELSE 0)

\* Datagrams arrive whole, in the socket's queue in order, and none silently goes
\* missing (ipv4.c:92-189, udp.c:173-180, 335-346).
DatagramsSound == DatagramsTypeOK /\ CollectedRight /\ DeliveredWhole /\ QueueExact
=============================================================================
