--------------------------- MODULE DatagramProofs ---------------------------
(***************************************************************************)
(* Datagrams reach their socket whole and in order, for any number of      *)
(* datagrams, cells, slots, ranges and places of the queue, whatever parts *)
(* of them arrive (DatagramsSpec).                                         *)
(***************************************************************************)
EXTENDS Datagrams, CommonLemmas

Places == 0 .. QueueSize - 1
QueueAhead(q, i) == Ahead(q.head, i, QueueSize)

Ranges == {p \in (0 .. GramCells) \X (0 .. GramCells) : p[1] < p[2]}
Payloads == {Whole(g) : g \in Grams \cup {"none"}}
Entries == [n : Nat, payload : Payloads]

\* A slot in use holds what its ranges say.
Holds(s) ==
    /\ s.key \in Grams
    /\ \A r \in DOMAIN s.ranges : \A k \in s.ranges[r][1] .. s.ranges[r][2] - 1 :
         s.payload[k] = <<s.key, k>>
    /\ \A r, q \in DOMAIN s.ranges :
         r # q => s.ranges[r][2] <= s.ranges[q][1] \/ s.ranges[q][2] <= s.ranges[r][1]

SlotOK(s) ==
    /\ DOMAIN s = {"used", "key", "have_last", "header", "ranges", "total", "last", "payload"}
    /\ s.used \in BOOLEAN /\ s.have_last \in BOOLEAN
    /\ s.ranges \in Seq(Ranges) /\ Len(s.ranges) <= ReassemblyRanges
    /\ s.total \in 0 .. GramCells
    /\ s.have_last => s.total = GramCells
    /\ s.used => Holds(s)

OneSlotEach(ss) == \A i, j \in RSlots : i # j /\ ss[i].used /\ ss[j].used => ss[i].key # ss[j].key

SlotsOK(ss) ==
    /\ DOMAIN ss = RSlots
    /\ \A i \in RSlots : SlotOK(ss[i])
    /\ OneSlotEach(ss)

\* The ring holds whole datagrams, and count of them while a reader copies.
QueueOK(q, busy) ==
    /\ DOMAIN q = {"cell", "head", "count", "drops"}
    /\ q.cell \in [Places -> Entries]
    /\ q.head \in Places /\ q.count \in 0 .. QueueSize
    /\ busy => q.count > 0
    /\ \A i \in Places : QueueAhead(q, i) < q.count =>
                           \E g \in Grams : q.cell[i].payload = Whole(g)

\* They are the newest, in order; those taken are older, in order; all others were dropped.
Newest(q, came) ==
    \A i \in Places : QueueAhead(q, i) < q.count =>
                        q.cell[i].n = ((came - q.count) + QueueAhead(q, i)) + 1

OrderOK(q, busy, came, got) ==
    /\ Newest(q, came)
    /\ \A k \in 2 .. Len(got) : got[k - 1].n < got[k].n
    /\ Len(got) > 0 => got[Len(got)].n <= (came - q.count) + (IF busy THEN 1 ELSE 0)
    /\ q.drops = ((came - Len(got)) - q.count) + (IF busy THEN 1 ELSE 0)

DatagramsInv ==
    /\ SlotsOK(slots)
    /\ QueueOK(queue, reading) /\ queue.drops \in 0 .. arrived
    /\ reading \in BOOLEAN /\ mixed \in BOOLEAN
    /\ arrived \in 0 .. MaxArrivals
    /\ taken \in Seq(Entries)
    /\ ~ mixed => OrderOK(queue, reading, arrived, taken)

LEMMA DatagramSizes ==
    /\ GramCells \in Nat \ {0} /\ QueueSize \in Nat \ {0}
    /\ ReassemblySlots \in Nat /\ ReassemblyRanges \in Nat /\ MaxArrivals \in Nat
  BY DatagramsAssumption

-----------------------------------------------------------------------------
(* Reassembly. *)

\* If the ranges lead to the end, every cell is in one of them.
LEMMA AllCovered ==
    ASSUME NEW s, s.ranges \in Seq(Ranges), s.total = GramCells, ipv4_reassembly_complete(s),
           NEW k \in Cells
    PROVE  \E r \in DOMAIN s.ranges : k \in s.ranges[r][1] .. s.ranges[r][2] - 1
<1> DEFINE In(c) == \E r \in DOMAIN s.ranges : c \in s.ranges[r][1] .. s.ranges[r][2] - 1
           P == {n \in 0 .. GramCells : \A c \in 0 .. n - 1 : In(c)}
<1>1. GramCells \in Nat
  BY DatagramSizes
<1>2. \A r \in DOMAIN s.ranges : /\ s.ranges[r][1] \in 0 .. GramCells
                                 /\ s.ranges[r][2] \in 0 .. GramCells
  BY DEF Ranges
<1>3. Follows(s, P)
  <2>1. 0 \in P
    BY <1>1
  <2>2. ASSUME NEW r \in DOMAIN s.ranges, s.ranges[r][1] \in P PROVE s.ranges[r][2] \in P
    <3> DEFINE a == s.ranges[r][1]
               b == s.ranges[r][2]
    <3>1. a \in 0 .. GramCells /\ b \in 0 .. GramCells /\ \A c \in 0 .. a - 1 : In(c)
      BY Zenon, <1>2, <2>2
    <3>2. \A c \in a .. b - 1 : In(c)
      OBVIOUS
    <3> HIDE DEF In, a, b
    <3>3. \A c \in 0 .. b - 1 : c \in 0 .. a - 1 \/ c \in a .. b - 1
      BY <3>1
    <3>4. \A c \in 0 .. b - 1 : In(c)
      BY <3>1, <3>2, <3>3
    <3>5. QED
      BY <3>1, <3>4 DEF b
  <2>3. QED
    BY <2>1, <2>2 DEF Follows
<1>4. P \in SUBSET (0 .. GramCells)
  OBVIOUS
<1>5. GramCells \in P
  BY <1>3, <1>4 DEF ipv4_reassembly_complete
<1>6. In(k)
  BY <1>5 DEF Cells
<1>7. QED
  BY <1>6

\* A complete datagram is the one that was sent.
LEMMA AssembledWhole ==
    ASSUME NEW s, SlotOK(s), Holds(s), ipv4_reassembly_complete(s)
    PROVE  Assembled(s) = Whole(s.key)
<1>1. s.ranges \in Seq(Ranges) /\ s.total = GramCells
  BY DEF SlotOK, ipv4_reassembly_complete
<1>2. \A k \in Cells : s.payload[k] = <<s.key, k>>
  BY <1>1, AllCovered DEF Holds
<1>3. \A k \in Cells : k < s.total
  BY <1>1, DatagramSizes DEF Cells
<1>4. QED
  BY <1>2, <1>3 DEF Assembled, Whole

LEMMA ExpiredOK ==
    ASSUME NEW ss, SlotsOK(ss)
    PROVE  SlotsOK(ipv4_reassembly_expire(ss))
<1> DEFINE es == ipv4_reassembly_expire(ss)
<1>1. DOMAIN es = RSlots
  BY DEF ipv4_reassembly_expire
<1>2. ASSUME NEW i \in RSlots
      PROVE  SlotOK(es[i]) /\ (es[i].used => ss[i].used /\ es[i].key = ss[i].key)
  <2>1. SlotOK(ss[i])
    BY DEF SlotsOK
  <2>2. CASE es[i] = ss[i]
    BY <2>1, <2>2
  <2>3. CASE es[i] = [ss[i] EXCEPT !.used = FALSE]
    <3> HIDE DEF es
    <3>1. /\ DOMAIN es[i] = DOMAIN ss[i] /\ es[i].used = FALSE /\ es[i].ranges = ss[i].ranges
          /\ es[i].total = ss[i].total
/\ es[i].have_last = ss[i].have_last
      BY <2>1, <2>3 DEF SlotOK
    <3>2. QED
      BY Zenon, <2>1, <3>1 DEF SlotOK
  <2>4. QED
    BY <2>2, <2>3 DEF ipv4_reassembly_expire
<1> HIDE DEF es
<1>3. OneSlotEach(es)
  BY <1>2 DEF SlotsOK, OneSlotEach
<1>4. QED
  BY <1>1, <1>2, <1>3 DEF SlotsOK, es

\* A slot that gets a fragment it has nothing of.
LEMMA StoredOK ==
    ASSUME NEW s, SlotOK(s), s.used, Len(s.ranges) < ReassemblyRanges,
           NEW a \in Cells, NEW b \in 1 .. GramCells, a < b, ~ Overlaps(s, a, b)
    PROVE  /\ SlotOK(StoreRange(s, s.key, a, b)) /\ StoreRange(s, s.key, a, b).used
           /\ StoreRange(s, s.key, a, b).key = s.key
<1> DEFINE t == StoreRange(s, s.key, a, b)
           m == Len(s.ranges)
           rs == Append(s.ranges, <<a, b>>)
<1>1. /\ DOMAIN s = {"used", "key", "have_last", "header", "ranges", "total", "last", "payload"}
      /\ s.ranges \in Seq(Ranges) /\ m \in Nat /\ s.total \in 0 .. GramCells
      /\ s.have_last \in BOOLEAN /\ (s.have_last => s.total = GramCells)
      /\ Holds(s) /\ GramCells \in Nat /\ ReassemblyRanges \in Nat
  BY DatagramSizes DEF SlotOK
<1>2. /\ DOMAIN t = DOMAIN s /\ t.used = s.used /\ t.key = s.key /\ t.ranges = rs
      /\ t.payload = [k \in Cells |-> IF k >= a /\ k < b THEN <<s.key, k>> ELSE s.payload[k]]
      /\ t.total = IF b = GramCells THEN b ELSE s.total
      /\ t.have_last = (s.have_last \/ b = GramCells)
  BY Zenon, <1>1 DEF StoreRange
<1> HIDE DEF t
<1>3. /\ rs \in Seq(Ranges) /\ Len(rs) = m + 1 /\ DOMAIN rs = 1 .. m + 1 /\ rs[m + 1] = <<a, b>>
      /\ \A r \in 1 .. m : rs[r] = s.ranges[r]
  <2>1. <<a, b>> \in Ranges
    BY <1>1 DEF Ranges, Cells
  <2>2. QED
    BY <1>1, <2>1, AppendProperties
<1> HIDE DEF rs
<1>4. /\ \A r \in 1 .. m : s.ranges[r][1] \in 0 .. GramCells /\ s.ranges[r][2] \in 0 .. GramCells
      /\ DOMAIN s.ranges = 1 .. m
  BY <1>1 DEF Ranges
<1> HIDE DEF m
<1>5. \A r \in 1 .. m : b <= s.ranges[r][1] \/ s.ranges[r][2] <= a
  <2>1. \A r \in 1 .. m : ~ (a < s.ranges[r][2] /\ b > s.ranges[r][1])
    BY <1>4 DEF Overlaps
  <2>2. QED
    BY <1>1, <1>4, <2>1 DEF Cells
<1>6. ASSUME NEW r \in 1 .. m + 1, NEW k \in rs[r][1] .. rs[r][2] - 1
      PROVE  t.payload[k] = <<s.key, k>>
  <2>1. CASE r = m + 1
    <3>1. k \in a .. b - 1
      BY <2>1, <1>3, <1>6
    <3>2. k \in Cells /\ k >= a /\ k < b
      BY <3>1, <1>1 DEF Cells
    <3>3. QED
      BY <3>2, <1>2
  <2>2. CASE r # m + 1
    <3>0. m \in Nat
      BY <1>1
    <3>1. r \in 1 .. m /\ rs[r] = s.ranges[r]
      BY <3>0, <2>2, <1>3
    <3>2. k \in s.ranges[r][1] .. s.ranges[r][2] - 1
      BY <3>1, <1>6
    <3>3. s.payload[k] = <<s.key, k>>
      BY <3>1, <3>2, <1>1, <1>4 DEF Holds
    <3>4. k \in Cells
      <4>1. s.ranges[r][1] \in 0 .. GramCells /\ s.ranges[r][2] \in 0 .. GramCells
        BY <3>1, <1>4
      <4>2. \A lo, hi \in 0 .. GramCells : \A j \in lo .. hi - 1 : j \in Cells
        BY DatagramSizes DEF Cells
      <4>3. QED
        BY Zenon, <4>1, <4>2, <3>2
    <3>5. QED
      BY <3>3, <3>4, <1>2
  <2>3. QED
    BY <2>1, <2>2
<1>7. ASSUME NEW r \in 1 .. m + 1, NEW q \in 1 .. m + 1, r # q
      PROVE  rs[r][2] <= rs[q][1] \/ rs[q][2] <= rs[r][1]
  <2>1. CASE r = m + 1
    <3>1. q \in 1 .. m /\ rs[q] = s.ranges[q] /\ rs[r][1] = a /\ rs[r][2] = b
      BY <2>1, <1>1, <1>3, <1>7
    <3>2. QED
      BY <3>1, <1>5
  <2>2. CASE q = m + 1
    <3>1. r \in 1 .. m /\ rs[r] = s.ranges[r] /\ rs[q][1] = a /\ rs[q][2] = b
      BY <2>2, <1>1, <1>3, <1>7
    <3>2. QED
      BY <3>1, <1>5
  <2>3. CASE r # m + 1 /\ q # m + 1
    <3>1. r \in 1 .. m /\ rs[r] = s.ranges[r] /\ q \in 1 .. m /\ rs[q] = s.ranges[q]
      BY <2>3, <1>1, <1>3
    <3>2. QED
      BY Zenon, <3>1, <1>1, <1>4, <1>7 DEF Holds
  <2>4. QED
    BY <2>1, <2>2, <2>3
<1>8. Holds(t)
  <2>1. s.key \in Grams
    BY <1>1 DEF Holds
  <2>2. QED
    BY Zenon, <2>1, <1>2, <1>3, <1>6, <1>7 DEF Holds
<1>9. /\ t.total \in 0 .. GramCells /\ t.have_last \in BOOLEAN
      /\ t.have_last => t.total = GramCells
      /\ Len(t.ranges) <= ReassemblyRanges
  <2>1. CASE b = GramCells
    BY <2>1, <1>1, <1>2, <1>3 DEF m
  <2>2. CASE b # GramCells
    <3>1. t.total = s.total /\ t.have_last = s.have_last
      BY <2>2, <1>1, <1>2
    <3>2. Len(t.ranges) <= ReassemblyRanges
      BY <1>1, <1>2, <1>3 DEF m
    <3>3. QED
      BY <3>1, <3>2, <1>1
  <2>3. QED
    BY <2>1, <2>2
<1>10. SlotOK(t)
  BY <1>1, <1>2, <1>3, <1>8, <1>9 DEF SlotOK
<1>11. QED
  BY <1>2, <1>10 DEF t

\* The slot a fragment of g goes to: no other slot is in use for g.
LEMMA SlotTaken ==
    ASSUME NEW ss, SlotsOK(ss), NEW g \in Grams, NEW i \in Candidates(ss, g)
    PROVE  /\ i \in RSlots /\ SlotOK(SlotFor(ss, i, g)) /\ SlotFor(ss, i, g).used
           /\ SlotFor(ss, i, g).key = g
           /\ \A j \in RSlots : j # i /\ ss[j].used => ss[j].key # g
<1>1. i \in RSlots /\ SlotOK(ss[i])
  BY DEF Candidates, Found, Unoccupied, SlotsOK
<1>2. CASE ss[i].used
  <2>1. ss[i].key = g
    BY <1>2 DEF Candidates, Found, Unoccupied
  <2>2. QED
    BY <1>1, <1>2, <2>1 DEF SlotFor, SlotsOK, OneSlotEach
<1>3. CASE ~ ss[i].used
  <2>1. \A j \in RSlots : ss[j].used => ss[j].key # g
    BY <1>3 DEF Candidates, Found
  <2> DEFINE n == NewSlot(ss[i], g)
  <2>2. /\ DOMAIN n = {"used", "key", "have_last", "header", "ranges", "total", "last", "payload"}
        /\ n.used = TRUE /\ n.key = g /\ n.have_last = FALSE /\ n.ranges = <<>> /\ n.total = 0
    BY DEF NewSlot, EmptySlot
  <2> HIDE DEF n
  <2>3. SlotFor(ss, i, g) = n
    BY <1>3 DEF SlotFor, n
  <2>4. <<>> \in Seq(Ranges) /\ Len(<<>>) = 0 /\ DOMAIN <<>> = {} /\ 0 <= ReassemblyRanges
        /\ 0 \in 0 .. GramCells
    BY DatagramSizes
  <2>5. Holds(n)
    BY <2>2, <2>4 DEF Holds
  <2>6. SlotOK(n)
    BY Zenon, <2>2, <2>4, <2>5 DEF SlotOK
  <2>7. QED
    BY <1>1, <2>1, <2>2, <2>3, <2>6
<1>4. QED
  BY <1>2, <1>3

LEMMA FreedOK ==
    ASSUME NEW s, SlotOK(s)
    PROVE  SlotOK([s EXCEPT !.used = FALSE]) /\ ~ [s EXCEPT !.used = FALSE].used
<1> DEFINE t == [s EXCEPT !.used = FALSE]
<1>1. /\ DOMAIN t = DOMAIN s /\ t.used = FALSE /\ t.ranges = s.ranges
      /\ t.total = s.total /\ t.have_last = s.have_last
  BY DEF SlotOK
<1> HIDE DEF t
<1>2. SlotOK(t) /\ ~ t.used
  BY Zenon, <1>1 DEF SlotOK
<1>3. QED
  BY <1>2 DEF t

LEMMA SlotChanged ==
    ASSUME NEW ss, SlotsOK(ss), NEW i \in RSlots, NEW s, SlotOK(s),
           s.used => \A j \in RSlots : j # i /\ ss[j].used => ss[j].key # s.key
    PROVE  SlotsOK([ss EXCEPT ![i] = s])
<1> DEFINE ts == [ss EXCEPT ![i] = s]
<1>1. DOMAIN ts = RSlots /\ ts[i] = s /\ \A j \in RSlots : j # i => ts[j] = ss[j]
  BY DEF SlotsOK
<1> HIDE DEF ts
<1>2. \A j \in RSlots : SlotOK(ts[j])
  BY <1>1 DEF SlotsOK
<1>3. OneSlotEach(ts)
  BY <1>1 DEF SlotsOK, OneSlotEach
<1>4. QED
  BY <1>1, <1>2, <1>3 DEF SlotsOK, ts

\* A fragment arrives: the slots stay right, and what is delivered is a whole datagram.
LEMMA ReassembledOK ==
    ASSUME NEW ss, SlotsOK(ss), NEW g \in Grams, NEW a \in Cells, NEW b \in 1 .. GramCells, a < b,
           Reassemble(ss, g, a, b)
    PROVE  SlotsOK(slots') /\ (NoDelivery \/ udp_input(Whole(g)))
<1>1. CASE Candidates(ss, g) = {}
  BY <1>1 DEF Reassemble
<1>2. CASE Candidates(ss, g) # {}
  <2>1. PICK i \in Candidates(ss, g) : InSlot(ss, i, SlotFor(ss, i, g), g, a, b)
    BY <1>2 DEF Reassemble
  <2> DEFINE s == SlotFor(ss, i, g)
             t == StoreRange(s, g, a, b)
  <2>2. /\ i \in RSlots /\ SlotOK(s) /\ s.used /\ s.key = g
        /\ \A j \in RSlots : j # i /\ ss[j].used => ss[j].key # g
    BY SlotTaken
  <2>3. InSlot(ss, i, s, g, a, b)
    BY <2>1
  <2> HIDE DEF s
  <2>4. CASE Len(s.ranges) >= ReassemblyRanges
    <3>1. slots' = [ss EXCEPT ![i] = s] /\ NoDelivery
      BY <2>3, <2>4 DEF InSlot
    <3>2. QED
      BY Zenon, <2>2, <3>1, SlotChanged
  <2>5. CASE ~ Len(s.ranges) >= ReassemblyRanges /\ Overlaps(s, a, b)
    <3>1. slots' = [ss EXCEPT ![i] = [s EXCEPT !.used = FALSE]] /\ NoDelivery
      BY <2>3, <2>5 DEF InSlot
    <3>2. SlotOK([s EXCEPT !.used = FALSE]) /\ ~ [s EXCEPT !.used = FALSE].used
      BY <2>2, FreedOK
    <3>3. QED
      BY Zenon, <2>2, <3>1, <3>2, SlotChanged
  <2>6. CASE ~ Len(s.ranges) >= ReassemblyRanges /\ ~ Overlaps(s, a, b)
    <3>1. Collect(ss, i, t)
      BY <2>3, <2>6 DEF InSlot
    <3>2. Len(s.ranges) < ReassemblyRanges
      BY <2>2, <2>6, DatagramSizes DEF SlotOK
    <3>3. SlotOK(t) /\ t.used /\ t.key = g
      BY <2>2, <2>6, <3>2, StoredOK
    <3> HIDE DEF t
    <3>4. CASE t.header /\ ipv4_reassembly_complete(t)
      <4>1. /\ slots' = [ss EXCEPT ![i] = [t EXCEPT !.used = FALSE]]
            /\ udp_input(Assembled(t)) \/ NoDelivery
        BY <3>1, <3>4 DEF Collect
      <4>2. SlotOK([t EXCEPT !.used = FALSE]) /\ ~ [t EXCEPT !.used = FALSE].used
        BY <3>3, FreedOK
      <4>3. SlotsOK(slots')
        BY Zenon, <2>2, <4>1, <4>2, SlotChanged
      <4>4. Assembled(t) = Whole(g)
        BY Zenon, <3>3, <3>4, AssembledWhole DEF SlotOK
      <4>5. QED
        BY <4>1, <4>3, <4>4
    <3>5. CASE ~ (t.header /\ ipv4_reassembly_complete(t))
      <4>1. slots' = [ss EXCEPT ![i] = t] /\ NoDelivery
        BY <3>1, <3>5 DEF Collect
      <4>2. QED
        BY Zenon, <2>2, <3>3, <4>1, SlotChanged
    <3>6. QED
      BY <3>4, <3>5
  <2>7. QED
    BY <2>4, <2>5, <2>6
<1>3. QED
  BY <1>1, <1>2

-----------------------------------------------------------------------------
(* The queue. *)

LEMMA LastNumber ==
    ASSUME NEW s \in Seq(Entries)
    PROVE  Len(s) \in Nat /\ (Len(s) > 0 => s[Len(s)].n \in Nat)
<1>1. SUFFICES ASSUME Len(s) > 0 PROVE s[Len(s)].n \in Nat
  OBVIOUS
<1>2. Len(s) \in 1 .. Len(s)
  BY <1>1
<1>3. s[Len(s)] \in Entries
  BY <1>2, ElementOfSeq, Zenon
<1> DEFINE e == s[Len(s)]
<1> HIDE DEF e
<1>4. e \in [n : Nat, payload : Payloads]
  BY <1>3 DEF Entries, e
<1>5. e.n \in Nat
  BY <1>4
<1>6. QED
  BY <1>5 DEF e

\* The oldest datagram leaves the ring.
LEMMA Dropped ==
    ASSUME NEW q, NEW busy, QueueOK(q, busy), q.count > 0,
           NEW r, DOMAIN r = {"cell", "head", "count", "drops"}, r.cell = q.cell,
           r.head = (q.head + 1) % QueueSize, r.count = q.count - 1
    PROVE  /\ QueueOK(r, FALSE)
           /\ \A came \in Int : Newest(q, came) => Newest(r, came)
<1> DEFINE h == After(q.head, 1, QueueSize)
<1>1. /\ QueueSize \in Nat \ {0} /\ q.head \in 0 .. QueueSize - 1 /\ q.count \in 1 .. QueueSize
      /\ q.cell \in [Places -> Entries]
      /\ \A i \in Places : QueueAhead(q, i) < q.count => \E g \in Grams : q.cell[i].payload = Whole(g)
  BY DatagramSizes DEF QueueOK, Places
<1>2. /\ h \in 0 .. QueueSize - 1
      /\ \A i \in 0 .. QueueSize - 1 : i # q.head => Ahead(h, i, QueueSize) = QueueAhead(q, i) - 1
      /\ Ahead(h, q.head, QueueSize) = QueueSize - 1
      /\ \A i \in 0 .. QueueSize - 1 : QueueAhead(q, i) \in 0 .. QueueSize - 1
  BY <1>1, RingDrop, RingInverse, Zenon DEF QueueAhead
<1>3. r.head = h
  <2>1. 1 \in 0 .. QueueSize
    BY <1>1
  <2>2. (q.head + 1) % QueueSize = h
    BY <1>1, <2>1, RingSteps, Zenon
  <2>3. QED
    BY <2>2, Zenon
<1> HIDE DEF h
<1>4. ASSUME NEW i \in Places, QueueAhead(r, i) < r.count
      PROVE  QueueAhead(q, i) < q.count /\ QueueAhead(r, i) = QueueAhead(q, i) - 1
  <2>1. QueueAhead(r, i) = Ahead(h, i, QueueSize)
    BY <1>3, Zenon DEF QueueAhead
  <2>2. i # q.head
    BY <2>1, <1>1, <1>2, <1>4
  <2>3. QueueAhead(r, i) = QueueAhead(q, i) - 1 /\ QueueAhead(q, i) \in 0 .. QueueSize - 1
    BY <2>1, <2>2, <1>2, Zenon DEF Places
  <2>4. QED
    BY <2>3, <1>1, <1>4
<1>5. r.head \in Places /\ r.count \in 0 .. QueueSize
  <2>1. r.head \in Places
    BY <1>2, <1>3, Zenon DEF Places
  <2>2. QueueSize \in Nat /\ q.count \in 1 .. QueueSize
    BY <1>1
  <2>3. r.count \in 0 .. QueueSize
    BY <2>2
  <2>4. QED
    BY <2>1, <2>3
<1>6. QueueOK(r, FALSE)
  BY <1>1, <1>4, <1>5, Zenon DEF QueueOK
<1>7. ASSUME NEW came \in Int, Newest(q, came), NEW i \in Places, QueueAhead(r, i) < r.count
      PROVE  r.cell[i].n = ((came - r.count) + QueueAhead(r, i)) + 1
  <2>1. /\ q.cell[i].n = ((came - q.count) + QueueAhead(q, i)) + 1
        /\ QueueAhead(r, i) = QueueAhead(q, i) - 1 /\ QueueAhead(q, i) \in 0 .. QueueSize - 1
    BY <1>2, <1>4, <1>7, Zenon DEF Newest, Places
  <2>2. QED
    BY <2>1, <1>1
<1>8. QED
  BY <1>6, <1>7, Zenon DEF Newest

\* A datagram is put at the end of a ring that has room.
LEMMA Pushed ==
    ASSUME NEW q, NEW busy, QueueOK(q, busy), q.count < QueueSize, NEW busier \in BOOLEAN,
           NEW e \in Entries, \E g \in Grams : e.payload = Whole(g)
    PROVE  /\ QueueOK(Enqueue(q, e), busier)
           /\ Enqueue(q, e).count = q.count + 1 /\ Enqueue(q, e).drops = q.drops
           /\ \A came \in Int : Newest(q, came) /\ e.n = came + 1 => Newest(Enqueue(q, e), came + 1)
<1> DEFINE p == After(q.head, q.count, QueueSize)
           r == Enqueue(q, e)
<1>1. /\ QueueSize \in Nat \ {0} /\ q.head \in 0 .. QueueSize - 1 /\ q.count \in 0 .. QueueSize - 1
      /\ q.cell \in [Places -> Entries] /\ DOMAIN q = {"cell", "head", "count", "drops"}
      /\ \A i \in Places : QueueAhead(q, i) < q.count => \E g \in Grams : q.cell[i].payload = Whole(g)
  BY DatagramSizes DEF QueueOK, Places
<1>2. /\ p \in 0 .. QueueSize - 1 /\ QueueAhead(q, p) = q.count
      /\ \A i \in 0 .. QueueSize - 1 : /\ QueueAhead(q, i) \in 0 .. QueueSize - 1
                                       /\ After(q.head, QueueAhead(q, i), QueueSize) = i
      /\ (q.head + q.count) % QueueSize = p
  BY <1>1, RingInverse, RingCell, ZenonT(60) DEF QueueAhead
<1>3. \A i \in 0 .. QueueSize - 1 : QueueAhead(q, i) = q.count => i = p
  BY <1>2
<1>4. /\ DOMAIN r = {"cell", "head", "count", "drops"} /\ r.cell = [q.cell EXCEPT ![p] = e]
      /\ r.head = q.head /\ r.count = q.count + 1 /\ r.drops = q.drops
  <2>1. r = [q EXCEPT !.cell[p] = e, !.count = @ + 1]
    BY <1>2, Zenon DEF Enqueue
  <2> HIDE DEF r, p
  <2>2. QED
    BY <2>1, <1>1
<1> HIDE DEF p, r
<1>5. /\ r.cell \in [Places -> Entries] /\ r.cell[p] = e
      /\ \A i \in Places : i # p => r.cell[i] = q.cell[i]
  <2>1. p \in Places
    BY <1>2 DEF Places
  <2>2. QED
    BY <2>1, <1>1, <1>4
<1>6. \A i \in Places : QueueAhead(r, i) = QueueAhead(q, i)
  BY <1>4, Zenon DEF QueueAhead
<1>7. ASSUME NEW i \in Places, QueueAhead(q, i) < q.count + 1, i # p
      PROVE  QueueAhead(q, i) < q.count
  <2>1. QueueAhead(q, i) # q.count /\ QueueAhead(q, i) \in 0 .. QueueSize - 1
    BY <1>2, <1>3, <1>7, Zenon DEF Places
  <2>2. QED
    BY <2>1, <1>1, <1>7
<1>8. \A i \in Places : QueueAhead(r, i) < r.count => \E g \in Grams : r.cell[i].payload = Whole(g)
  BY <1>1, <1>4, <1>5, <1>6, <1>7
<1>9. r.head \in Places /\ r.count \in 0 .. QueueSize /\ r.count > 0
  BY <1>1, <1>4 DEF Places
<1>10. QueueOK(r, busier)
  BY <1>4, <1>5, <1>8, <1>9, Zenon DEF QueueOK
<1>11. ASSUME NEW came \in Int, Newest(q, came), e.n = came + 1,
              NEW i \in Places, QueueAhead(r, i) < r.count
       PROVE  r.cell[i].n = (((came + 1) - r.count) + QueueAhead(r, i)) + 1
  <2>1. CASE i = p
    <3>1. r.cell[i].n = came + 1 /\ QueueAhead(r, i) = q.count
      BY <2>1, <1>2, <1>5, <1>6, <1>11, Zenon
    <3>2. QED
      BY <3>1, <1>1, <1>4
  <2>2. CASE i # p
    <3>1. QueueAhead(q, i) < q.count
      BY <2>2, <1>4, <1>6, <1>7, <1>11, Zenon
    <3>2. r.cell[i].n = ((came - q.count) + QueueAhead(q, i)) + 1 /\ QueueAhead(r, i) = QueueAhead(q, i)
      BY <3>1, <2>2, <1>5, <1>6, <1>11, Zenon DEF Newest
    <3>3. QueueAhead(q, i) \in 0 .. QueueSize - 1
      BY <1>2, Zenon DEF Places
    <3>4. QED
      BY <3>2, <3>3, <1>1, <1>4
  <2>3. QED
    BY <2>1, <2>2
<1>12. QED
  BY <1>4, <1>10, <1>11, Zenon DEF Newest, r

\* udp_input, of a datagram that is whole.
LEMMA InputOK ==
    ASSUME DatagramsInv, arrived < MaxArrivals, NEW g \in Grams, udp_input(Whole(g))
    PROVE  /\ QueueOK(queue', reading) /\ queue'.drops \in 0 .. arrived'
           /\ mixed' \in BOOLEAN /\ arrived' \in 0 .. MaxArrivals
           /\ ~ mixed' => OrderOK(queue', reading, arrived', taken)
<1> DEFINE q == Room(queue)
           e == [n |-> arrived + 1, payload |-> Whole(g)]
<1>1. /\ QueueOK(queue, reading) /\ queue.drops \in 0 .. arrived /\ arrived \in Nat
      /\ QueueSize \in Nat \ {0} /\ queue.count \in 0 .. QueueSize
      /\ DOMAIN queue = {"cell", "head", "count", "drops"} /\ MaxArrivals \in Nat
      /\ reading \in BOOLEAN /\ mixed \in BOOLEAN
      /\ queue' = Enqueue(q, e) /\ arrived' = arrived + 1
      /\ mixed' = (mixed \/ (reading /\ queue.count = QueueSize))
  BY DatagramSizes DEF DatagramsInv, QueueOK, udp_input
<1>2. /\ QueueOK(q, FALSE) /\ q.count < QueueSize
      /\ \/ q.count = queue.count /\ q.drops = queue.drops /\ queue.count < QueueSize
         \/ q.count = queue.count - 1 /\ q.drops = queue.drops + 1 /\ queue.count = QueueSize
      /\ Newest(queue, arrived) => Newest(q, arrived)
  <2>1. CASE queue.count = QueueSize
    <3>1. q = [queue EXCEPT !.head = (@ + 1) % QueueSize, !.count = @ - 1, !.drops = @ + 1]
      BY <2>1 DEF Room
    <3> HIDE DEF q
    <3>2. /\ DOMAIN q = {"cell", "head", "count", "drops"} /\ q.cell = queue.cell
          /\ q.head = (queue.head + 1) % QueueSize /\ q.count = queue.count - 1
          /\ q.drops = queue.drops + 1
      BY <3>1, <1>1
    <3>3. queue.count > 0 /\ queue.count - 1 < QueueSize
      BY <2>1, <1>1
    <3>4. QueueOK(q, FALSE) /\ \A came \in Int : Newest(queue, came) => Newest(q, came)
      BY <3>2, <3>3, <1>1, Dropped, Zenon
    <3>5. arrived \in Int
      BY <1>1
    <3>6. QED
      BY <2>1, <3>2, <3>3, <3>4, <3>5, Zenon
  <2>2. CASE queue.count # QueueSize
    <3>1. q = queue /\ queue.count < QueueSize
      BY <2>2, <1>1 DEF Room
    <3>2. QueueOK(queue, FALSE)
      BY <1>1 DEF QueueOK
    <3>3. QED
      BY Zenon, <3>1, <3>2
  <2>3. QED
    BY Zenon, <2>1, <2>2
<1>3. e \in Entries /\ e.payload = Whole(g) /\ e.n = arrived + 1
  BY <1>1 DEF Entries, Payloads
<1> HIDE DEF q, e
<1>4. /\ QueueOK(queue', reading) /\ queue'.count = q.count + 1 /\ queue'.drops = q.drops
      /\ \A came \in Int : Newest(q, came) /\ e.n = came + 1 => Newest(queue', came + 1)
  <2>1. \E gg \in Grams : e.payload = Whole(gg)
    BY <1>3
  <2>2. QED
    BY <2>1, <1>1, <1>2, <1>3, Pushed, Zenon
<1>5. queue'.drops \in 0 .. arrived' /\ arrived' \in 0 .. MaxArrivals /\ mixed' \in BOOLEAN
  <2>1. q.drops \in 0 .. arrived + 1
    BY <1>1, <1>2
  <2>2. mixed' \in BOOLEAN
    BY <1>1
  <2>3. arrived' \in 0 .. MaxArrivals
    BY <1>1
  <2>4. QED
    BY <2>1, <2>2, <2>3, <1>1, <1>4, Zenon
<1>6. ASSUME ~ mixed' PROVE OrderOK(queue', reading, arrived', taken)
  <2>1. ~ mixed /\ ~ (reading /\ queue.count = QueueSize)
    BY <1>1, <1>6
  <2>2. OrderOK(queue, reading, arrived, taken) /\ taken \in Seq(Entries)
    BY <2>1 DEF DatagramsInv
  <2>3. Newest(queue', arrived')
    <3>1. arrived \in Int /\ Newest(queue, arrived)
      BY <1>1, <2>2 DEF OrderOK
    <3>2. QED
      BY <3>1, <1>1, <1>2, <1>3, <1>4, Zenon
  <2> DEFINE m == Len(taken)
             b == IF reading THEN 1 ELSE 0
  <2>4. /\ m \in Nat /\ b \in {0, 1} /\ (m > 0 => taken[m].n \in Nat)
        /\ m > 0 => taken[m].n <= (arrived - queue.count) + b
        /\ queue.drops = ((arrived - m) - queue.count) + b
        /\ \A k \in 2 .. m : taken[k - 1].n < taken[k].n
    <3>1. m \in Nat /\ (m > 0 => taken[m].n \in Nat)
      BY <2>2, LastNumber
    <3>2. b \in {0, 1}
      OBVIOUS
    <3>3. QED
      BY <3>1, <3>2, <2>2, Zenon DEF OrderOK
  <2> HIDE DEF m, b
  <2>5. /\ m > 0 => taken[m].n <= (arrived' - queue'.count) + b
        /\ queue'.drops = ((arrived' - m) - queue'.count) + b
    BY <2>1, <2>4, <1>1, <1>2, <1>4 DEF b
  <2>6. QED
    BY <2>3, <2>4, <2>5, Zenon DEF OrderOK, m, b
<1>7. QED
  BY <1>4, <1>5, <1>6

LEMMA BeginOK ==
    ASSUME DatagramsInv, BeginRecvfrom
    PROVE  DatagramsInv'
<1>1. /\ QueueOK(queue, FALSE) /\ queue.count \in 1 .. QueueSize /\ QueueSize \in Nat \ {0}
      /\ queue.cell \in [Places -> Entries] /\ queue.head \in Places /\ arrived \in Nat
      /\ reading = FALSE /\ reading' = TRUE /\ taken \in Seq(Entries)
      /\ taken' = Append(taken, queue.cell[queue.head])
      /\ slots' = slots /\ queue' = queue /\ arrived' = arrived /\ mixed' = mixed
  BY DatagramSizes DEF DatagramsInv, QueueOK, BeginRecvfrom
<1>2. queue.cell[queue.head] \in Entries /\ queue.cell[queue.head].n \in Nat
  BY <1>1 DEF Entries
<1> DEFINE m == Len(taken)
           e == queue.cell[queue.head]
<1>3. /\ taken' \in Seq(Entries) /\ Len(taken') = m + 1 /\ taken'[m + 1] = e
      /\ \A k \in 1 .. m : taken'[k] = taken[k]
      /\ m \in Nat
  BY <1>1, <1>2, AppendProperties
<1>4. QueueOK(queue', reading')
  BY <1>1 DEF QueueOK
<1>5. ASSUME ~ mixed PROVE OrderOK(queue', reading', arrived', taken')
  <2>1. /\ Newest(queue, arrived)
        /\ \A k \in 2 .. m : taken[k - 1].n < taken[k].n
        /\ m > 0 => taken[m].n <= (arrived - queue.count) + 0
        /\ queue.drops = ((arrived - m) - queue.count) + 0
    BY <1>1, <1>5 DEF DatagramsInv, OrderOK
  <2>2. e.n = (arrived - queue.count) + 1
    <3>1. QueueAhead(queue, queue.head) = 0
      BY Zenon, <1>1, RingInverse DEF QueueAhead, Places
    <3>2. QueueAhead(queue, queue.head) < queue.count
      BY <3>1, <1>1
    <3>3. e.n = ((arrived - queue.count) + 0) + 1
      BY <3>1, <3>2, <2>1, <1>1, Zenon DEF Newest
    <3>4. QED
      BY <3>3, <1>1
  <2>3. m > 0 => taken[m].n \in Nat
    BY <1>1, LastNumber
  <2> HIDE DEF m, e
  <2>4. ASSUME NEW k \in 2 .. m + 1 PROVE taken'[k - 1].n < taken'[k].n
    <3>1. CASE k = m + 1
      <4>1. k - 1 = m /\ m \in 1 .. m /\ m > 0
        BY <3>1, <1>3
      <4>2. taken'[k - 1] = taken[m] /\ taken'[k] = e
        BY <4>1, <3>1, <1>3
      <4>3. taken[m].n <= (arrived - queue.count) + 0 /\ taken[m].n \in Nat
        BY <4>1, <2>1, <2>3
      <4>4. taken[m].n < e.n
        BY <4>3, <2>2, <1>1
      <4>5. QED
        BY <4>2, <4>4
    <3>2. CASE k # m + 1
      <4>1. k \in 2 .. m /\ k \in 1 .. m /\ k - 1 \in 1 .. m
        BY <3>2, <1>3
      <4>2. QED
        BY <4>1, <1>3, <2>1
    <3>3. QED
      BY <3>1, <3>2
  <2>5. /\ e.n <= (arrived - queue.count) + 1
        /\ queue.drops = ((arrived - (m + 1)) - queue.count) + 1
    <3>1. m \in Nat /\ arrived \in Nat /\ queue.count \in Nat
      BY <1>1, <1>3 DEF DatagramsInv, QueueOK
    <3>2. QED
      BY <3>1, <2>1, <2>2
  <2>6. Newest(queue', arrived')
    BY <2>1, <1>1
  <2>7. /\ \A k \in 2 .. Len(taken') : taken'[k - 1].n < taken'[k].n
        /\ Len(taken') > 0 =>
             taken'[Len(taken')].n <= (arrived' - queue'.count) + (IF reading' THEN 1 ELSE 0)
        /\ queue'.drops = ((arrived' - Len(taken')) - queue'.count) + (IF reading' THEN 1 ELSE 0)
    BY <2>4, <2>5, <1>1, <1>3
  <2>8. QED
    BY <2>6, <2>7 DEF OrderOK
<1>6. QED
  BY Zenon, <1>1, <1>3, <1>4, <1>5 DEF DatagramsInv

LEMMA FinishOK ==
    ASSUME DatagramsInv, FinishRecvfrom
    PROVE  DatagramsInv'
<1>1. /\ QueueOK(queue, reading) /\ queue.count > 0 /\ queue.count \in 1 .. QueueSize
      /\ QueueSize \in Nat \ {0} /\ DOMAIN queue = {"cell", "head", "count", "drops"}
      /\ reading = TRUE /\ reading' = FALSE /\ taken' = taken /\ arrived \in Nat
      /\ slots' = slots /\ arrived' = arrived /\ mixed' = mixed
      /\ queue' = [queue EXCEPT !.head = (@ + 1) % QueueSize, !.count = @ - 1]
  BY DatagramSizes DEF DatagramsInv, QueueOK, FinishRecvfrom
<1>2. /\ DOMAIN queue' = {"cell", "head", "count", "drops"} /\ queue'.cell = queue.cell
      /\ queue'.head = (queue.head + 1) % QueueSize /\ queue'.count = queue.count - 1
      /\ queue'.drops = queue.drops
  BY <1>1
<1>3. QueueOK(queue', FALSE) /\ \A came \in Int : Newest(queue, came) => Newest(queue', came)
  BY <1>1, <1>2, Dropped, Zenon
<1>4. ASSUME ~ mixed PROVE OrderOK(queue', reading', arrived', taken')
  <2> DEFINE m == Len(taken)
  <2>1. /\ Newest(queue, arrived) /\ m \in Nat
        /\ \A k \in 2 .. m : taken[k - 1].n < taken[k].n
        /\ m > 0 => taken[m].n <= (arrived - queue.count) + 1 /\ taken[m].n \in Nat
        /\ queue.drops = ((arrived - m) - queue.count) + 1
    <3>1. taken \in Seq(Entries) /\ OrderOK(queue, TRUE, arrived, taken)
      BY Zenon, <1>1, <1>4 DEF DatagramsInv
    <3>2. m \in Nat /\ (m > 0 => taken[m].n \in Nat)
      BY <3>1, LastNumber
    <3>3. QED
      BY <3>1, <3>2 DEF OrderOK
  <2> HIDE DEF m
  <2>2. /\ m > 0 => taken[m].n <= (arrived - queue'.count) + 0
        /\ queue'.drops = ((arrived - m) - queue'.count) + 0
    BY <2>1, <1>1, <1>2
  <2>3. Newest(queue', arrived)
    <3>1. arrived \in Int
      BY <1>1
    <3>2. QED
      BY <3>1, <2>1, <1>3, Zenon
  <2>4. QED
    BY <2>1, <2>2, <2>3, <1>1 DEF OrderOK, m
<1>5. QED
  BY Zenon, <1>1, <1>2, <1>3, <1>4 DEF DatagramsInv

-----------------------------------------------------------------------------
(* The invariant. *)

LEMMA DatagramsStart == DatagramsInit => DatagramsInv
<1> SUFFICES ASSUME DatagramsInit PROVE DatagramsInv
  OBVIOUS
<1>1. GramCells \in Nat \ {0} /\ QueueSize \in Nat \ {0} /\ ReassemblyRanges \in Nat /\ MaxArrivals \in Nat
  BY DatagramSizes
<1>2. SlotsOK(slots)
  <2>1. \A i \in RSlots : slots[i] = EmptySlot([k \in Cells |-> NoCell])
    BY DEF DatagramsInit, ipv4_init
  <2> DEFINE s == EmptySlot([k \in Cells |-> NoCell])
  <2>2. /\ DOMAIN s = {"used", "key", "have_last", "header", "ranges", "total", "last", "payload"}
        /\ s.used = FALSE /\ s.have_last = FALSE /\ s.ranges = <<>> /\ s.total = 0
    BY DEF EmptySlot
  <2> HIDE DEF s
  <2>3. <<>> \in Seq(Ranges) /\ Len(<<>>) = 0 /\ 0 \in 0 .. GramCells /\ 0 <= ReassemblyRanges
    BY <1>1
  <2>4. SlotOK(s)
    BY <2>2, <2>3, Zenon DEF SlotOK
  <2>5. DOMAIN slots = RSlots
    BY DEF DatagramsInit, ipv4_init
  <2>6. \A i \in RSlots : SlotOK(slots[i]) /\ ~ slots[i].used
    BY <2>1, <2>2, <2>4 DEF s
  <2>7. QED
    BY <2>5, <2>6 DEF SlotsOK, OneSlotEach
<1>3. /\ DOMAIN queue = {"cell", "head", "count", "drops"} /\ queue.head = 0 /\ queue.count = 0
      /\ queue.drops = 0 /\ queue.cell \in [Places -> Entries]
  BY DEF DatagramsInit, Places, Entries, Payloads
<1>4. /\ \A i \in Places : ~ QueueAhead(queue, i) < queue.count
      /\ 0 \in Places
  BY <1>1, <1>3 DEF QueueAhead, Ahead, Places
<1>5. QueueOK(queue, reading)
  BY <1>1, <1>3, <1>4 DEF QueueOK, DatagramsInit
<1>6. /\ reading = FALSE /\ mixed = FALSE /\ arrived = 0 /\ taken = <<>>
      /\ taken \in Seq(Entries) /\ Len(taken) = 0 /\ 0 \in 0 .. 0 /\ 0 \in 0 .. MaxArrivals
  BY <1>1 DEF DatagramsInit
<1>7. OrderOK(queue, reading, arrived, taken)
  <2>1. Newest(queue, arrived)
    BY <1>4 DEF Newest
  <2>2. QED
    BY <1>3, <1>6, <2>1 DEF OrderOK
<1>8. QED
  BY Zenon, <1>2, <1>3, <1>5, <1>6, <1>7 DEF DatagramsInv

LEMMA DatagramsStep == DatagramsInv /\ [DatagramsNext]_datagramVars => DatagramsInv'
<1> SUFFICES ASSUME DatagramsInv, [DatagramsNext]_datagramVars PROVE DatagramsInv'
  OBVIOUS
<1>1. ASSUME NEW p \in Fragments, ipv4_reassemble(p[1], p[2], p[3]) PROVE DatagramsInv'
  <2>1. p[1] \in Grams /\ p[2] \in Cells /\ p[3] \in 1 .. GramCells /\ p[2] < p[3]
    BY DEF Fragments
  <2>2. SlotsOK(ipv4_reassembly_expire(slots))
    BY ExpiredOK DEF DatagramsInv
  <2>3. SlotsOK(slots') /\ (NoDelivery \/ udp_input(Whole(p[1])))
    BY <1>1, <2>1, <2>2, ReassembledOK DEF ipv4_reassemble
  <2>4. reading' = reading /\ taken' = taken /\ arrived < MaxArrivals
    BY <1>1 DEF ipv4_reassemble
  <2>5. CASE NoDelivery
    BY <2>3, <2>4, <2>5 DEF NoDelivery, DatagramsInv
  <2>6. CASE udp_input(Whole(p[1]))
    <3>1. /\ QueueOK(queue', reading) /\ queue'.drops \in 0 .. arrived'
          /\ mixed' \in BOOLEAN /\ arrived' \in 0 .. MaxArrivals
          /\ ~ mixed' => OrderOK(queue', reading, arrived', taken)
      BY <2>1, <2>4, <2>6, InputOK
    <3>2. QED
      BY <2>3, <2>4, <3>1 DEF DatagramsInv
  <2>7. QED
    BY <2>3, <2>5, <2>6
<1>2. ASSUME NEW g \in Grams, ipv4_dispatch(g) PROVE DatagramsInv'
  <2>1. /\ reading' = reading /\ taken' = taken /\ slots' = slots /\ arrived < MaxArrivals
        /\ udp_input(Whole(g))
    BY <1>2 DEF ipv4_dispatch
  <2>2. /\ QueueOK(queue', reading) /\ queue'.drops \in 0 .. arrived'
        /\ mixed' \in BOOLEAN /\ arrived' \in 0 .. MaxArrivals
        /\ ~ mixed' => OrderOK(queue', reading, arrived', taken)
    BY <2>1, InputOK
  <2>3. QED
    BY <2>1, <2>2 DEF DatagramsInv
<1>3. CASE BeginRecvfrom
  BY <1>3, BeginOK
<1>4. CASE FinishRecvfrom
  BY <1>4, FinishOK
<1>5. CASE PeriodPasses
  BY <1>5 DEF PeriodPasses, DatagramsInv
<1>6. CASE UNCHANGED datagramVars
  BY <1>6 DEF datagramVars, DatagramsInv
<1>7. QED
  BY <1>1, <1>2, <1>3, <1>4, <1>5, <1>6 DEF DatagramsNext, FragmentsNext, QueueNext

\* The ring read from its head.
LEMMA RingRead ==
    ASSUME NEW q, NEW busy, QueueOK(q, busy), NEW k \in 1 .. q.count
    PROVE  \E i \in Places : QueueAhead(q, i) = k - 1 /\ Ring2(q)[k] = q.cell[i]
<1>1. /\ QueueSize \in Nat \ {0} /\ q.head \in 0 .. QueueSize - 1 /\ q.count \in 0 .. QueueSize
      /\ k - 1 \in 0 .. QueueSize - 1
  BY DatagramSizes DEF QueueOK, Places
<1> DEFINE i == (q.head + (k - 1)) % QueueSize
<1>2. i \in Places /\ QueueAhead(q, i) = k - 1
  BY <1>1, RingCell, Zenon DEF QueueAhead, Places
<1>3. Ring2(q)[k] = q.cell[i]
  BY Zenon DEF Ring2
<1> HIDE DEF i
<1>4. QED
  BY <1>2, <1>3

\* What a socket's user gets is whole datagrams in the order they arrived, none twice, and
\* those that go missing are counted: fragments are put together only when all are there,
\* none overlaps another and all are of one datagram (ipv4_reassemble), and the queue of
\* the socket gives up its oldest (udp_input, udp_socket_recvfrom).
THEOREM DatagramsArrive == DatagramsSpec => []DatagramsSound
<1>1. DatagramsInit => DatagramsInv
  BY DatagramsStart
<1>2. DatagramsInv /\ [DatagramsNext]_datagramVars => DatagramsInv'
  BY DatagramsStep
<1>3. DatagramsInv => DatagramsSound
  <2> SUFFICES ASSUME DatagramsInv PROVE DatagramsSound
    OBVIOUS
  <2>1. /\ MaxArrivals \in Nat /\ SlotsOK(slots) /\ QueueOK(queue, reading)
        /\ arrived \in 0 .. MaxArrivals /\ queue.drops \in 0 .. arrived
        /\ reading \in BOOLEAN /\ mixed \in BOOLEAN
    BY DatagramSizes DEF DatagramsInv
  <2>2. \A i \in RSlots : /\ Len(slots[i].ranges) \in 0 .. ReassemblyRanges
                          /\ slots[i].total \in 0 .. GramCells
    BY <2>1, DatagramSizes DEF SlotsOK, SlotOK
  <2>3. DatagramsTypeOK
    BY <2>1, <2>2 DEF DatagramsTypeOK, QueueOK, Places
  <2>4. CollectedRight
    BY <2>1 DEF CollectedRight, SlotsOK, SlotOK, Holds, OneSlotEach
  <2>5. ASSUME NEW k \in 1 .. queue.count
        PROVE  /\ \E g \in Grams : Ring2(queue)[k].payload = Whole(g)
               /\ ~ mixed => Ring2(queue)[k].n = (arrived - queue.count) + k
    <3>1. PICK i \in Places : QueueAhead(queue, i) = k - 1 /\ Ring2(queue)[k] = queue.cell[i]
      BY <2>1, RingRead
    <3>2. queue.count \in Nat /\ k - 1 < queue.count /\ ((arrived - queue.count) + (k - 1)) + 1 = (arrived - queue.count) + k
      BY <2>1, DatagramSizes DEF QueueOK
    <3>3. \E g \in Grams : queue.cell[i].payload = Whole(g)
      BY <2>1, <3>1, <3>2 DEF QueueOK
    <3>4. ASSUME ~ mixed PROVE queue.cell[i].n = (arrived - queue.count) + k
      <4>1. Newest(queue, arrived)
        BY <3>4 DEF DatagramsInv, OrderOK
      <4>2. queue.cell[i].n = ((arrived - queue.count) + (k - 1)) + 1
        BY <4>1, <3>1, <3>2, Zenon DEF Newest
      <4>3. QED
        BY <4>2, <3>2
    <3>5. QED
      BY <3>1, <3>3, <3>4
  <2>6. DeliveredWhole
    BY <2>5 DEF DeliveredWhole
  <2>7. ASSUME ~ mixed PROVE QueueExact
    <3> DEFINE got == [k \in DOMAIN taken |-> taken[k].n]
    <3>1. taken \in Seq(Entries) /\ OrderOK(queue, reading, arrived, taken)
      BY <2>7 DEF DatagramsInv
    <3>2. Len(taken) \in Nat /\ DOMAIN taken = 1 .. Len(taken)
      BY <3>1
    <3>3. Len(got) = Len(taken)
      <4>1. DOMAIN got = 1 .. Len(taken)
        BY <3>2
      <4>2. QED
        BY <3>2, <4>1
    <3>4. \A k \in 1 .. Len(taken) : got[k] = taken[k].n
      BY <3>2
    <3> HIDE DEF got
    <3>5. \A k \in 2 .. Len(got) : got[k - 1] < got[k]
      <4>1. \A k \in 2 .. Len(taken) : k \in 1 .. Len(taken) /\ k - 1 \in 1 .. Len(taken)
        BY <3>2
      <4>2. QED
        BY <4>1, <3>1, <3>3, <3>4 DEF OrderOK
    <3>6. Len(got) > 0 /\ ~ reading => got[Len(got)] <= arrived - queue.count
      <4>1. SUFFICES ASSUME Len(got) > 0, ~ reading PROVE got[Len(got)] <= arrived - queue.count
        OBVIOUS
      <4>2. Len(taken) \in 1 .. Len(taken)
        BY <4>1, <3>2, <3>3
      <4>3. taken[Len(taken)].n <= (arrived - queue.count) + 0
        BY <4>1, <3>1, <3>3 DEF OrderOK
      <4>4. (arrived - queue.count) + 0 = arrived - queue.count
        BY <2>1 DEF QueueOK
      <4>5. QED
        BY <4>2, <4>3, <4>4, <3>3, <3>4
    <3>7. queue.drops = ((arrived - Len(got)) - queue.count) + (IF reading THEN 1 ELSE 0)
      BY <3>1, <3>3 DEF OrderOK
    <3>8. QED
      BY <2>5, <2>7, <3>5, <3>6, <3>7 DEF QueueExact, got
  <2>8. QED
    BY <2>3, <2>4, <2>6, <2>7 DEF DatagramsSound, QueueExact
<1>4. QED
  BY <1>1, <1>2, <1>3, PTL DEF DatagramsSpec
=============================================================================
