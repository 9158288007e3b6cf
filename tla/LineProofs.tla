----------------------------- MODULE LineProofs -----------------------------
(***************************************************************************)
(* The shell's line editor is a line with a cursor and a walk through the  *)
(* last lines executed, for every size of the buffer and of the history:   *)
(* LineEditor implements LineSpec.  And the screen shows the line.         *)
(***************************************************************************)
EXTENDS LineEditor, CommonLemmas

Cell == LineChars \cup {Nul, Blank}
Places == 0 .. SHELL_BUFFER_SIZE - 1

Inputs == {in \in [buffer : [Places -> Cell], len : Places, cursor : Places] :
             in.cursor <= in.len}

\* A remembered line fits into the buffer.  Until a line is executed the index has
\* nothing to point to and runs freely; afterwards it stays within the ring.
Histories ==
  {h \in [entries : [0 .. HISTORY_SIZE - 1 -> Seq(Cell)], count : 0 .. HISTORY_SIZE,
          head : 0 .. HISTORY_SIZE - 1, index : 0 .. IndexLimit - 1] :
     /\ \A i \in 0 .. HISTORY_SIZE - 1 : Len(h.entries[i]) < SHELL_BUFFER_SIZE
     /\ h.count > 0 => h.index <= h.count}

\* The row is what the line is, and the driver knows how much of it was drawn.
Drawn(r, in) ==
  /\ r \in [cells : [Places -> Cell], rendered : Places]
  /\ r.rendered = in.len
  /\ \A i \in Places : r.cells[i] = IF i < in.len THEN in.buffer[i] ELSE Blank

EditorInv == input \in Inputs /\ history \in Histories /\ Drawn(row, input)

USE LineEditorAssumption

-----------------------------------------------------------------------------
(* The line as two sequences. *)

LEMMA TextOf ==
    ASSUME NEW in \in Inputs
    PROVE  /\ Text(in) \in Seq(Cell) /\ Len(Text(in)) = in.len
           /\ \A i \in 1 .. in.len : Text(in)[i] = in.buffer[i - 1]
<1>1. in.len \in Nat /\ \A i \in 1 .. in.len : in.buffer[i - 1] \in Cell
  BY DEF Inputs, Places
<1>2. Text(in) \in [1 .. in.len -> Cell]
  BY <1>1 DEF Text
<1>3. QED
  BY <1>1, <1>2 DEF Text

LEMMA HalvesOf ==
    ASSUME NEW in \in Inputs
    PROVE  /\ LeftOf(in) \in Seq(Cell) /\ Len(LeftOf(in)) = in.cursor
           /\ \A i \in 1 .. in.cursor : LeftOf(in)[i] = in.buffer[i - 1]
           /\ RightOf(in) \in Seq(Cell) /\ Len(RightOf(in)) = in.len - in.cursor
           /\ \A i \in 1 .. in.len - in.cursor : RightOf(in)[i] = in.buffer[(in.cursor + i) - 1]
           /\ LeftOf(in) \o RightOf(in) = Text(in)
<1> DEFINE s == Text(in)
<1>1. /\ in.len \in Nat /\ in.cursor \in Nat /\ in.cursor <= in.len
      /\ s \in Seq(Cell) /\ Len(s) = in.len /\ \A i \in 1 .. in.len : s[i] = in.buffer[i - 1]
  BY TextOf DEF Inputs, Places
<1> HIDE DEF s
<1>2. /\ SubSeq(s, 1, in.cursor) \in Seq(Cell) /\ Len(SubSeq(s, 1, in.cursor)) = in.cursor
      /\ \A i \in 1 .. in.cursor : SubSeq(s, 1, in.cursor)[i] = s[i]
  BY <1>1
<1>3. /\ SubSeq(s, in.cursor + 1, in.len) \in Seq(Cell)
      /\ Len(SubSeq(s, in.cursor + 1, in.len)) = in.len - in.cursor
      /\ \A i \in 1 .. in.len - in.cursor : SubSeq(s, in.cursor + 1, in.len)[i] = s[in.cursor + i]
  BY SMTT(30), <1>1
<1>4. SubSeq(s, 1, in.cursor) \o SubSeq(s, in.cursor + 1, in.len) = s
  <2>1. /\ 1 \in 1 .. Len(s) + 1 /\ in.cursor \in 1 - 1 .. Len(s) /\ in.len \in in.cursor .. Len(s)
    BY <1>1
  <2>2. SubSeq(s, 1, in.cursor) \o SubSeq(s, in.cursor + 1, in.len) = SubSeq(s, 1, in.len)
    BY Zenon, <2>1, <1>1, ConcatAdjacentSubSeq
  <2>3. SubSeq(s, 1, in.len) = s
    BY <1>1, SubSeqFull
  <2>4. QED
    BY Zenon, <2>2, <2>3
<1>5. LeftOf(in) = SubSeq(s, 1, in.cursor) /\ RightOf(in) = SubSeq(s, in.cursor + 1, in.len)
  BY DEF LeftOf, RightOf, s
<1>6. \A i \in 1 .. in.cursor : LeftOf(in)[i] = in.buffer[i - 1]
  BY <1>1, <1>2, <1>5
<1>7. ASSUME NEW i \in 1 .. in.len - in.cursor
      PROVE  RightOf(in)[i] = in.buffer[(in.cursor + i) - 1]
  <2>1. in.cursor + i \in 1 .. in.len
    BY <1>1
  <2>2. RightOf(in)[i] = s[in.cursor + i]
    BY <1>3, <1>5
  <2>3. s[in.cursor + i] = in.buffer[(in.cursor + i) - 1]
    BY <2>1, <1>1, Zenon
  <2>4. QED
    BY <2>2, <2>3
<1>8. QED
  BY Zenon, <1>2, <1>3, <1>4, <1>5, <1>6, <1>7 DEF s

LEMMA LeftIs ==
    ASSUME NEW in \in Inputs, NEW s \in Seq(Cell), Len(s) = in.cursor,
           \A i \in 1 .. in.cursor : s[i] = in.buffer[i - 1]
    PROVE  LeftOf(in) = s
<1>1. /\ LeftOf(in) \in Seq(Cell) /\ Len(LeftOf(in)) = Len(s)
      /\ \A i \in 1 .. Len(LeftOf(in)) : LeftOf(in)[i] = s[i]
  BY HalvesOf
<1>2. QED
  BY <1>1, SeqEqual, Zenon

LEMMA RightIs ==
    ASSUME NEW in \in Inputs, NEW s \in Seq(Cell), Len(s) = in.len - in.cursor,
           \A i \in 1 .. in.len - in.cursor : s[i] = in.buffer[(in.cursor + i) - 1]
    PROVE  RightOf(in) = s
<1>1. /\ RightOf(in) \in Seq(Cell) /\ Len(RightOf(in)) = Len(s)
      /\ \A i \in 1 .. Len(RightOf(in)) : RightOf(in)[i] = s[i]
  BY Zenon, HalvesOf
<1>2. QED
  BY <1>1, SeqEqual, Zenon

\* A line copied into the buffer stands left of the cursor.
LEMMA CopiedLine ==
    ASSUME NEW in \in Inputs, NEW line \in Seq(Cell), Len(line) < SHELL_BUFFER_SIZE
    PROVE  /\ Copied(in, line) \in Inputs
           /\ LeftOf(Copied(in, line)) = line /\ RightOf(Copied(in, line)) = <<>>
<1> DEFINE c == Copied(in, line)
<1>1. c \in Inputs /\ c.cursor = Len(line) /\ c.len = Len(line)
  BY DEF Copied, Inputs, Places, Cell
<1>2. \A i \in 1 .. Len(line) : c.buffer[i - 1] = line[i]
  BY DEF Copied, Inputs, Places
<1>3. LeftOf(c) = line
  BY <1>1, <1>2, LeftIs
<1>4. RightOf(c) = <<>>
  BY <1>1, HalvesOf, EmptySeq
<1>5. QED
  BY <1>1, <1>3, <1>4

\* The line is emptied.
LEMMA EmptyLine ==
    ASSUME NEW in \in Inputs, in.len = 0
    PROVE  LeftOf(in) = <<>> /\ RightOf(in) = <<>>
  BY HalvesOf, EmptySeq DEF Inputs, Places

LEMMA EmptiedLine ==
    ASSUME NEW in \in Inputs
    PROVE  /\ Empty(in) \in Inputs /\ Empty(in).len = 0
           /\ LeftOf(Empty(in)) = <<>> /\ RightOf(Empty(in)) = <<>>
<1>1. Empty(in) \in Inputs /\ Empty(in).len = 0
  BY DEF Empty, Inputs, Places, Cell
<1>2. QED
  BY <1>1, EmptyLine

-----------------------------------------------------------------------------
(* The ring of lines. *)

\* The cell of the n-th line counts back from the head, and wraps once at most.
Wrapped(x) == IF x < 0 THEN x + HISTORY_SIZE ELSE x
NextHead(head) == IF head + 1 = HISTORY_SIZE THEN 0 ELSE head + 1
NextCount(count) == IF count < HISTORY_SIZE THEN count + 1 ELSE count
Dropped(count) == IF count = HISTORY_SIZE THEN 1 ELSE 0

LEMMA RingArithmetic ==
    ASSUME NEW count \in 0 .. HISTORY_SIZE, NEW head \in 0 .. HISTORY_SIZE - 1,
           NEW n \in 0 .. count - 1
    PROVE  /\ (((head + HISTORY_SIZE - count) % HISTORY_SIZE) + n) % HISTORY_SIZE
                = Wrapped((head - count) + n)
           /\ Wrapped((head - count) + n) \in 0 .. HISTORY_SIZE - 1
<1> DEFINE H == HISTORY_SIZE
           start == (head + H - count) % H
<1>1. head + H - count \in 0 .. 2 * H - 1
  OBVIOUS
<1>2. start = IF head < count THEN head + H - count ELSE head - count
  <2>1. CASE head < count
    <3>1. head + H - count \in 0 .. H - 1
      BY <2>1
    <3>2. QED
      BY Zenon, <3>1, <2>1, Remainder
  <2>2. CASE ~ head < count
    <3>1. head + H - count \in H .. 2 * H - 1 /\ (head + H - count) - H = head - count
      BY <2>2
    <3>2. QED
      BY Zenon, <3>1, <2>2, Remainder
  <2>3. QED
    BY <2>1, <2>2
<1> HIDE DEF start
<1>3. start \in 0 .. H - 1
  BY <1>2
<1>4. CASE start + n < H
  <2>1. start + n \in 0 .. H - 1
    BY <1>3, <1>4
  <2>2. (start + n) % H = start + n
    BY <2>1, Remainder
  <2>3. start + n = Wrapped((head - count) + n)
    BY <1>2, <1>4 DEF Wrapped
  <2>4. QED
    BY <2>1, <2>2, <2>3 DEF start
<1>5. CASE ~ start + n < H
  <2>1. start + n \in H .. 2 * H - 1
    BY <1>3, <1>5
  <2>2. (start + n) % H = (start + n) - H
    BY <2>1, Remainder
  <2>3. (start + n) - H = Wrapped((head - count) + n)
    BY <1>2, <1>3, <1>5 DEF Wrapped
  <2>4. (start + n) - H \in 0 .. H - 1
    BY <2>1
  <2>5. QED
    BY <2>2, <2>3, <2>4 DEF start
<1>6. QED
  BY <1>4, <1>5

LEMMA RingPlace ==
    ASSUME NEW h \in Histories, NEW n \in 0 .. h.count - 1
    PROVE  /\ shell_history_array_index(h, n) \in 0 .. HISTORY_SIZE - 1
           /\ shell_history_array_index(h, n) = Wrapped((h.head - h.count) + n)
<1>1. h.count \in 0 .. HISTORY_SIZE /\ h.head \in 0 .. HISTORY_SIZE - 1
  BY DEF Histories
<1>2. ~ n >= h.count
  BY <1>1
<1>3. shell_history_array_index(h, n) =
        (((h.head + HISTORY_SIZE - h.count) % HISTORY_SIZE) + n) % HISTORY_SIZE
  BY <1>2, Zenon DEF shell_history_array_index
<1>4. QED
  BY <1>1, <1>3, RingArithmetic, ZenonT(60)

LEMMA RememberedLines ==
    ASSUME NEW h \in Histories
    PROVE  /\ Remembered(h) \in Seq(Seq(Cell)) /\ Len(Remembered(h)) = h.count
           /\ \A n \in 1 .. h.count :
                /\ Remembered(h)[n] = h.entries[shell_history_array_index(h, n - 1)]
                /\ Len(Remembered(h)[n]) < SHELL_BUFFER_SIZE
<1>1. h.count \in Nat /\ \A n \in 1 .. h.count : n - 1 \in 0 .. h.count - 1
  BY DEF Histories
<1>2. \A n \in 1 .. h.count : shell_history_array_index(h, n - 1) \in 0 .. HISTORY_SIZE - 1
  BY <1>1, RingPlace
<1>3. Remembered(h) \in [1 .. h.count -> Seq(Cell)]
  BY <1>2 DEF Remembered, Histories
<1>4. \A n \in 1 .. h.count : Remembered(h)[n] = h.entries[shell_history_array_index(h, n - 1)]
  BY DEF Remembered
<1>5. \A n \in 1 .. h.count : Len(Remembered(h)[n]) < SHELL_BUFFER_SIZE
  BY Zenon, <1>2, <1>4 DEF Histories
<1>6. QED
  BY <1>1, <1>3, <1>4, <1>5

\* Adding a line moves every line but the oldest of a full ring on by none or one.
LEMMA RingShift ==
    ASSUME NEW count \in 0 .. HISTORY_SIZE, NEW head \in 0 .. HISTORY_SIZE - 1
    PROVE  /\ NextHead(head) \in 0 .. HISTORY_SIZE - 1 /\ NextHead(head) = (head + 1) % HISTORY_SIZE
           /\ NextCount(count) \in 1 .. HISTORY_SIZE
           /\ NextCount(count) = (count + 1) - Dropped(count)
           /\ Dropped(count) \in {0, 1} /\ Dropped(count) <= count
           /\ \A n \in 1 .. NextCount(count) - 1 :
                /\ Dropped(count) + n \in 1 .. count
                /\ Wrapped((NextHead(head) - NextCount(count)) + (n - 1))
                     = Wrapped((head - count) + ((Dropped(count) + n) - 1))
                /\ Wrapped((NextHead(head) - NextCount(count)) + (n - 1)) # head
           /\ Wrapped((NextHead(head) - NextCount(count)) + (NextCount(count) - 1)) = head
<1>1. NextHead(head) = (head + 1) % HISTORY_SIZE
  BY NextPlace DEF NextHead
<1>2. QED
  <2> HIDE DEF NextHead
  <2>1. NextHead(head) = IF head + 1 = HISTORY_SIZE THEN 0 ELSE head + 1
    BY DEF NextHead
  <2>2. NextHead(head) \in 0 .. HISTORY_SIZE - 1
    BY <2>1
  <2>3. /\ NextCount(count) \in 1 .. HISTORY_SIZE
        /\ NextCount(count) = (count + 1) - Dropped(count)
        /\ Dropped(count) \in {0, 1} /\ Dropped(count) <= count
    BY DEF NextCount, Dropped
  <2>4. ASSUME NEW n \in 1 .. NextCount(count) - 1
        PROVE  /\ Dropped(count) + n \in 1 .. count
               /\ Wrapped((NextHead(head) - NextCount(count)) + (n - 1))
                    = Wrapped((head - count) + ((Dropped(count) + n) - 1))
               /\ Wrapped((NextHead(head) - NextCount(count)) + (n - 1)) # head
    BY <2>1 DEF NextCount, Dropped, Wrapped
  <2>5. Wrapped((NextHead(head) - NextCount(count)) + (NextCount(count) - 1)) = head
    BY <2>1 DEF NextCount, Wrapped
  <2>6. QED
    BY <1>1, <2>2, <2>3, <2>4, <2>5

\* shell_add_history appends a line, and lets go of the oldest when the ring is full.
LEMMA LineAdded ==
    ASSUME NEW h \in Histories, NEW line \in Seq(Cell), line # <<>>,
           Len(line) < SHELL_BUFFER_SIZE
    PROVE  LET g == shell_add_history(h, line) IN
           /\ g \in Histories /\ g.count > 0 /\ g.index = g.count
           /\ Remembered(g) = LET all == Append(Remembered(h), line) IN
                 SubSeq(all, IF Len(all) > HISTORY_SIZE THEN 2 ELSE 1, Len(all))
<1> DEFINE g == shell_add_history(h, line)
           r == Remembered(h)
           all == Append(r, line)
           from == IF Len(all) > HISTORY_SIZE THEN 2 ELSE 1
           skip == Dropped(h.count)
<1>1. /\ h.count \in 0 .. HISTORY_SIZE /\ h.head \in 0 .. HISTORY_SIZE - 1
      /\ h.entries \in [0 .. HISTORY_SIZE - 1 -> Seq(Cell)]
      /\ \A i \in 0 .. HISTORY_SIZE - 1 : Len(h.entries[i]) < SHELL_BUFFER_SIZE
  BY DEF Histories
<1>2. /\ NextHead(h.head) \in 0 .. HISTORY_SIZE - 1
      /\ NextCount(h.count) \in 1 .. HISTORY_SIZE
      /\ NextCount(h.count) = (h.count + 1) - skip /\ skip \in {0, 1} /\ skip <= h.count
  BY <1>1, RingShift, Zenon
<1>3. /\ g.entries = [h.entries EXCEPT ![h.head] = line]
      /\ g.count = NextCount(h.count) /\ g.head = NextHead(h.head) /\ g.index = g.count
      /\ g = [entries |-> g.entries, count |-> g.count, head |-> g.head, index |-> g.index]
  <2>1. NextHead(h.head) = (h.head + 1) % HISTORY_SIZE
    BY <1>1, RingShift, Zenon
  <2>2. QED
    BY <2>1 DEF shell_add_history, NextCount
<1> HIDE DEF g, skip
<1>4. g \in Histories /\ g.count > 0
  <2>1. /\ g.count \in 0 .. HISTORY_SIZE /\ g.head \in 0 .. HISTORY_SIZE - 1
        /\ g.index \in 0 .. IndexLimit - 1 /\ g.count > 0 /\ g.index <= g.count
    BY <1>2, <1>3
  <2>2. /\ g.entries \in [0 .. HISTORY_SIZE - 1 -> Seq(Cell)]
        /\ \A i \in 0 .. HISTORY_SIZE - 1 : Len(g.entries[i]) < SHELL_BUFFER_SIZE
    BY <1>1, <1>3
  <2>3. g \in [entries : [0 .. HISTORY_SIZE - 1 -> Seq(Cell)], count : 0 .. HISTORY_SIZE,
              head : 0 .. HISTORY_SIZE - 1, index : 0 .. IndexLimit - 1]
    BY Zenon, <1>3, <2>1, <2>2
  <2>4. QED
    BY <2>1, <2>2, <2>3 DEF Histories
<1>5. /\ all \in Seq(Seq(Cell)) /\ Len(all) = h.count + 1 /\ all[h.count + 1] = line
      /\ \A n \in 1 .. h.count : all[n] = r[n]
  <2>1. r \in Seq(Seq(Cell)) /\ Len(r) = h.count
    BY RememberedLines
  <2>2. QED
    BY <1>1, <2>1, AppendProperties
<1>6. from = 1 + skip /\ from \in 1 .. Len(all) /\ Len(all) + 1 - from = g.count
  <2>1. skip = IF h.count = HISTORY_SIZE THEN 1 ELSE 0
    BY DEF Dropped, skip
  <2>2. h.count \in 0 .. HISTORY_SIZE /\ Len(all) = h.count + 1 /\ g.count = (h.count + 1) - skip
    BY <1>1, <1>2, <1>3, <1>5, Zenon
  <2> HIDE DEF all
  <2>3. QED
    BY <2>1, <2>2
<1> HIDE DEF all, from
<1>7. /\ SubSeq(all, from, Len(all)) \in Seq(Seq(Cell))
      /\ Len(SubSeq(all, from, Len(all))) = g.count
      /\ \A n \in 1 .. g.count : SubSeq(all, from, Len(all))[n] = all[skip + n]
  <2>1. /\ SubSeq(all, from, Len(all)) \in Seq(Seq(Cell))
        /\ Len(SubSeq(all, from, Len(all))) = Len(all) + 1 - from
        /\ \A n \in 1 .. Len(all) + 1 - from :
             SubSeq(all, from, Len(all))[n] = all[from + n - 1]
    BY ZenonT(60), <1>6, <1>5, TailPart
  <2>2. \A n \in 1 .. g.count : from + n - 1 = skip + n
    BY <1>6, <1>2
  <2>3. QED
    BY Zenon, <1>6, <2>1, <2>2
<1>8. Remembered(g) \in Seq(Seq(Cell)) /\ Len(Remembered(g)) = g.count
  BY <1>4, RememberedLines
<1>9. ASSUME NEW n \in 1 .. g.count
      PROVE  Remembered(g)[n] = all[skip + n]
  <2> DEFINE there == shell_history_array_index(g, n - 1)
             here  == shell_history_array_index(h, (skip + n) - 1)
  <2>1. n - 1 \in 0 .. g.count - 1
    BY <1>2, <1>3
  <2>2. Remembered(g)[n] = g.entries[there]
    BY <1>4, RememberedLines, Zenon
  <2>3. there = Wrapped((g.head - g.count) + (n - 1)) /\ there \in 0 .. HISTORY_SIZE - 1
    BY <1>4, <2>1, RingPlace, Zenon
  <2>4. CASE n = g.count
    <3>1. there = h.head
      <4>1. Wrapped((NextHead(h.head) - NextCount(h.count)) + (NextCount(h.count) - 1)) = h.head
        BY <1>1, RingShift, Zenon
      <4>2. there = Wrapped((NextHead(h.head) - NextCount(h.count)) + (NextCount(h.count) - 1))
        BY <2>3, <2>4, <1>3, Zenon
      <4>3. QED
        BY <4>1, <4>2, Zenon
    <3>2. skip + n = h.count + 1
      BY <2>4, <1>1, <1>2, <1>3
    <3>3. QED
      BY Zenon, <2>2, <3>1, <3>2, <1>1, <1>3, <1>5
  <2>5. CASE n # g.count
    <3>1. n \in 1 .. NextCount(h.count) - 1
      BY <2>5, <1>2, <1>3
    <3>2. /\ skip + n \in 1 .. h.count /\ there # h.head
          /\ there = Wrapped((h.head - h.count) + ((skip + n) - 1))
      <4>1. /\ skip + n \in 1 .. h.count
            /\ Wrapped((NextHead(h.head) - NextCount(h.count)) + (n - 1))
                 = Wrapped((h.head - h.count) + ((skip + n) - 1))
            /\ Wrapped((NextHead(h.head) - NextCount(h.count)) + (n - 1)) # h.head
        <5>1. \A m \in 1 .. NextCount(h.count) - 1 :
                /\ Dropped(h.count) + m \in 1 .. h.count
                /\ Wrapped((NextHead(h.head) - NextCount(h.count)) + (m - 1))
                     = Wrapped((h.head - h.count) + ((Dropped(h.count) + m) - 1))
                /\ Wrapped((NextHead(h.head) - NextCount(h.count)) + (m - 1)) # h.head
          BY <1>1, RingShift, Zenon
        <5>2. QED
          BY <3>1, <5>1, Zenon DEF skip
      <4>2. there = Wrapped((NextHead(h.head) - NextCount(h.count)) + (n - 1))
        BY <2>3, <1>3, Zenon
      <4>3. QED
        BY <4>1, <4>2, Zenon
    <3>3. (skip + n) - 1 \in 0 .. h.count - 1
      BY SMTT(30), <3>2, <1>1
    <3>4. here = there
      BY <3>2, <3>3, RingPlace, Zenon
    <3>5. r[skip + n] = h.entries[here]
      BY <3>2, RememberedLines, Zenon
    <3>6. QED
      BY Zenon, <3>2, <3>4, <3>5, <2>2, <2>3, <1>1, <1>3, <1>5
  <2>6. QED
    BY <2>4, <2>5
<1>10. Remembered(g) = SubSeq(all, from, Len(all))
  <2>1. \A i \in 1 .. Len(Remembered(g)) : Remembered(g)[i] = SubSeq(all, from, Len(all))[i]
    BY <1>7, <1>8, <1>9
  <2>2. QED
    BY <2>1, <1>7, <1>8, SeqEqual, Zenon
<1>11. QED
  BY <1>3, <1>4, <1>10 DEF all, from, g

-----------------------------------------------------------------------------
(* The blanks at the ends of a line. *)

LEMMA StartFound ==
    ASSUME NEW in \in Inputs
    PROVE  /\ Start(in) \in 0 .. in.len /\ Leading(in, Start(in))
           /\ Start(in) < in.len => in.buffer[Start(in)] # Blank
<1> DEFINE U == {n \in 0 .. in.len : Leading(in, n)}
<1>1. in.len \in Nat
  BY DEF Inputs, Places
<1>2. 0 \in U /\ U \subseteq Nat /\ \A n \in U : n <= in.len
  BY <1>1 DEF Leading
<1>3. PICK n \in U : \A m \in U : m <= n
  <2> HIDE DEF U
  <2>1. QED
    BY <1>1, <1>2, GreatestNatural, Zenon
<1>4. ASSUME n < in.len PROVE in.buffer[n] # Blank
  <2>1. SUFFICES ASSUME in.buffer[n] = Blank PROVE FALSE
    OBVIOUS
  <2>2. \A i \in 0 .. (n + 1) - 1 : i \in 0 .. n - 1 \/ i = n
    BY <1>1, <1>3
  <2>3. n + 1 \in U
    BY <2>1, <2>2, <1>1, <1>3, <1>4 DEF Leading
  <2>4. QED
    BY <2>3, <1>1, <1>3
<1>5. QED
  BY Zenon, <1>3, <1>4 DEF Start

LEMMA EndFound ==
    ASSUME NEW in \in Inputs
    PROVE  /\ End(in) \in Start(in) .. in.len
           /\ \A i \in End(in) .. in.len - 1 : in.buffer[i] = Blank
           /\ End(in) > Start(in) => in.buffer[End(in) - 1] # Blank
<1> DEFINE T == {n \in Start(in) .. in.len : \A i \in n .. in.len - 1 : in.buffer[i] = Blank}
<1>1. in.len \in Nat /\ Start(in) \in 0 .. in.len
  BY StartFound DEF Inputs, Places
<1>2. in.len \in T /\ T \subseteq Nat
  BY <1>1
<1>3. PICK n \in T : \A m \in T : n <= m
  <2> HIDE DEF T
  <2>1. T # {}
    BY <1>2
  <2>2. QED
    BY <1>2, <2>1, LeastNatural, Zenon
<1>4. ASSUME n > Start(in) PROVE in.buffer[n - 1] # Blank
  <2>1. SUFFICES ASSUME in.buffer[n - 1] = Blank PROVE FALSE
    OBVIOUS
  <2>2. \A i \in n - 1 .. in.len - 1 : i = n - 1 \/ i \in n .. in.len - 1
    BY <1>1, <1>3
  <2>3. n - 1 \in T
    BY <2>1, <2>2, <1>1, <1>3, <1>4
  <2>4. QED
    BY <2>3, <1>1, <1>3
<1>5. QED
  BY Zenon, <1>3, <1>4 DEF End

\* shell_normalize_input takes the blanks off, and keeps what is between them.
LEMMA Normalised ==
    ASSUME NEW in \in Inputs
    PROVE  /\ shell_normalize_input(in).buffer \in [Places -> Cell]
           /\ shell_normalize_input(in) = [buffer |-> shell_normalize_input(in).buffer,
                len |-> shell_normalize_input(in).len, cursor |-> in.cursor]
           /\ Text(shell_normalize_input(in)) = Abstract!Trimmed(Text(in))
           /\ Text(shell_normalize_input(in)) \in Seq(Cell)
           /\ Len(Text(shell_normalize_input(in))) < SHELL_BUFFER_SIZE
<1> DEFINE m == shell_normalize_input(in)
           s == Text(in)
           a == Start(in)
           e == End(in)
           inked == {i \in DOMAIN s : s[i] # Blank}
<1>1. /\ in.len \in Places /\ in.len \in Nat /\ in.buffer \in [Places -> Cell]
      /\ in = [buffer |-> in.buffer, len |-> in.len, cursor |-> in.cursor]
  BY DEF Inputs, Places
<1>2. /\ a \in 0 .. in.len /\ (\A i \in 0 .. a - 1 : in.buffer[i] = Blank)
      /\ a < in.len => in.buffer[a] # Blank
  BY StartFound DEF Leading
<1>3. /\ e \in a .. in.len /\ (\A i \in e .. in.len - 1 : in.buffer[i] = Blank)
      /\ e > a => in.buffer[e - 1] # Blank
  BY EndFound
<1>4. /\ s \in Seq(Cell) /\ Len(s) = in.len /\ DOMAIN s = 1 .. in.len
      /\ \A i \in 1 .. in.len : s[i] = in.buffer[i - 1]
  BY Zenon, TextOf DEF Text
<1> HIDE DEF a, e, s
<1>5. /\ m.buffer = [i \in Places |-> IF i < e - a THEN in.buffer[i + a]
                                      ELSE IF i = e - a THEN Nul ELSE in.buffer[i]]
      /\ m.len = e - a
      /\ m = [buffer |-> m.buffer, len |-> m.len, cursor |-> in.cursor]
  BY <1>1 DEF shell_normalize_input, a, e
<1> HIDE DEF m
<1>6. e - a \in 0 .. in.len /\ \A i \in 0 .. (e - a) - 1 : i + a \in Places /\ i \in Places
  BY SMTT(30), <1>1, <1>2, <1>3 DEF Places
<1>7. m.buffer \in [Places -> Cell]
  BY <1>1, <1>5, <1>6 DEF Cell, Places
<1>8. /\ Text(m) \in Seq(Cell) /\ Len(Text(m)) = e - a
      /\ \A i \in 1 .. e - a : Text(m)[i] = in.buffer[(i - 1) + a]
  <2>1. \A i \in 1 .. e - a : i - 1 \in 0 .. (e - a) - 1
    BY <1>6
  <2>2. \A i \in 1 .. e - a : m.buffer[i - 1] = in.buffer[(i - 1) + a] /\ m.buffer[i - 1] \in Cell
    BY <2>1, <1>5, <1>6, <1>7
  <2>3. Text(m) = [i \in 1 .. e - a |-> m.buffer[i - 1]]
    BY <1>5 DEF Text
  <2>4. QED
    BY <2>2, <2>3, <1>6
<1>9. Text(m) = Abstract!Trimmed(s)
  <2>1. CASE inked = {}
    <3>1. a = in.len
      <4>1. SUFFICES ASSUME a < in.len PROVE FALSE
        BY <1>1, <1>2
      <4>2. a + 1 \in 1 .. in.len /\ (a + 1) - 1 = a
        BY <4>1, <1>1, <1>2
      <4>3. s[a + 1] # Blank
        BY <4>1, <4>2, <1>2, <1>4
      <4>4. QED
        BY <4>2, <4>3, <2>1, <1>4
    <3>2. Len(Text(m)) = 0
      BY <3>1, <1>1, <1>3, <1>8
    <3>3. Text(m) = <<>>
      BY <3>2, <1>8, EmptySeq
    <3>4. QED
      BY Zenon, <3>3, <2>1 DEF Abstract!Trimmed, Abstract!Blank, Blank
  <2>2. CASE inked # {}
    <3>1. PICK k \in 1 .. in.len : in.buffer[k - 1] # Blank
      BY <2>2, <1>4
    <3>2. a < in.len /\ a <= k - 1
      BY <3>1, <1>1, <1>2
    <3>3. a < e
      BY <3>1, <3>2, <1>1, <1>2, <1>3
    <3>4. a + 1 \in inked /\ \A j \in inked : a + 1 <= j
      <4>1. a + 1 \in 1 .. in.len /\ (a + 1) - 1 = a
        BY <3>2, <1>1, <1>2
      <4>2. a + 1 \in inked
        BY <4>1, <3>2, <1>2, <1>4
      <4>3. ASSUME NEW j \in inked PROVE a + 1 <= j
        <5>1. j \in 1 .. in.len /\ in.buffer[j - 1] # Blank
          BY <1>4
        <5>2. QED
          BY <5>1, <1>1, <1>2
      <4>4. QED
        BY <4>2, <4>3
    <3>5. e \in inked /\ \A j \in inked : e >= j
      <4>1. e \in 1 .. in.len
        BY <3>3, <1>1, <1>2, <1>3
      <4>2. e \in inked
        BY <4>1, <3>3, <1>3, <1>4
      <4>3. ASSUME NEW j \in inked PROVE e >= j
        <5>1. j \in 1 .. in.len /\ in.buffer[j - 1] # Blank
          BY <1>4
        <5>2. QED
          BY <5>1, <1>1, <1>2, <1>3
      <4>4. QED
        BY <4>2, <4>3
    <3>6. (CHOOSE i \in inked : \A j \in inked : i <= j) = a + 1
      <4>1. \A i \in inked : (\A j \in inked : i <= j) => i = a + 1
        BY <3>4, <1>4, <1>2
      <4>2. QED
        BY <4>1, <3>4
    <3>7. (CHOOSE i \in inked : \A j \in inked : i >= j) = e
      <4>1. \A i \in inked : (\A j \in inked : i >= j) => i = e
        BY <3>5, <1>4, <1>2, <1>3
      <4>2. QED
        BY <4>1, <3>5
    <3>8. Abstract!Trimmed(s) = SubSeq(s, a + 1, e)
      BY Zenon, <2>2, <3>6, <3>7 DEF Abstract!Trimmed, Abstract!Blank, Blank
    <3>9. /\ SubSeq(s, a + 1, e) \in Seq(Cell) /\ Len(SubSeq(s, a + 1, e)) = e - a
          /\ \A i \in 1 .. e - a : SubSeq(s, a + 1, e)[i] = s[a + i]
      BY <1>2, <1>3, <1>4, MiddlePart
    <3>10. \A i \in 1 .. e - a : s[a + i] = in.buffer[(i - 1) + a]
      <4>1. \A i \in 1 .. e - a : a + i \in 1 .. in.len /\ (a + i) - 1 = (i - 1) + a
        BY <1>1, <1>2, <1>3
      <4>2. QED
        BY <4>1, <1>4
    <3>11. \A i \in 1 .. Len(Text(m)) : Text(m)[i] = SubSeq(s, a + 1, e)[i]
      BY Zenon, <1>8, <3>9, <3>10
    <3>12. QED
      BY <3>8, <3>9, <3>11, <1>8, SeqEqual, Zenon
  <2>3. QED
    BY <2>1, <2>2
<1>10. Len(Text(m)) < SHELL_BUFFER_SIZE
  BY <1>1, <1>6, <1>8 DEF Places
<1>11. QED
  BY <1>5, <1>7, <1>8, <1>9, <1>10 DEF m, s

-----------------------------------------------------------------------------
(* The row. *)

\* shell_print_buffer brings any row that shows a line to show the new one.
LEMMA Printed ==
    ASSUME NEW in \in Inputs, NEW to \in Inputs, NEW r, Drawn(r, in)
    PROVE  Drawn(shell_print_buffer(r, to), to)
<1>1. /\ to.len \in Places /\ to.buffer \in [Places -> Cell] /\ Blank \in Cell
      /\ DOMAIN r.cells = Places /\ r.cells \in [Places -> Cell]
  BY DEF Inputs, Drawn, Cell
<1>2. \A i \in Places : r.cells[i] = IF i < r.rendered THEN in.buffer[i] ELSE Blank
  BY DEF Drawn
<1>3. QED
  BY <1>1, <1>2 DEF shell_print_buffer, Drawn

LEMMA Cleared ==
    ASSUME NEW in \in Inputs, NEW to \in Inputs, to.len = 0, NEW r, Drawn(r, in)
    PROVE  Drawn(shell_clear_line(r), to) /\ Drawn(NewRow, to)
<1>1. /\ 0 \in Places /\ Blank \in Cell /\ DOMAIN r.cells = Places /\ r.cells \in [Places -> Cell]
  BY DEF Drawn, Cell, Places
<1>2. \A i \in Places : r.cells[i] = IF i < r.rendered THEN in.buffer[i] ELSE Blank
  BY DEF Drawn
<1>3. \A i \in Places : ~ i < 0
  BY DEF Places
<1>4. Drawn(shell_clear_line(r), to)
  BY <1>1, <1>2, <1>3 DEF shell_clear_line, Drawn
<1>5. Drawn(NewRow, to)
  BY <1>1, <1>3 DEF NewRow, Drawn, Places
<1>6. QED
  BY <1>4, <1>5

-----------------------------------------------------------------------------
(* One lemma for each key: the step keeps the invariant and is a step of LineSpec. *)

LEMMA TypeStep ==
    ASSUME EditorInv, NEW c \in LineChars, TypeChar(c)
    PROVE  EditorInv' /\ Abstract!Insert(c)
<1>1. input \in Inputs /\ history \in Histories /\ Drawn(row, input)
  BY DEF EditorInv
<1>2. /\ input.len \in Nat /\ input.cursor \in Nat /\ input.cursor <= input.len
      /\ input.len + 1 \in Places /\ input.buffer \in [Places -> Cell]
      /\ DOMAIN input.buffer = Places
  BY <1>1 DEF Inputs, Places, TypeChar
<1>3. /\ input'.buffer = [i \in Places |-> IF i = input.len + 1 THEN Nul
                             ELSE IF i = input.cursor THEN c
                             ELSE IF i \in (input.cursor + 1)..input.len THEN input.buffer[i - 1]
                             ELSE input.buffer[i]]
      /\ input'.len = input.len + 1 /\ input'.cursor = input.cursor + 1
      /\ input' = [buffer |-> input'.buffer, len |-> input'.len, cursor |-> input'.cursor]
      /\ history' = history /\ row' = shell_print_buffer(row, input')
  BY <1>2 DEF TypeChar
<1>4. \A i \in Places : i \in (input.cursor + 1) .. input.len => i - 1 \in Places
  BY <1>2 DEF Places
<1>5. input' \in Inputs
  <2>1. input'.buffer \in [Places -> Cell]
    BY <1>2, <1>3, <1>4 DEF Cell
  <2>2. input'.len \in Places /\ input'.cursor \in Places /\ input'.cursor <= input'.len
    BY <1>2, <1>3 DEF Places
  <2>3. QED
    BY <2>1, <2>2, <1>3 DEF Inputs
<1>6. LeftOf(input') = Append(LeftOf(input), c)
  <2>1. /\ LeftOf(input) \in Seq(Cell) /\ Len(LeftOf(input)) = input.cursor
        /\ \A i \in 1 .. input.cursor : LeftOf(input)[i] = input.buffer[i - 1]
    BY <1>1, HalvesOf
  <2>2. /\ Append(LeftOf(input), c) \in Seq(Cell) /\ Len(Append(LeftOf(input), c)) = input'.cursor
        /\ Append(LeftOf(input), c)[input.cursor + 1] = c
        /\ \A i \in 1 .. input.cursor : Append(LeftOf(input), c)[i] = LeftOf(input)[i]
    BY <2>1, <1>2, <1>3, AppendProperties DEF Cell
  <2>3. input'.buffer[(input.cursor + 1) - 1] = c
    BY <1>2, <1>3 DEF Places
  <2>4. \A i \in 1 .. input.cursor : input'.buffer[i - 1] = input.buffer[i - 1]
    BY SMTT(30), <1>2, <1>3 DEF Places
  <2>5. \A i \in 1 .. input'.cursor : i \in 1 .. input.cursor \/ i = input.cursor + 1
    BY <1>2, <1>3
  <2>6. \A i \in 1 .. input'.cursor : Append(LeftOf(input), c)[i] = input'.buffer[i - 1]
    BY <2>1, <2>2, <2>3, <2>4, <2>5
  <2>7. QED
    BY Zenon, <1>5, <2>2, <2>6, LeftIs
<1>7. RightOf(input') = RightOf(input)
  <2>1. /\ RightOf(input) \in Seq(Cell) /\ Len(RightOf(input)) = input.len - input.cursor
        /\ \A i \in 1 .. input.len - input.cursor :
             RightOf(input)[i] = input.buffer[(input.cursor + i) - 1]
    BY <1>1, HalvesOf
  <2>2. input'.len - input'.cursor = input.len - input.cursor
    BY <1>2, <1>3
  <2>3. ASSUME NEW i \in 1 .. input.len - input.cursor
        PROVE  input'.buffer[(input'.cursor + i) - 1] = input.buffer[(input.cursor + i) - 1]
    <3>1. /\ ((input.cursor + 1) + i) - 1 = input.cursor + i
          /\ input.cursor + i \in (input.cursor + 1) .. input.len
          /\ input.cursor + i \in Places /\ input.cursor + i # input.len + 1
          /\ input.cursor + i # input.cursor
      BY <1>2 DEF Places
    <3>2. QED
      BY <3>1, <1>3
  <2>4. QED
    BY <1>5, <2>1, <2>2, <2>3, RightIs
<1>8. Drawn(row', input')
  BY <1>1, <1>3, <1>5, Printed
<1>9. Len(Abstract!Line) < SHELL_BUFFER_SIZE - 1
  <2>1. Abstract!Line = Text(input) /\ Len(Text(input)) = input.len
    BY <1>1, HalvesOf, TextOf DEF Abstract!Line
  <2>2. QED
    BY <2>1 DEF TypeChar
<1>10. EditorInv'
  BY <1>1, <1>3, <1>5, <1>8 DEF EditorInv
<1>11. Abstract!Insert(c)
  BY <1>3, <1>6, <1>7, <1>9 DEF Abstract!Insert
<1>12. QED
  BY <1>10, <1>11

LEMMA DeleteStep ==
    ASSUME EditorInv, Delete
    PROVE  EditorInv' /\ Abstract!Backspace
<1>1. input \in Inputs /\ history \in Histories /\ Drawn(row, input)
  BY DEF EditorInv
<1>2. /\ input.len \in Nat /\ input.cursor \in Nat /\ input.cursor <= input.len
      /\ input.len \in Places /\ input.cursor > 0
      /\ input.buffer \in [Places -> Cell] /\ DOMAIN input.buffer = Places
  BY <1>1 DEF Inputs, Places, Delete
<1>3. /\ input'.buffer = [i \in Places |-> IF i = input.len - 1 THEN Nul
                             ELSE IF i \in (input.cursor - 1)..(input.len - 2) THEN input.buffer[i + 1]
                             ELSE input.buffer[i]]
      /\ input'.len = input.len - 1 /\ input'.cursor = input.cursor - 1
      /\ input' = [buffer |-> input'.buffer, len |-> input'.len, cursor |-> input'.cursor]
      /\ history' = history /\ row' = shell_print_buffer(row, input')
  BY <1>2 DEF Delete
<1>4. \A i \in Places : i \in (input.cursor - 1) .. (input.len - 2) => i + 1 \in Places
  BY <1>2 DEF Places
<1>5. input' \in Inputs
  <2>1. input'.buffer \in [Places -> Cell]
    BY <1>2, <1>3, <1>4 DEF Cell
  <2>2. input'.len \in Places /\ input'.cursor \in Places /\ input'.cursor <= input'.len
    BY <1>2, <1>3 DEF Places
  <2>3. QED
    BY <2>1, <2>2, <1>3 DEF Inputs
<1>6. /\ LeftOf(input) \in Seq(Cell) /\ Len(LeftOf(input)) = input.cursor
      /\ \A i \in 1 .. input.cursor : LeftOf(input)[i] = input.buffer[i - 1]
  BY <1>1, HalvesOf
<1>7. LeftOf(input) # <<>>
  BY <1>2, <1>6
<1>8. LeftOf(input') = SubSeq(LeftOf(input), 1, Len(LeftOf(input)) - 1)
  <2> DEFINE s == SubSeq(LeftOf(input), 1, Len(LeftOf(input)) - 1)
  <2>1. /\ s \in Seq(Cell) /\ Len(s) = input'.cursor
        /\ \A i \in 1 .. input'.cursor : s[i] = LeftOf(input)[i]
    <3>1. input.cursor - 1 \in 0 .. Len(LeftOf(input))
      BY <1>2, <1>6
    <3>2. QED
      BY <3>1, <1>3, <1>6, FrontPart
  <2>2. \A i \in 1 .. input'.cursor : input'.buffer[i - 1] = input.buffer[i - 1]
    BY <1>2, <1>3 DEF Places
  <2>3. \A i \in 1 .. input'.cursor : s[i] = input'.buffer[i - 1]
    <3>1. \A i \in 1 .. input'.cursor : i \in 1 .. input.cursor
      BY <1>2, <1>3
    <3>2. QED
      BY <3>1, <2>1, <2>2, <1>6
  <2> HIDE DEF s
  <2>4. LeftOf(input') = s
    BY <1>5, <2>1, <2>3, LeftIs
  <2>5. QED
    BY <2>4 DEF s
<1>9. RightOf(input') = RightOf(input)
  <2>1. /\ RightOf(input) \in Seq(Cell) /\ Len(RightOf(input)) = input.len - input.cursor
        /\ \A i \in 1 .. input.len - input.cursor :
             RightOf(input)[i] = input.buffer[(input.cursor + i) - 1]
    BY <1>1, HalvesOf
  <2>2. input'.len - input'.cursor = input.len - input.cursor
    BY <1>2, <1>3
  <2>3. ASSUME NEW i \in 1 .. input.len - input.cursor
        PROVE  input'.buffer[(input'.cursor + i) - 1] = input.buffer[(input.cursor + i) - 1]
    <3> DEFINE k == ((input.cursor - 1) + i) - 1
    <3>1. /\ k + 1 = (input.cursor + i) - 1
          /\ k \in (input.cursor - 1) .. (input.len - 2)
          /\ k \in Places /\ k # input.len - 1
      BY <1>2 DEF Places
    <3> HIDE DEF k
    <3>2. input'.buffer[k] = input.buffer[k + 1]
      BY <3>1, <1>3
    <3>3. QED
      BY <3>1, <3>2, <1>3 DEF k
  <2>4. QED
    BY <1>5, <2>1, <2>2, <2>3, RightIs
<1>10. EditorInv'
  <2>1. Drawn(row', input')
    BY <1>1, <1>3, <1>5, Printed
  <2>2. QED
    BY <2>1, <1>1, <1>3, <1>5 DEF EditorInv
<1>11. Abstract!Backspace
  BY <1>3, <1>7, <1>8, <1>9 DEF Abstract!Backspace
<1>12. QED
  BY <1>10, <1>11

LEMMA MoveStep ==
    ASSUME EditorInv, NEW to, MoveCursor(to)
    PROVE  /\ EditorInv' /\ history' = history
           /\ input' = [buffer |-> input.buffer, len |-> input.len, cursor |-> to]
<1>1. input \in Inputs /\ history \in Histories /\ Drawn(row, input)
  BY DEF EditorInv
<1>2. /\ input' = [buffer |-> input.buffer, len |-> input.len, cursor |-> to]
      /\ history' = history /\ row' = shell_print_buffer(row, input')
  BY <1>1 DEF MoveCursor, Inputs
<1>3. input' \in Inputs
  BY <1>1, <1>2 DEF MoveCursor, Inputs, Places
<1>4. Drawn(row', input')
  BY <1>1, <1>2, <1>3, Printed
<1>5. QED
  BY <1>1, <1>2, <1>3, <1>4 DEF EditorInv

LEMMA LeftStep ==
    ASSUME EditorInv, MoveCursor(input.cursor - 1)
    PROVE  EditorInv' /\ Abstract!MoveLeft
<1> DEFINE c == input.cursor
           l == LeftOf(input)
           r == RightOf(input)
<1>1. /\ EditorInv' /\ input \in Inputs /\ input' \in Inputs /\ history' = history
      /\ input'.buffer = input.buffer /\ input'.len = input.len /\ input'.cursor = c - 1
  BY MoveStep DEF EditorInv
<1>2. c \in Nat /\ input.len \in Nat /\ c <= input.len /\ c > 0
  BY <1>1 DEF Inputs, Places, MoveCursor
<1>3. /\ l \in Seq(Cell) /\ Len(l) = c /\ \A i \in 1 .. c : l[i] = input.buffer[i - 1]
      /\ r \in Seq(Cell) /\ Len(r) = input.len - c
      /\ \A i \in 1 .. input.len - c : r[i] = input.buffer[(c + i) - 1]
  BY Zenon, <1>1, HalvesOf
<1> HIDE DEF l, r
<1>4. LeftOf(input') = SubSeq(l, 1, Len(l) - 1)
  <2>1. c - 1 \in 0 .. Len(l) /\ \A i \in 1 .. c - 1 : i \in 1 .. c
    BY <1>2, <1>3
  <2>2. /\ SubSeq(l, 1, c - 1) \in Seq(Cell) /\ Len(SubSeq(l, 1, c - 1)) = c - 1
        /\ \A i \in 1 .. c - 1 : SubSeq(l, 1, c - 1)[i] = l[i]
    BY <2>1, <1>3, FrontPart
  <2>3. \A i \in 1 .. c - 1 : SubSeq(l, 1, c - 1)[i] = input.buffer[i - 1]
    BY <2>1, <2>2, <1>3
  <2>4. QED
    BY Zenon, <2>2, <2>3, <1>1, <1>3, LeftIs
<1>5. RightOf(input') = <<l[Len(l)]>> \o r
  <2> DEFINE s == <<l[c]>> \o r
  <2>1. l[c] \in Cell /\ l[c] = input.buffer[c - 1]
    BY <1>2, <1>3
  <2>2. /\ s \in Seq(Cell) /\ Len(s) = (input.len - c) + 1 /\ s[1] = l[c]
        /\ \A i \in 1 .. input.len - c : s[i + 1] = r[i]
    BY <2>1, <1>2, <1>3
  <2> HIDE DEF s
  <2>3. ASSUME NEW i \in 1 .. input.len - (c - 1)
        PROVE  s[i] = input.buffer[((c - 1) + i) - 1]
    <3>1. CASE i = 1
      BY <3>1, <2>1, <2>2, <1>2
    <3>2. CASE i # 1
      <4>1. i - 1 \in 1 .. input.len - c /\ (i - 1) + 1 = i /\ (c + (i - 1)) - 1 = ((c - 1) + i) - 1
        BY <3>2, <1>2
      <4>2. QED
        BY SMTT(30), <4>1, <2>2, <1>3
    <3>3. QED
      BY <3>1, <3>2
  <2>4. Len(s) = input.len - (c - 1)
    BY <2>2, <1>2
  <2>5. RightOf(input') = s
    BY <2>2, <2>3, <2>4, <1>1, RightIs
  <2>6. QED
    BY <2>5, <1>3 DEF s
<1>6. l # <<>>
  BY <1>2, <1>3
<1>7. QED
  BY <1>1, <1>4, <1>5, <1>6 DEF Abstract!MoveLeft, l, r

LEMMA RightStep ==
    ASSUME EditorInv, MoveCursor(input.cursor + 1)
    PROVE  EditorInv' /\ Abstract!MoveRight
<1> DEFINE c == input.cursor
           l == LeftOf(input)
           r == RightOf(input)
<1>1. /\ EditorInv' /\ input \in Inputs /\ input' \in Inputs /\ history' = history
      /\ input'.buffer = input.buffer /\ input'.len = input.len /\ input'.cursor = c + 1
  BY MoveStep DEF EditorInv
<1>2. c \in Nat /\ input.len \in Nat /\ c < input.len
  BY <1>1 DEF Inputs, Places, MoveCursor
<1>3. /\ l \in Seq(Cell) /\ Len(l) = c /\ \A i \in 1 .. c : l[i] = input.buffer[i - 1]
      /\ r \in Seq(Cell) /\ Len(r) = input.len - c
      /\ \A i \in 1 .. input.len - c : r[i] = input.buffer[(c + i) - 1]
  BY <1>1, HalvesOf
<1> HIDE DEF l, r
<1>4. r # <<>> /\ Head(r) = r[1] /\ r[1] \in Cell /\ r[1] = input.buffer[(c + 1) - 1]
  <2>1. 1 \in 1 .. input.len - c /\ Len(r) > 0
    BY <1>2, <1>3
  <2>2. QED
    BY <2>1, <1>3
<1>5. LeftOf(input') = Append(l, Head(r))
  <2> DEFINE s == Append(l, Head(r))
  <2>1. /\ s \in Seq(Cell) /\ Len(s) = c + 1 /\ s[c + 1] = r[1]
        /\ \A i \in 1 .. c : s[i] = l[i]
    BY <1>2, <1>3, <1>4, AppendProperties
  <2> HIDE DEF s
  <2>2. \A i \in 1 .. c + 1 : i \in 1 .. c \/ i = c + 1
    BY <1>2
  <2>3. \A i \in 1 .. c + 1 : s[i] = input.buffer[i - 1]
    BY <2>1, <2>2, <1>3, <1>4
  <2>4. LeftOf(input') = s
    BY <2>1, <2>3, <1>1, LeftIs
  <2>5. QED
    BY <2>4 DEF s
<1>6. RightOf(input') = Tail(r)
  <2>1. /\ Tail(r) \in Seq(Cell) /\ Len(Tail(r)) = (input.len - c) - 1
        /\ \A i \in 1 .. (input.len - c) - 1 : Tail(r)[i] = r[i + 1]
    BY <1>2, <1>3, <1>4, HeadTailProperties
  <2>2. \A i \in 1 .. (input.len - c) - 1 :
           i + 1 \in 1 .. input.len - c /\ (c + (i + 1)) - 1 = ((c + 1) + i) - 1
    BY <1>2
  <2>3. \A i \in 1 .. (input.len - c) - 1 : Tail(r)[i] = input.buffer[((c + 1) + i) - 1]
    BY <2>1, <2>2, <1>3
  <2>4. (input.len - c) - 1 = input.len - (c + 1)
    BY <1>2
  <2>5. QED
    BY Zenon, <2>1, <2>3, <2>4, <1>1, RightIs
<1>7. QED
  BY <1>1, <1>4, <1>5, <1>6 DEF Abstract!MoveRight, l, r

-----------------------------------------------------------------------------
(* The walk through the history. *)

\* Moving the index leaves the lines as they are.
LEMMA Turned ==
    ASSUME NEW h \in Histories, NEW k \in 0 .. IndexLimit - 1, h.count > 0 => k <= h.count
    PROVE  /\ [h EXCEPT !.index = k] \in Histories
           /\ [h EXCEPT !.index = k].index = k
           /\ [h EXCEPT !.index = k].count = h.count
           /\ Remembered([h EXCEPT !.index = k]) = Remembered(h)
<1> DEFINE g == [h EXCEPT !.index = k]
<1>1. /\ g.entries = h.entries /\ g.count = h.count /\ g.head = h.head /\ g.index = k
      /\ g \in Histories
  BY Zenon DEF Histories
<1> HIDE DEF g
<1>2. \A n : shell_history_array_index(g, n) = shell_history_array_index(h, n)
  BY <1>1, Zenon DEF shell_history_array_index
<1>3. Remembered(g) = Remembered(h)
  BY <1>1, <1>2 DEF Remembered
<1>4. QED
  BY <1>1, <1>3 DEF g

\* shell_print_history_entry shows the line of the index, or none behind the last.
LEMMA EntryShown ==
    ASSUME EditorInv, NEW h \in Histories, shell_print_history_entry(h)
    PROVE  /\ EditorInv' /\ history' = h /\ RightOf(input') = <<>>
           /\ LeftOf(input') = IF h.index + 1 <= h.count THEN Remembered(h)[h.index + 1] ELSE <<>>
<1>1. input \in Inputs /\ Drawn(row, input) /\ history' = h
  BY DEF EditorInv, shell_print_history_entry
<1>2. h.index \in Nat /\ h.count \in Nat
  BY DEF Histories
<1>3. Empty(input) \in Inputs /\ Empty(input).len = 0
  BY <1>1, EmptiedLine
<1>4. CASE h.index >= h.count
  <2>1. input' = Empty(input) /\ row' = shell_clear_line(row)
    BY <1>4 DEF shell_print_history_entry
  <2>2. Drawn(row', input')
    BY <2>1, <1>1, <1>3, Cleared
  <2>3. LeftOf(input') = <<>> /\ RightOf(input') = <<>>
    BY <2>1, <1>1, EmptiedLine
  <2>4. ~ h.index + 1 <= h.count
    BY <1>2, <1>4
  <2>5. QED
    BY <2>1, <2>2, <2>3, <2>4, <1>1, <1>3 DEF EditorInv
<1>5. CASE ~ h.index >= h.count
  <2> DEFINE line == h.entries[shell_history_array_index(h, h.index)]
  <2>1. input' = Copied(input, line) /\ row' = shell_print_buffer(shell_clear_line(row), input')
    BY <1>5 DEF shell_print_history_entry
  <2>2. h.index + 1 \in 1 .. h.count /\ (h.index + 1) - 1 = h.index /\ h.index + 1 <= h.count
    BY <1>2, <1>5
  <2>3. line = Remembered(h)[h.index + 1] /\ line \in Seq(Cell) /\ Len(line) < SHELL_BUFFER_SIZE
    <3>1. /\ Remembered(h)[h.index + 1] = h.entries[shell_history_array_index(h, (h.index + 1) - 1)]
          /\ Len(Remembered(h)[h.index + 1]) < SHELL_BUFFER_SIZE
      BY <2>2, RememberedLines, Zenon
    <3>2. Remembered(h)[h.index + 1] \in Seq(Cell)
      BY <2>2, RememberedLines
    <3>3. QED
      BY <2>2, <3>1, <3>2, Zenon
  <2> HIDE DEF line
  <2>4. input' \in Inputs /\ LeftOf(input') = line /\ RightOf(input') = <<>>
    BY <2>1, <2>3, <1>1, CopiedLine
  <2>5. Drawn(shell_clear_line(row), Empty(input))
    BY <1>1, <1>3, Cleared
  <2>6. Drawn(row', input')
    BY <2>1, <2>4, <2>5, <1>3, Printed
  <2>7. QED
    BY <2>2, <2>3, <2>4, <2>6, <1>1 DEF EditorInv
<1>6. QED
  BY <1>4, <1>5

\* The step of the walk from one index to the other.
LEMMA Walked ==
    ASSUME EditorInv, NEW k \in 0 .. IndexLimit - 1, history.count > 0 => k <= history.count,
           \/ shell_print_history_entry([history EXCEPT !.index = k])
           \/ /\ history' = [history EXCEPT !.index = k] /\ k = history.count
              /\ input' = Empty(input) /\ row' = shell_clear_line(row)
    PROVE  /\ EditorInv'
           /\ Abstract!Walk(IF history.count = 0 THEN 1 ELSE k + 1)
<1> DEFINE h == [history EXCEPT !.index = k]
           past == Remembered(history)
           to == IF history.count = 0 THEN 1 ELSE k + 1
<1>1. /\ input \in Inputs /\ history \in Histories /\ Drawn(row, input)
      /\ history.count \in Nat
  BY DEF EditorInv, Histories
<1>2. h \in Histories /\ h.index = k /\ h.count = history.count /\ Remembered(h) = past
  BY <1>1, Turned
<1> HIDE DEF h
<1>3. Len(past) = history.count
  BY <1>1, RememberedLines
<1> HIDE DEF past
<1>4. to \in 1 .. history.count + 1 /\ (to <= history.count <=> k + 1 <= history.count)
      /\ (to <= history.count => to = k + 1)
  BY <1>1
<1>5. /\ EditorInv' /\ history' = h /\ RightOf(input') = <<>>
      /\ LeftOf(input') = IF k + 1 <= history.count THEN past[k + 1] ELSE <<>>
  <2>1. CASE shell_print_history_entry(h)
    BY <2>1, <1>2, EntryShown
  <2>2. CASE /\ history' = h /\ k = history.count
             /\ input' = Empty(input) /\ row' = shell_clear_line(row)
    <3>1. Empty(input) \in Inputs /\ Empty(input).len = 0
      BY <1>1, EmptiedLine
    <3>2. Drawn(row', input')
      BY <2>2, <3>1, <1>1, Cleared
    <3>3. LeftOf(input') = <<>> /\ RightOf(input') = <<>>
      BY <2>2, <1>1, EmptiedLine
    <3>4. ~ k + 1 <= history.count
      BY <2>2, <1>1
    <3>5. QED
      BY <2>2, <3>1, <3>2, <3>3, <3>4, <1>2 DEF EditorInv
  <2>3. QED
    BY <2>1, <2>2 DEF h
<1>6. WalkedTo(h) = to
  BY <1>1, <1>2 DEF WalkedTo
<1> HIDE DEF to
<1>7. /\ LeftOf(input') = IF to <= Len(past) THEN past[to] ELSE <<>>
      /\ to \in 1 .. Len(past) + 1
  BY <1>3, <1>4, <1>5
<1>8. Remembered(history') = past /\ WalkedTo(history') = to
  BY <1>2, <1>5, <1>6
<1>9. Abstract!Walk(to)
  BY <1>5, <1>7, <1>8 DEF Abstract!Walk, Abstract!SetLine, past
<1>10. QED
  BY <1>5, <1>9 DEF to

LEMMA PrevStep ==
    ASSUME EditorInv, shell_history_prev
    PROVE  EditorInv' /\ (Abstract!Up \/ Abstract!NothingToShow)
<1>1. /\ history \in Histories /\ history.count \in Nat /\ history.index \in 0 .. IndexLimit - 1
      /\ history.index > 0 /\ (history.count > 0 => history.index <= history.count)
  BY DEF EditorInv, Histories, shell_history_prev
<1>2. /\ history.index - 1 \in 0 .. IndexLimit - 1
      /\ history.count > 0 => history.index - 1 <= history.count
  BY <1>1
<1>3. shell_print_history_entry([history EXCEPT !.index = history.index - 1])
  BY DEF shell_history_prev
<1>4. EditorInv' /\ Abstract!Walk(IF history.count = 0 THEN 1 ELSE (history.index - 1) + 1)
  BY <1>2, <1>3, Walked
<1>5. CASE history.count = 0
  <2>1. Remembered(history) = <<>>
    BY <1>1, <1>5, RememberedLines, EmptySeq
  <2>2. QED
    BY <2>1, <1>4, <1>5 DEF Abstract!NothingToShow
<1>6. CASE history.count # 0
  <2>1. (history.index - 1) + 1 = WalkedTo(history) - 1
    BY <1>1, <1>6 DEF WalkedTo
  <2>2. QED
    BY <2>1, <1>4, <1>6 DEF Abstract!Up
<1>7. QED
  BY <1>5, <1>6

LEMMA NextStep ==
    ASSUME EditorInv, shell_history_next
    PROVE  EditorInv' /\ (Abstract!Down \/ Abstract!NothingToShow)
<1> DEFINE k == IF history.index < LastIndex THEN history.index + 1 ELSE history.count
<1>1. /\ history \in Histories /\ history.count \in 0 .. HISTORY_SIZE
      /\ history.index \in 0 .. IndexLimit - 1
      /\ (history.count > 0 => history.index <= history.count)
  BY DEF EditorInv, Histories
<1>2. LastIndex = IF history.count = 0 THEN IndexLimit - 1 ELSE history.count - 1
  <2>0. IndexLimit \in Nat \ {0}
    OBVIOUS
  <2>1. CASE history.count = 0
    <3>1. history.count - 1 \in (-IndexLimit) .. (-1) /\ (history.count - 1) + IndexLimit = IndexLimit - 1
      BY <2>1
    <3>2. (history.count - 1) % IndexLimit = (history.count - 1) + IndexLimit
      BY <3>1, <2>0, Remainder, Zenon
    <3>3. QED
      BY <3>1, <3>2, <2>1, Zenon DEF LastIndex
  <2>2. CASE history.count # 0
    <3>1. history.count - 1 \in 0 .. IndexLimit - 1
      BY <2>2, <1>1
    <3>2. QED
      BY Zenon, <3>1, <2>0, <2>2, Remainder DEF LastIndex
  <2>3. QED
    BY <2>1, <2>2
<1>3. k \in 0 .. IndexLimit - 1 /\ (history.count > 0 => k <= history.count)
  BY <1>1, <1>2
<1>4. \/ shell_print_history_entry([history EXCEPT !.index = k])
      \/ /\ history' = [history EXCEPT !.index = k] /\ k = history.count
         /\ input' = Empty(input) /\ row' = shell_clear_line(row)
  BY <1>1, <1>2 DEF shell_history_next
<1>5. history.index <= LastIndex
  BY <1>1, <1>2 DEF shell_history_next
<1>6. EditorInv' /\ Abstract!Walk(IF history.count = 0 THEN 1 ELSE k + 1)
  <2> HIDE DEF k
  <2>1. QED
    BY <1>3, <1>4, Walked
<1>7. CASE history.count = 0
  <2>1. Remembered(history) = <<>>
    BY <1>1, <1>7, RememberedLines, EmptySeq
  <2>2. QED
    BY <2>1, <1>6, <1>7 DEF Abstract!NothingToShow
<1>8. CASE history.count # 0
  <2>1. k + 1 = WalkedTo(history) + 1 /\ WalkedTo(history) <= history.count
    BY <1>1, <1>2, <1>5, <1>8 DEF WalkedTo
  <2>2. Len(Remembered(history)) = history.count
    BY <1>1, RememberedLines
  <2> HIDE DEF k
  <2>3. QED
    BY <2>1, <2>2, <1>6, <1>8 DEF Abstract!Down
<1>9. QED
  BY <1>7, <1>8

-----------------------------------------------------------------------------
(* Enter and Ctrl+C. *)

LEMMA EnterStep ==
    ASSUME EditorInv, EnterLine
    PROVE  EditorInv' /\ Abstract!Execute
<1> DEFINE m == shell_normalize_input(input)
           line == Text(m)
<1>1. input \in Inputs /\ history \in Histories /\ Drawn(row, input)
  BY DEF EditorInv
<1>2. /\ m.buffer \in [Places -> Cell] /\ line \in Seq(Cell) /\ Len(line) < SHELL_BUFFER_SIZE
      /\ line = Abstract!Trimmed(Text(input))
  BY <1>1, Normalised
<1>3. Abstract!Line = Text(input)
  BY <1>1, HalvesOf DEF Abstract!Line
<1>4. /\ input' = [buffer |-> m.buffer, len |-> 0, cursor |-> 0] /\ row' = NewRow
      /\ history' = shell_add_history(history, line)
  BY DEF EnterLine
<1> HIDE DEF m, line
<1>5. input' \in Inputs /\ input'.len = 0
  <2>1. 0 \in Places
    BY DEF Places
  <2>2. QED
    BY <2>1, <1>2, <1>4 DEF Inputs
<1>6. Drawn(row', input') /\ LeftOf(input') = <<>> /\ RightOf(input') = <<>>
  BY <1>1, <1>4, <1>5, Cleared, EmptyLine
<1>7. CASE line = <<>>
  <2>1. history' = history
    BY <1>4, <1>7 DEF shell_add_history
  <2>2. EditorInv'
    BY <2>1, <1>1, <1>5, <1>6 DEF EditorInv
  <2>3. Abstract!Execute
    BY <2>1, <1>2, <1>3, <1>6, <1>7 DEF Abstract!Execute, Abstract!SetLine
  <2>4. QED
    BY <2>2, <2>3
<1>8. CASE line # <<>>
  <2>1. /\ history' \in Histories /\ history'.count > 0 /\ history'.index = history'.count
        /\ Remembered(history') = Abstract!Newest(Append(Remembered(history), line))
    BY SMTT(30), <1>1, <1>2, <1>4, <1>8, LineAdded DEF Abstract!Newest
  <2>2. Len(Remembered(history')) = history'.count /\ history'.count \in Nat
    BY <2>1, RememberedLines DEF Histories
  <2>3. WalkedTo(history') = Len(Remembered(history')) + 1
    BY <2>1, <2>2 DEF WalkedTo
  <2>4. EditorInv'
    BY <2>1, <1>5, <1>6 DEF EditorInv
  <2>5. Abstract!Execute
    BY <2>1, <2>3, <1>2, <1>3, <1>6, <1>8 DEF Abstract!Execute, Abstract!SetLine
  <2>6. QED
    BY <2>4, <2>5
<1>9. QED
  BY <1>7, <1>8

LEMMA CancelStep ==
    ASSUME EditorInv, shell_cancel_input
    PROVE  EditorInv' /\ Abstract!Cancel
<1>1. input \in Inputs /\ history \in Histories /\ Drawn(row, input)
  BY DEF EditorInv
<1>2. /\ input' = Empty(input) /\ row' = NewRow /\ history' = history
      /\ Empty(input) \in Inputs /\ Empty(input).len = 0
      /\ LeftOf(Empty(input)) = <<>> /\ RightOf(Empty(input)) = <<>>
  BY <1>1, EmptiedLine DEF shell_cancel_input
<1>3. Drawn(row', input')
  BY <1>1, <1>2, Cleared
<1>4. QED
  BY <1>1, <1>2, <1>3 DEF EditorInv, Abstract!Cancel, Abstract!SetLine

-----------------------------------------------------------------------------
(* The editor. *)

LEMMA EditorStarts ==
    ASSUME EditorInit
    PROVE  EditorInv /\ Abstract!SpecInit
<1>1. /\ input \in Inputs /\ input.len = 0
  BY DEF EditorInit, Inputs, Places, Cell
<1>2. history \in Histories /\ history.count = 0 /\ history.index = 0
  <2>1. <<>> \in Seq(Cell) /\ Len(<<>>) = 0
    OBVIOUS
  <2>2. QED
    BY <2>1 DEF EditorInit, Histories
<1>3. Drawn(row, input)
  <2>1. 0 \in Places /\ Blank \in Cell /\ \A i \in Places : ~ i < 0
    BY DEF Places, Cell
  <2>2. QED
    BY <2>1, <1>1 DEF EditorInit, Drawn, NewRow, Places
<1>4. LeftOf(input) = <<>> /\ RightOf(input) = <<>>
  BY <1>1, EmptyLine
<1>5. Remembered(history) = <<>> /\ WalkedTo(history) = 1
  BY <1>2, RememberedLines, EmptySeq DEF WalkedTo
<1>6. QED
  BY <1>1, <1>2, <1>3, <1>4, <1>5 DEF EditorInv, Abstract!SpecInit

LEMMA EditorSteps ==
    ASSUME EditorInv, [EditorNext]_editorVars
    PROVE  EditorInv' /\ [Abstract!SpecNext]_(Abstract!specVars)
<1>1. CASE UNCHANGED editorVars
  BY <1>1 DEF editorVars, EditorInv, Abstract!specVars
<1>2. CASE EditorNext
  <2>1. ASSUME NEW c \in LineChars, TypeChar(c)
        PROVE  EditorInv' /\ Abstract!SpecNext
    BY <2>1, TypeStep DEF Abstract!SpecNext
  <2>2. CASE Delete
    BY <2>2, DeleteStep DEF Abstract!SpecNext
  <2>3. CASE MoveCursor(input.cursor - 1)
    BY <2>3, LeftStep DEF Abstract!SpecNext
  <2>4. CASE MoveCursor(input.cursor + 1)
    BY <2>4, RightStep DEF Abstract!SpecNext
  <2>5. CASE shell_history_prev
    BY <2>5, PrevStep DEF Abstract!SpecNext
  <2>6. CASE shell_history_next
    BY <2>6, NextStep DEF Abstract!SpecNext
  <2>7. CASE EnterLine
    BY <2>7, EnterStep DEF Abstract!SpecNext
  <2>8. CASE shell_cancel_input
    BY <2>8, CancelStep DEF Abstract!SpecNext
  <2>9. QED
    BY <1>2, <2>1, <2>2, <2>3, <2>4, <2>5, <2>6, <2>7, <2>8 DEF EditorNext
<1>3. QED
  BY <1>1, <1>2

\* The cursor stays within the line and the line within the buffer, every line of the
\* ring fits into the buffer, the index stays within the ring once a line was
\* executed, and the row shows the line.
THEOREM EditorInvariant == EditorSpec => []EditorInv
<1>1. EditorInit => EditorInv
  BY EditorStarts
<1>2. EditorInv /\ [EditorNext]_editorVars => EditorInv'
  BY EditorSteps
<1>3. QED
  BY <1>1, <1>2, PTL DEF EditorSpec

\* The screen shows the line and nothing of what it was before, whatever was typed,
\* deleted, recalled or cancelled (shell_print_buffer, shell_clear_line).
THEOREM ScreenRight == EditorSpec => []ScreenShowsLine
<1>1. EditorInv => ScreenShowsLine
  BY DEF EditorInv, Drawn, ScreenShowsLine
<1>2. QED
  BY <1>1, EditorInvariant, PTL

\* The buffer edited in place and the ring of lines implement a line with a cursor and
\* a walk through the last lines executed (shell_poll_keyboard, shell_add_history,
\* shell_history_prev, shell_history_next, shell_normalize_input).
THEOREM EditorRefines == EditorSpec => EditsALine
<1>1. EditorInit => Abstract!SpecInit
  BY EditorStarts
<1>2. EditorInv /\ [EditorNext]_editorVars => [Abstract!SpecNext]_(Abstract!specVars)
  BY EditorSteps
<1>3. QED
  BY <1>1, <1>2, EditorInvariant, PTL DEF EditorSpec, EditsALine, Abstract!Spec
=============================================================================
