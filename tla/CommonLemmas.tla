---------------------------- MODULE CommonLemmas ----------------------------
(***************************************************************************)
(* Facts that several proofs rest on: least and greatest numbers, with     *)
(* which an induction becomes a look at the first counterexample, the      *)
(* remainders with which ring buffers count, and parts of sequences.       *)
(***************************************************************************)
EXTENDS Integers, Sequences, SequenceTheorems, WellFoundedInduction, TLAPS

\* A loop that looks for the first hit stops: there is a least one.
LEMMA LeastNatural ==
    ASSUME NEW T, T \subseteq Nat, T # {}
    PROVE  \E x \in T : \A y \in T : x <= y
<1> DEFINE R == OpToRel(<, Nat)
<1>1. PICK x \in T : \A y \in T : ~ (<<y, x>> \in R)
  <2> HIDE DEF R
  <2>1. IsWellFoundedOn(R, Nat)
    BY Zenon, NatLessThanWellFounded DEF R
  <2>2. QED
    BY <2>1, WFMin, Zenon
<1>2. \A y \in T : <<y, x>> \in Nat \X Nat /\ <<y, x>>[1] = y /\ <<y, x>>[2] = x
  OBVIOUS
<1>3. \A y \in T : ~ (y < x)
  BY Zenon, <1>1, <1>2 DEF OpToRel
<1>4. QED
  BY <1>3

\* A loop that looks for the last hit below a bound stops as well.
LEMMA GreatestNatural ==
    ASSUME NEW T, T \subseteq Nat, T # {}, NEW b \in Nat, \A y \in T : y <= b
    PROVE  \E x \in T : \A y \in T : y <= x
<1> DEFINE U == {u \in Nat : \A y \in T : y <= u}
<1>1. PICK u \in U : \A v \in U : u <= v
  <2>1. b \in U /\ U \subseteq Nat
    OBVIOUS
  <2>2. QED
    BY <2>1, LeastNatural, Zenon
<1>2. u \in T
  <2>1. SUFFICES ASSUME u \notin T PROVE FALSE
    OBVIOUS
  <2>2. \A y \in T : y <= u - 1
    BY <2>1, <1>1
  <2>3. u - 1 \in U
    <3>1. PICK y \in T : TRUE
      BY Zenon
    <3>2. QED
      BY <2>2, <3>1
  <2>4. QED
    BY <2>3, <1>1
<1>3. QED
  BY <1>2, <1>1

\* What holds of 0 and goes from each number to the next holds of all up to a bound.
LEMMA UpTo ==
    ASSUME NEW b \in Nat, NEW S, 0 \in S, \A n \in 0 .. b - 1 : n \in S => n + 1 \in S
    PROVE  \A n \in 0 .. b : n \in S
<1> DEFINE T == {n \in 0 .. b : n \notin S}
<1>1. SUFFICES ASSUME T # {} PROVE FALSE
  OBVIOUS
<1>2. PICK x \in T : \A y \in T : x <= y
  <2>1. T \subseteq Nat
    OBVIOUS
  <2>2. QED
    BY <2>1, <1>1, LeastNatural, Zenon
<1>3. x - 1 \in 0 .. b - 1 /\ x - 1 \notin T
  BY <1>2
<1>4. QED
  BY <1>3, <1>2

\* The remainders of the numbers around 0 .. n - 1: an index that leaves a ring of n
\* cells at one end comes in at the other.
LEMMA Remainder ==
    ASSUME NEW n \in Nat \ {0}
    PROVE  /\ \A x \in Int : x % n \in 0 .. n - 1
           /\ \A x \in 0 .. n - 1 : x % n = x
           /\ \A x \in n .. 2 * n - 1 : x % n = x - n
           /\ \A x \in (-n) .. (-1) : x % n = x + n
  OBVIOUS

\* The cell after a cell of a ring.
LEMMA NextPlace ==
    ASSUME NEW n \in Nat \ {0}, NEW x \in 0 .. n - 1
    PROVE  (x + 1) % n = IF x + 1 = n THEN 0 ELSE x + 1
<1>1. CASE x + 1 = n
  <2>1. x + 1 \in n .. 2 * n - 1 /\ (x + 1) - n = 0
    BY <1>1
  <2>2. QED
    BY <2>1, <1>1, Remainder
<1>2. CASE x + 1 # n
  <2>1. x + 1 \in 0 .. n - 1
    BY <1>2
  <2>2. QED
    BY Zenon, <2>1, <1>2, Remainder
<1>3. QED
  BY <1>1, <1>2

-----------------------------------------------------------------------------
(* Rings of n cells: the cell k places after a, and how far i is ahead of a. *)

After(a, k, n) == IF a + k < n THEN a + k ELSE (a + k) - n
Ahead(a, i, n) == IF a <= i THEN i - a ELSE (i - a) + n

LEMMA RingSteps ==
    ASSUME NEW n \in Nat \ {0}, NEW a \in 0 .. n - 1
    PROVE  /\ \A k \in 0 .. n : (a + k) % n = After(a, k, n)
           /\ \A i \in 0 .. n - 1 : (i - a) % n = Ahead(a, i, n)
<1>1. ASSUME NEW k \in 0 .. n PROVE (a + k) % n = After(a, k, n)
  <2>1. CASE a + k < n
    <3>1. a + k \in 0 .. n - 1
      BY <2>1
    <3>2. QED
      BY Zenon, <3>1, <2>1, Remainder DEF After
  <2>2. CASE ~ a + k < n
    <3>1. a + k \in n .. 2 * n - 1
      BY <2>2
    <3>2. QED
      BY Zenon, <3>1, <2>2, Remainder DEF After
  <2>3. QED
    BY <2>1, <2>2
<1>2. ASSUME NEW i \in 0 .. n - 1 PROVE (i - a) % n = Ahead(a, i, n)
  <2>1. CASE a <= i
    <3>1. i - a \in 0 .. n - 1
      BY <2>1
    <3>2. QED
      BY Zenon, <3>1, <2>1, Remainder DEF Ahead
  <2>2. CASE ~ a <= i
    <3>1. i - a \in (-n) .. (-1)
      BY <2>2
    <3>2. QED
      BY Zenon, <3>1, <2>2, Remainder DEF Ahead
  <2>3. QED
    BY <2>1, <2>2
<1>3. QED
  BY <1>1, <1>2

\* The two are inverse to each other.
LEMMA RingInverse ==
    ASSUME NEW n \in Nat \ {0}, NEW a \in 0 .. n - 1
    PROVE  /\ \A k \in 0 .. n - 1 : After(a, k, n) \in 0 .. n - 1 /\ Ahead(a, After(a, k, n), n) = k
           /\ \A i \in 0 .. n - 1 : Ahead(a, i, n) \in 0 .. n - 1 /\ After(a, Ahead(a, i, n), n) = i
           /\ After(a, 0, n) = a /\ Ahead(a, a, n) = 0
  BY DEF After, Ahead

\* The end of the part in use moves on, unless the part is full.
LEMMA RingPush ==
    ASSUME NEW n \in Nat \ {0, 1}, NEW a \in 0 .. n - 1, NEW b \in 0 .. n - 1,
           Ahead(a, b, n) < n - 1
    PROVE  /\ After(b, 1, n) \in 0 .. n - 1
           /\ Ahead(a, After(b, 1, n), n) = Ahead(a, b, n) + 1
           /\ \A i \in 0 .. n - 1 :
                Ahead(a, i, n) < Ahead(a, b, n) + 1 <=> Ahead(a, i, n) < Ahead(a, b, n) \/ i = b
           /\ \A i \in 0 .. n - 1 : Ahead(a, i, n) = Ahead(a, b, n) <=> i = b
  BY DEF After, Ahead

\* Its beginning moves on, unless the part is empty.
LEMMA RingPop ==
    ASSUME NEW n \in Nat \ {0, 1}, NEW a \in 0 .. n - 1, NEW b \in 0 .. n - 1, a # b
    PROVE  /\ After(a, 1, n) \in 0 .. n - 1
           /\ Ahead(After(a, 1, n), b, n) = Ahead(a, b, n) - 1
           /\ \A i \in 0 .. n - 1 : i # a => Ahead(After(a, 1, n), i, n) = Ahead(a, i, n) - 1
           /\ Ahead(After(a, 1, n), a, n) = n - 1
           /\ Ahead(a, b, n) > 0
  BY DEF After, Ahead

\* A ring of a beginning and a count, which may be full.
LEMMA RingDrop ==
    ASSUME NEW n \in Nat \ {0}, NEW a \in 0 .. n - 1
    PROVE  /\ After(a, 1, n) \in 0 .. n - 1
           /\ \A i \in 0 .. n - 1 : i # a => Ahead(After(a, 1, n), i, n) = Ahead(a, i, n) - 1
           /\ Ahead(After(a, 1, n), a, n) = n - 1
  BY DEF After, Ahead

\* Three places in order around the ring.
LEMMA RingOrder ==
    ASSUME NEW n \in Nat \ {0}, NEW a \in 0 .. n - 1, NEW b \in 0 .. n - 1, NEW c \in 0 .. n - 1,
           Ahead(a, c, n) = Ahead(a, b, n) + Ahead(b, c, n)
    PROVE  /\ \A k \in 0 .. Ahead(a, b, n) - 1 : Ahead(b, After(a, k, n), n) >= Ahead(b, c, n)
           /\ After(a, Ahead(a, b, n), n) = b
  BY DEF After, Ahead

\* The cells of a ring by their distance from a cell.
LEMMA RingCell ==
    ASSUME NEW n \in Nat \ {0}, NEW a \in 0 .. n - 1, NEW k \in 0 .. n - 1
    PROVE  /\ (a + k) % n \in 0 .. n - 1 /\ Ahead(a, (a + k) % n, n) = k
           /\ (a + k) % n = After(a, k, n)
<1>1. k \in 0 .. n
  OBVIOUS
<1>2. (a + k) % n = After(a, k, n)
  BY <1>1, RingSteps, Zenon
<1>3. After(a, k, n) \in 0 .. n - 1 /\ Ahead(a, After(a, k, n), n) = k
  BY RingInverse
<1>4. QED
  BY <1>2, <1>3, Zenon

-----------------------------------------------------------------------------
(* Sequences. *)

LEMMA FunctionIsSeq ==
    ASSUME NEW S, NEW n \in Nat, NEW f \in [1 .. n -> S]
    PROVE  f \in Seq(S) /\ Len(f) = n
  OBVIOUS

\* A sequence up to a place, between two places, and from some place on.
LEMMA FrontPart ==
    ASSUME NEW S, NEW s \in Seq(S), NEW m \in 0 .. Len(s)
    PROVE  /\ SubSeq(s, 1, m) \in Seq(S) /\ Len(SubSeq(s, 1, m)) = m
           /\ \A n \in 1 .. m : SubSeq(s, 1, m)[n] = s[n]
<1>1. Len(s) \in Nat /\ m \in Int
  OBVIOUS
<1>2. QED
  BY <1>1

LEMMA MiddlePart ==
    ASSUME NEW S, NEW s \in Seq(S), NEW a \in 0 .. Len(s), NEW e \in a .. Len(s)
    PROVE  /\ SubSeq(s, a + 1, e) \in Seq(S)
           /\ Len(SubSeq(s, a + 1, e)) = e - a
           /\ \A n \in 1 .. e - a : SubSeq(s, a + 1, e)[n] = s[a + n]
<1>1. Len(s) \in Nat /\ a \in Int /\ e \in Int
  OBVIOUS
<1>2. QED
  BY <1>1

LEMMA TailPart ==
    ASSUME NEW S, NEW s \in Seq(S), NEW m \in 1 .. Len(s)
    PROVE  /\ SubSeq(s, m, Len(s)) \in Seq(S)
           /\ Len(SubSeq(s, m, Len(s))) = Len(s) + 1 - m
           /\ \A n \in 1 .. Len(s) + 1 - m : SubSeq(s, m, Len(s))[n] = s[m + n - 1]
<1>1. Len(s) \in Nat /\ m \in Int
  OBVIOUS
<1>2. QED
  BY <1>1

\* A sequence that is one after the other.
LEMMA Joined ==
    ASSUME NEW S, NEW s \in Seq(S), NEW f \in Seq(S), NEW g \in Seq(S),
           Len(g) = Len(s) + Len(f),
           \A k \in 1 .. Len(s) : g[k] = s[k],
           \A k \in 1 .. Len(f) : g[Len(s) + k] = f[k]
    PROVE  s \o f = g
<1>1. /\ s \o f \in Seq(S) /\ Len(s \o f) = Len(g)
      /\ \A i \in 1 .. Len(s) + Len(f) : (s \o f)[i] = IF i <= Len(s) THEN s[i] ELSE f[i - Len(s)]
  BY ConcatProperties
<1>2. \A i \in 1 .. Len(s \o f) : (s \o f)[i] = g[i]
  <2>1. ASSUME NEW i \in 1 .. Len(g) PROVE (s \o f)[i] = g[i]
    <3>1. (s \o f)[i] = IF i <= Len(s) THEN s[i] ELSE f[i - Len(s)]
      BY <1>1
    <3>2. CASE i <= Len(s)
      BY <3>1, <3>2
    <3>3. CASE ~ i <= Len(s)
      <4>1. i - Len(s) \in 1 .. Len(f) /\ Len(s) + (i - Len(s)) = i
        BY <3>3
      <4>2. g[Len(s) + (i - Len(s))] = f[i - Len(s)]
        BY <4>1
      <4>3. QED
        BY <3>1, <3>3, <4>1, <4>2
    <3>4. QED
      BY <3>2, <3>3
  <2>2. QED
    BY <2>1, <1>1
<1>3. QED
  BY <1>1, <1>2, SeqEqual, Zenon
=============================================================================
