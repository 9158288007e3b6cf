---------------------------- MODULE TimerProofs ----------------------------
(***************************************************************************)
(* The timer queues keep what Timers states, for any number of timers: a   *)
(* queue is a list c[1], ..., c[n] of exactly the active timers of its     *)
(* kind, in order of expiry and, among hrtimers that expire together, of   *)
(* their starts.  A walk along the next pointers sees c, and the calls     *)
(* take a timer out of c or put one in at its place.                       *)
(***************************************************************************)
EXTENDS Timers, CommonLemmas, FiniteSetTheorems

Kinds == {"ktimer", "hrtimer"}

\* The fields of the queues have their types.
TimersOK(tm) ==
  /\ DOMAIN tm = {"head", "next", "active", "expires"}
  /\ tm.head \in [Kinds -> Timer \cup {NoTimer}]
  /\ tm.next \in [Timer -> Timer \cup {NoTimer}]
  /\ tm.active \in [Timer -> BOOLEAN]
  /\ tm.expires \in [Timer -> 0 .. (TickLimit + MaxDelay)]

\* From the head of the queue the next pointers lead through c[1], ..., c[n].
Linked(tm, kind, c, n) ==
  /\ c \in [1 .. n -> Timer]
  /\ \A i, j \in 1 .. n : c[i] = c[j] => i = j
  /\ n = 0 => tm.head[kind] = NoTimer
  /\ n > 0 => tm.head[kind] = c[1] /\ tm.next[c[n]] = NoTimer
  /\ \A i \in 1 .. n - 1 : tm.next[c[i]] = c[i + 1]

\* c holds exactly the active timers of its kind.
Holds(tm, kind, c, n) ==
  \A t \in Timer : Kind(t) = kind /\ tm.active[t] <=> \E i \in 1 .. n : c[i] = t

\* It is in order of expiry and of starts.
InOrder(tm, kind, c, n, R) ==
  \A i, j \in 1 .. n : i < j =>
     /\ tm.expires[c[i]] <= tm.expires[c[j]]
     /\ kind = "hrtimer" /\ tm.expires[c[i]] = tm.expires[c[j]] => <<c[i], c[j]>> \in R

QueueIs(tm, kind, c, n, R) ==
  Linked(tm, kind, c, n) /\ Holds(tm, kind, c, n) /\ InOrder(tm, kind, c, n, R)

\* Starts happen one after the other, and only those of pending hrtimers are kept.
StartsOK(tm, R) ==
  /\ \A p \in R : \E t, u \in HTimers : p = <<t, u>> /\ tm.active[t] /\ tm.active[u]
  /\ \A t, u \in HTimers : <<t, u>> \in R => <<u, t>> \notin R

Good(tm, R) ==
  /\ TimersOK(tm)
  /\ StartsOK(tm, R)
  /\ \A kind \in Kinds : \E n \in Nat : \E c \in [1 .. n -> Timer] : QueueIs(tm, kind, c, n, R)

TimersInv ==
  /\ ticks \in 0 .. (TickLimit - 1)
  /\ phase \in {"thread", "ktimer", "hrtimer"}
  /\ fired \subseteq Timer
  /\ phase = "ktimer" => fired \subseteq KTimers
  /\ OncePerTick
  /\ Good(timers, order)
-----------------------------------------------------------------------------
\* There are finitely many timers, and each is of one kind.
LEMMA TimerSets ==
    /\ IsFiniteSet(Timer) /\ Cardinality(Timer) \in Nat
    /\ NoTimer \notin Timer /\ TickLimit \in Nat \ {0} /\ MaxDelay \in Nat \ {0}
    /\ \A t \in KTimers : t \in Timer /\ t \notin HTimers /\ Kind(t) = "ktimer"
    /\ \A t \in HTimers : t \in Timer /\ t \notin KTimers /\ Kind(t) = "hrtimer"
    /\ \A t \in Timer : Kind(t) \in Kinds /\ (t \in KTimers \/ t \in HTimers)
<1>1. IsFiniteSet(Timer)
  BY Zenon, TimersAssumption, FS_Union DEF Timer
<1>2. Cardinality(Timer) \in Nat
  BY <1>1, FS_CardinalityType
<1>3. QED
  BY <1>1, <1>2, TimersAssumption DEF Timer, Kind, Kinds

\* The instance counts as the module does.
LEMMA SameCardinality == \A S : List!Cardinality(S) = Cardinality(S)
  BY Zenon DEF List!Cardinality, Cardinality

\* The walk along a queue, step by step.
LEMMA WalkValues ==
    ASSUME NEW l
    PROVE  \A m \in Nat : List!At(l)[m] = IF m = 0 THEN l.head
                                          ELSE List!Following(l, List!At(l)[m - 1])
<1> DEFINE Turn(v, m) == List!Following(l, v)
<1>1. NatInductiveDefHypothesis(List!At(l), l.head, Turn)
  BY DEF NatInductiveDefHypothesis, List!At
<1>2. NatInductiveDefConclusion(List!At(l), l.head, Turn)
  BY Zenon, <1>1, NatInductiveDef
<1>3. QED
  BY <1>2 DEF NatInductiveDefConclusion

\* A walk along a queue that is linked as c sees c, and then its end.
LEMMA WalkSees ==
    ASSUME NEW tm, NEW kind, NEW n \in Nat, NEW c, Linked(tm, kind, c, n)
    PROVE  \A m \in Nat : List!At(Queue(tm, kind))[m] = IF m < n THEN c[m + 1] ELSE NoTimer
<1> DEFINE l == Queue(tm, kind)
           at == List!At(l)
           S == {m \in Nat : at[m] = IF m < n THEN c[m + 1] ELSE NoTimer}
<1>1. l.head = tm.head[kind] /\ l.next = tm.next
  BY DEF Queue
<1>2. \A m \in Nat : at[m] = IF m = 0 THEN l.head ELSE List!Following(l, at[m - 1])
  BY WalkValues
<1>3. \A m \in 1 .. n : c[m] # NoTimer
  BY TimerSets DEF Linked
<1> HIDE DEF l, at
<1>4. 0 \in S
  BY <1>1, <1>2 DEF Linked
<1>5. ASSUME NEW b \in Nat, b \in S PROVE b + 1 \in S
  <2>1. at[b + 1] = List!Following(l, at[b])
    BY <1>2
  <2>2. CASE b + 1 < n
    <3>1. at[b] = c[b + 1] /\ c[b + 1] # NoTimer /\ tm.next[c[b + 1]] = c[(b + 1) + 1]
      BY <1>3, <1>5, <2>2 DEF Linked
    <3>2. at[b + 1] = c[(b + 1) + 1]
      BY <2>1, <3>1, <1>1 DEF List!Following
    <3>3. QED
      BY <3>2, <2>2
  <2>3. CASE b + 1 = n
    <3>1. at[b] = c[n] /\ c[n] # NoTimer /\ tm.next[c[n]] = NoTimer
      BY <1>3, <1>5, <2>3 DEF Linked
    <3>2. at[b + 1] = NoTimer
      BY <2>1, <3>1, <1>1 DEF List!Following
    <3>3. QED
      BY <3>2, <2>3
  <2>4. CASE n < b + 1
    <3>1. at[b] = NoTimer
      BY <1>5, <2>4
    <3>2. at[b + 1] = NoTimer
      BY <2>1, <3>1 DEF List!Following
    <3>3. QED
      BY <3>2, <2>4
  <2>5. QED
    BY <2>2, <2>3, <2>4
<1>6. ASSUME NEW b \in Nat PROVE b \in S
  <2>1. \A m \in 0 .. b - 1 : m \in S => m + 1 \in S
    BY <1>5
  <2>2. \A m \in 0 .. b : m \in S
    BY <2>1, <1>4, UpTo, Zenon
  <2>3. QED
    BY <2>2
<1>7. QED
  BY <1>6 DEF at, l

\* The queue is walked to its end within the steps the operators of LinkedQueue allow.
LEMMA ListFits ==
    ASSUME NEW n \in Nat, NEW c \in [1 .. n -> Timer], \A i, j \in 1 .. n : c[i] = c[j] => i = j
    PROVE  n <= Cardinality(Timer)
<1>1. c \in Injection(1 .. n, Timer)
  BY DEF Injection, IsInjective
<1>2. Cardinality(1 .. n) <= Cardinality(Timer)
  BY <1>1, FS_Injection, TimerSets
<1>3. Cardinality(1 .. n) = n
  BY FS_Interval
<1>4. QED
  BY <1>2, <1>3

\* What the operators on lists say of a queue that is linked as c.
LEMMA ListIs ==
    ASSUME NEW tm, NEW kind, NEW n \in Nat, NEW c, Linked(tm, kind, c, n)
    PROVE  /\ List!Terminates(Queue(tm, kind))
           /\ List!Members(Queue(tm, kind)) = {c[i] : i \in 1 .. n}
           /\ Chain(tm, kind) = c
<1> DEFINE at == List!At(Queue(tm, kind))
           C == Cardinality(Timer)
<1>1. \A m \in Nat : at[m] = IF m < n THEN c[m + 1] ELSE NoTimer
  BY WalkSees
<1>2. C \in Nat /\ n <= C /\ c \in [1 .. n -> Timer] /\ (\A i \in 1 .. n : c[i] # NoTimer)
  BY TimerSets, ListFits DEF Linked
<1> HIDE DEF at, C
<1>3. at[C] = NoTimer
  BY <1>1, <1>2
<1>4. {at[m] : m \in 0 .. C} \ {NoTimer} = {c[i] : i \in 1 .. n}
  <2>1. ASSUME NEW m \in 0 .. C, at[m] # NoTimer PROVE \E i \in 1 .. n : at[m] = c[i]
    BY <2>1, <1>1, <1>2
  <2>2. ASSUME NEW i \in 1 .. n
        PROVE  \E m \in 0 .. C : at[m] = c[i] /\ at[m] # NoTimer
    <3>1. i - 1 \in 0 .. C /\ i - 1 < n /\ (i - 1) + 1 = i
      BY <1>2
    <3>2. at[i - 1] = c[i]
      BY <3>1, <1>1
    <3>3. QED
      BY <3>1, <3>2, <1>2
  <2>3. QED
    BY <2>1, <2>2
<1>5. {m \in 0 .. C : at[m] # NoTimer} = 0 .. n - 1
  <2>1. ASSUME NEW m \in 0 .. C PROVE at[m] # NoTimer <=> m < n
    BY <1>1, <1>2
  <2>2. QED
    BY <2>1, <1>2
<1>6. Cardinality(0 .. n - 1) = n
  BY FS_Interval
<1>7. List!Length(Queue(tm, kind)) = n
  BY Zenon, <1>5, <1>6, SameCardinality DEF List!Length, List!Steps, at, C
<1>8. [m \in 1 .. n |-> at[m - 1]] = c
  <2>1. ASSUME NEW m \in 1 .. n PROVE at[m - 1] = c[m]
    <3>1. m - 1 \in Nat /\ m - 1 < n /\ (m - 1) + 1 = m
      OBVIOUS
    <3>2. QED
      BY <3>1, <1>1
  <2>2. QED
    BY <2>1, <1>2
<1>9. Chain(tm, kind) = c
  BY <1>7, <1>8 DEF Chain, at
<1>10. QED
  BY <1>3, <1>4, <1>9, SameCardinality DEF List!Terminates, List!Members, List!Steps, at, C
-----------------------------------------------------------------------------
(* What a call leaves alone, takes out of a queue and puts in. *)

\* A queue none of whose timers is touched stays as it is.
LEMMA Untouched ==
    ASSUME NEW tm, NEW x, NEW R, NEW Q, NEW kind \in Kinds, NEW n \in Nat, NEW c,
           QueueIs(tm, kind, c, n, R),
           x.head[kind] = tm.head[kind],
           \A t \in Timer : Kind(t) = kind =>
               /\ x.next[t] = tm.next[t] /\ x.active[t] = tm.active[t]
               /\ x.expires[t] = tm.expires[t],
           kind = "hrtimer" => R \subseteq Q
    PROVE  QueueIs(x, kind, c, n, Q)
<1>1. \A i \in 1 .. n : c[i] \in Timer /\ Kind(c[i]) = kind
  BY DEF QueueIs, Linked, Holds
<1>2. \A i \in 1 .. n : x.next[c[i]] = tm.next[c[i]] /\ x.expires[c[i]] = tm.expires[c[i]]
  BY <1>1
<1>3. Linked(x, kind, c, n)
  BY <1>2 DEF QueueIs, Linked
<1>4. Holds(x, kind, c, n)
  BY DEF QueueIs, Holds
<1>5. InOrder(x, kind, c, n, Q)
  BY <1>2 DEF QueueIs, InOrder
<1>6. QED
  BY <1>3, <1>4, <1>5 DEF QueueIs

\* x is tm with its k-th timer t taken out.
Cut(tm, x, t, kind, c, n, k) ==
  /\ DOMAIN x = DOMAIN tm
  /\ x.head = [tm.head EXCEPT ![kind] = IF k = 1 THEN tm.next[t] ELSE @]
  /\ x.next \in [Timer -> Timer \cup {NoTimer}]
  /\ \A u \in Timer : x.next[u] = IF u = t THEN NoTimer
                                 ELSE IF k > 1 /\ u = c[k - 1] THEN tm.next[t] ELSE tm.next[u]
  /\ x.active = [tm.active EXCEPT ![t] = FALSE]
  /\ x.expires = tm.expires

\* Both ways of the code, the head and the bypass, cut the timer out.
LEMMA CancelCuts ==
    ASSUME NEW tm, NEW t \in Timer, NEW n \in Nat, NEW c, NEW k \in 1 .. n, c[k] = t,
           TimersOK(tm), Linked(tm, Kind(t), c, n)
    PROVE  /\ Cut(tm, CancelActive(tm, t), t, Kind(t), c, n, k)
           /\ k = 1 => PopHead(tm, t) = CancelActive(tm, t)
<1> DEFINE kind == Kind(t)
           x == CancelActive(tm, t)
<1>1. /\ c \in [1 .. n -> Timer] /\ kind \in Kinds
      /\ \A i \in 1 .. n : c[i] \in Timer /\ c[i] # NoTimer
      /\ \A i, j \in 1 .. n : c[i] = c[j] => i = j
      /\ tm.head[kind] = c[1] /\ tm.next[c[n]] = NoTimer
      /\ \A i \in 1 .. n - 1 : tm.next[c[i]] = c[i + 1]
  BY TimerSets DEF Linked
<1>2. CASE k = 1
  <2>1. x = PopHead(tm, t)
    BY <1>1, <1>2 DEF CancelActive
  <2>2. QED
    BY <2>1, <1>2 DEF PopHead, TimersOK, Cut
<1>3. CASE k > 1
  <2>1. tm.head[kind] # t
    BY <1>1, <1>3
  <2>2. k - 1 \in 1 .. n - 1 /\ k - 1 \in 1 .. n /\ (k - 1) + 1 = k
    BY <1>3
  <2>3. tm.next[c[k - 1]] = t
    BY <2>2, <1>1
  <2>4. ASSUME NEW i \in 1 .. n, tm.next[c[i]] = t PROVE i = k - 1
    BY <2>4, <1>1
  <2>5. Before(tm, t) = c[k - 1]
    <3>1. List!Members(Queue(tm, kind)) = {c[i] : i \in 1 .. n}
      BY ListIs
    <3>2. {u \in List!Members(Queue(tm, kind)) : tm.next[u] = t} = {c[k - 1]}
      BY <3>1, <2>2, <2>3, <2>4
    <3>3. QED
      BY <3>2 DEF Before
  <2>6. c[k - 1] # NoTimer /\ c[k - 1] \in Timer /\ c[k - 1] # t
    BY <2>2, <1>1
  <2>7. x = [tm EXCEPT !.next = [[tm.next EXCEPT ![c[k - 1]] = tm.next[t]] EXCEPT ![t] = NoTimer],
                       !.active[t] = FALSE]
    BY <2>1, <2>5, <2>6 DEF CancelActive
  <2>8. /\ DOMAIN x = DOMAIN tm /\ x.head = tm.head /\ x.expires = tm.expires
        /\ x.next = [[tm.next EXCEPT ![c[k - 1]] = tm.next[t]] EXCEPT ![t] = NoTimer]
        /\ x.active = [tm.active EXCEPT ![t] = FALSE]
    BY <2>7 DEF TimersOK
  <2> HIDE DEF x
  <2>9. x.next \in [Timer -> Timer \cup {NoTimer}]
    BY <2>8, <2>6 DEF TimersOK
  <2>10. ASSUME NEW u \in Timer
         PROVE  x.next[u] = IF u = t THEN NoTimer
                            ELSE IF k > 1 /\ u = c[k - 1] THEN tm.next[t] ELSE tm.next[u]
    BY <2>8, <2>6, <1>3 DEF TimersOK
  <2>11. tm.head = [tm.head EXCEPT ![kind] = IF k = 1 THEN tm.next[t] ELSE @]
    BY <1>3 DEF TimersOK
  <2>12. QED
    BY <2>8, <2>9, <2>10, <2>11, <1>3 DEF Cut, x
<1>4. QED
  BY <1>2, <1>3

\* The queue without its k-th timer.
LEMMA CutQueue ==
    ASSUME NEW tm, NEW x, NEW R, NEW t \in Timer, NEW n \in Nat, NEW c, NEW k \in 1 .. n, c[k] = t,
           QueueIs(tm, Kind(t), c, n, R), TimersOK(tm), Cut(tm, x, t, Kind(t), c, n, k)
    PROVE  \E d \in [1 .. n - 1 -> Timer] : QueueIs(x, Kind(t), d, n - 1, Without(R, t))
<1> DEFINE kind == Kind(t)
           d == [i \in 1 .. n - 1 |-> IF i < k THEN c[i] ELSE c[i + 1]]
<1>1. /\ c \in [1 .. n -> Timer] /\ kind \in Kinds
      /\ \A i \in 1 .. n : c[i] \in Timer /\ c[i] # NoTimer
      /\ \A i, j \in 1 .. n : c[i] = c[j] => i = j
      /\ tm.head[kind] = c[1] /\ tm.next[c[n]] = NoTimer
      /\ \A i \in 1 .. n - 1 : tm.next[c[i]] = c[i + 1]
  BY TimerSets DEF QueueIs, Linked
<1>2. /\ d \in [1 .. n - 1 -> Timer]
      /\ \A i \in 1 .. n - 1 : i < k => d[i] = c[i]
      /\ \A i \in 1 .. n - 1 : i >= k => d[i] = c[i + 1]
  BY <1>1
<1>3. \A i \in 1 .. n - 1 : d[i] # t /\ d[i] \in Timer
  BY <1>1, <1>2
<1> HIDE DEF d
<1>4. /\ \A u \in Timer : x.next[u] = IF u = t THEN NoTimer
                            ELSE IF k > 1 /\ u = c[k - 1] THEN tm.next[t] ELSE tm.next[u]
      /\ x.head[kind] = IF k = 1 THEN tm.next[t] ELSE tm.head[kind]
      /\ \A u \in Timer : x.active[u] = IF u = t THEN FALSE ELSE tm.active[u]
      /\ x.expires = tm.expires
  BY ZenonT(60), <1>1 DEF Cut, TimersOK
<1>5. Linked(x, kind, d, n - 1)
  <2>1. ASSUME NEW i \in 1 .. n - 1, NEW j \in 1 .. n - 1, d[i] = d[j] PROVE i = j
    <3> DEFINE a == IF i < k THEN i ELSE i + 1
               b == IF j < k THEN j ELSE j + 1
    <3>1. a \in 1 .. n /\ b \in 1 .. n /\ (a = b => i = j)
      OBVIOUS
    <3>2. d[i] = c[a] /\ d[j] = c[b]
      BY <1>2
    <3> HIDE DEF a, b
    <3>3. \A p, q \in 1 .. n : c[p] = c[q] => p = q
      BY <1>1
    <3>4. QED
      BY <3>1, <3>2, <3>3, <2>1, Zenon
  <2>2. ASSUME n - 1 = 0 PROVE x.head[kind] = NoTimer
    BY <2>2, <1>1, <1>4
  <2>3. ASSUME n - 1 > 0 PROVE x.head[kind] = d[1]
    <3>1. CASE k = 1
      BY <2>3, <3>1, <1>1, <1>2, <1>4
    <3>2. CASE k > 1
      BY <2>3, <3>2, <1>1, <1>2, <1>4
    <3>3. QED
      BY <3>1, <3>2
  <2>4. ASSUME n - 1 > 0 PROVE x.next[d[n - 1]] = NoTimer
    <3>1. n - 1 \in 1 .. n - 1 /\ n \in 1 .. n /\ (n - 1) + 1 = n
      BY <2>4
    <3>2. CASE k = n
      <4>1. d[n - 1] = c[k - 1] /\ k > 1 /\ tm.next[t] = NoTimer
        BY <3>1, <3>2, <1>1, <1>2, <2>4
      <4>2. QED
        BY <4>1, <1>4, <1>3, <3>1
    <3>3. CASE k < n
      <4>1. d[n - 1] = c[n]
        BY <3>1, <3>3, <1>2
      <4>2. k > 1 => c[n] # c[k - 1]
        BY <1>1, <3>3
      <4>3. QED
        BY <4>1, <4>2, <1>4, <1>3, <3>1, <1>1
    <3>4. QED
      BY <3>2, <3>3
  <2>5. ASSUME NEW i \in 1 .. n - 2 PROVE x.next[d[i]] = d[i + 1]
    <3>1. i \in 1 .. n - 1 /\ i + 1 \in 1 .. n - 1 /\ (i + 1) + 1 \in 1 .. n /\ i \in 1 .. n
      OBVIOUS
    <3>2. CASE i + 1 < k
      <4>1. d[i] = c[i] /\ d[i + 1] = c[i + 1] /\ tm.next[c[i]] = c[i + 1] /\ c[i] # c[k - 1]
        BY <3>1, <3>2, <1>1, <1>2
      <4>2. QED
        BY <4>1, <1>3, <1>4, <3>1
    <3>3. CASE i + 1 = k
      <4>1. d[i] = c[k - 1] /\ k > 1 /\ d[i + 1] = c[k + 1] /\ tm.next[t] = c[k + 1]
        BY <3>1, <3>3, <1>1, <1>2
      <4>2. QED
        BY <4>1, <1>3, <1>4, <3>1
    <3>4. CASE i + 1 > k
      <4>1. /\ d[i] = c[i + 1] /\ d[i + 1] = c[(i + 1) + 1]
            /\ tm.next[c[i + 1]] = c[(i + 1) + 1]
            /\ k > 1 => c[i + 1] # c[k - 1]
        BY <3>1, <3>4, <1>1, <1>2
      <4>2. QED
        BY <4>1, <1>3, <1>4, <3>1
    <3>5. QED
      BY <3>2, <3>3, <3>4
  <2>6. (n - 1) - 1 = n - 2
    OBVIOUS
  <2>7. QED
    BY <1>2, <2>1, <2>2, <2>3, <2>4, <2>5, <2>6 DEF Linked
<1>6. Holds(x, kind, d, n - 1)
  <2>1. ASSUME NEW i \in 1 .. n, c[i] # t PROVE \E j \in 1 .. n - 1 : d[j] = c[i]
    <3>1. CASE i < k
      BY <3>1, <1>2
    <3>2. CASE i > k
      <4>1. i - 1 \in 1 .. n - 1 /\ i - 1 >= k /\ (i - 1) + 1 = i
        BY <3>2
      <4>2. d[i - 1] = c[i]
        BY <4>1, <1>2
      <4>3. QED
        BY <4>1, <4>2
    <3>3. QED
      BY <3>1, <3>2, <2>1
  <2>2. ASSUME NEW j \in 1 .. n - 1 PROVE \E i \in 1 .. n : d[j] = c[i]
    BY <1>2
  <2>3. ASSUME NEW u \in Timer
        PROVE  Kind(u) = kind /\ x.active[u] <=> \E i \in 1 .. n - 1 : d[i] = u
    <3>1. Kind(u) = kind /\ tm.active[u] <=> \E i \in 1 .. n : c[i] = u
      BY DEF QueueIs, Holds
    <3>2. x.active[u] <=> u # t /\ tm.active[u]
      BY Zenon, <1>4
    <3>3. QED
      BY <3>1, <3>2, <2>1, <2>2, <1>3
  <2>4. QED
    BY <2>3 DEF Holds
<1>7. InOrder(x, kind, d, n - 1, Without(R, t))
  <2>1. ASSUME NEW i \in 1 .. n - 1, NEW j \in 1 .. n - 1, i < j
        PROVE  /\ x.expires[d[i]] <= x.expires[d[j]]
               /\ kind = "hrtimer" /\ x.expires[d[i]] = x.expires[d[j]]
                    => <<d[i], d[j]>> \in Without(R, t)
    <3>1. PICK a \in 1 .. n, b \in 1 .. n : a < b /\ d[i] = c[a] /\ d[j] = c[b]
      <4> DEFINE a == IF i < k THEN i ELSE i + 1
                 b == IF j < k THEN j ELSE j + 1
      <4>1. a \in 1 .. n /\ b \in 1 .. n /\ a < b
        BY <2>1
      <4>2. d[i] = c[a] /\ d[j] = c[b]
        BY <1>2
      <4>3. QED
        BY <4>1, <4>2
    <3>2. /\ tm.expires[c[a]] <= tm.expires[c[b]]
          /\ kind = "hrtimer" /\ tm.expires[c[a]] = tm.expires[c[b]] => <<c[a], c[b]>> \in R
      BY <3>1 DEF QueueIs, InOrder
    <3>3. <<d[i], d[j]>>[1] # t /\ <<d[i], d[j]>>[2] # t
      BY <1>3
    <3>4. QED
      BY <3>1, <3>2, <3>3, <1>4 DEF Without
  <2>2. QED
    BY <2>1 DEF InOrder
<1>8. QED
  BY <1>2, <1>5, <1>6, <1>7 DEF QueueIs

\* What a cancel, or a timer's being run, leaves.
LEMMA Removed ==
    ASSUME NEW tm, NEW R, Good(tm, R), NEW t \in Timer, tm.active[t]
    PROVE  /\ Good(CancelActive(tm, t), Without(R, t))
           /\ CancelActive(tm, t).active = [tm.active EXCEPT ![t] = FALSE]
           /\ CancelActive(tm, t).expires = tm.expires
<1> DEFINE x == CancelActive(tm, t)
           Q == Without(R, t)
<1>1. TimersOK(tm) /\ StartsOK(tm, R) /\ Kind(t) \in Kinds
  BY TimerSets DEF Good
<1>0. PICK n \in Nat : \E c \in [1 .. n -> Timer] : QueueIs(tm, Kind(t), c, n, R)
  BY <1>1 DEF Good
<1>2. PICK c \in [1 .. n -> Timer] : QueueIs(tm, Kind(t), c, n, R)
  BY <1>0
<1>3. PICK k \in 1 .. n : c[k] = t
  BY <1>2 DEF QueueIs, Holds
<1>4. Cut(tm, x, t, Kind(t), c, n, k)
  BY <1>1, <1>2, <1>3, CancelCuts DEF QueueIs
<1> HIDE DEF x
<1>5. TimersOK(x)
  <2>1. tm.next[t] \in Timer \cup {NoTimer}
    BY <1>1 DEF TimersOK
  <2>2. x.head \in [Kinds -> Timer \cup {NoTimer}]
    BY <1>1, <1>4, <2>1 DEF TimersOK, Cut
  <2>3. x.active \in [Timer -> BOOLEAN]
    BY <1>1, <1>4 DEF TimersOK, Cut
  <2>4. QED
    BY <1>1, <1>4, <2>2, <2>3 DEF TimersOK, Cut
<1>6. \A u \in Timer : x.active[u] <=> u # t /\ tm.active[u]
  BY <1>1, <1>4 DEF Cut, TimersOK
<1>7. StartsOK(x, Q)
  <2>1. ASSUME NEW p \in Q
        PROVE  \E v, u \in HTimers : p = <<v, u>> /\ x.active[v] /\ x.active[u]
    <3>1. p \in R /\ p[1] # t /\ p[2] # t
      BY DEF Without
    <3>2. PICK v, u \in HTimers : p = <<v, u>> /\ tm.active[v] /\ tm.active[u]
      BY <3>1, <1>1 DEF StartsOK
    <3>3. v # t /\ u # t /\ v \in Timer /\ u \in Timer
      BY <3>1, <3>2, TimerSets
    <3>4. QED
      BY <3>2, <3>3, <1>6
  <2>2. Q \subseteq R
    BY DEF Without
  <2> HIDE DEF Q
  <2>3. QED
    BY <2>1, <2>2, <1>1 DEF StartsOK
<1>8. ASSUME NEW kind \in Kinds
      PROVE  \E m \in Nat : \E d \in [1 .. m -> Timer] : QueueIs(x, kind, d, m, Q)
  <2>1. CASE kind = Kind(t)
    <3>1. \E d \in [1 .. n - 1 -> Timer] : QueueIs(x, kind, d, n - 1, Q)
      BY <1>1, <1>2, <1>3, <1>4, <2>1, CutQueue
    <3>2. n - 1 \in Nat
      BY <1>3
    <3>3. QED
      BY <3>1, <3>2
  <2>2. CASE kind # Kind(t)
    <3>0. PICK m \in Nat : \E d \in [1 .. m -> Timer] : QueueIs(tm, kind, d, m, R)
      BY DEF Good
    <3>1. PICK d \in [1 .. m -> Timer] : QueueIs(tm, kind, d, m, R)
      BY <3>0
    <3>2. x.head[kind] = tm.head[kind]
      BY <1>1, <1>4, <2>2 DEF Cut, TimersOK
    <3>3. ASSUME NEW u \in Timer, Kind(u) = kind
          PROVE  /\ x.next[u] = tm.next[u] /\ x.active[u] = tm.active[u]
                 /\ x.expires[u] = tm.expires[u]
      <4>1. u # t
        BY <3>3, <2>2
      <4>2. k > 1 => u # c[k - 1]
        <5>1. k > 1 => k - 1 \in 1 .. n
          OBVIOUS
        <5>2. QED
          BY <5>1, <3>3, <2>2, <1>2 DEF QueueIs, Holds
      <4>3. x.active[u] = tm.active[u]
        BY <4>1, <1>4, <1>1 DEF Cut, TimersOK
      <4>4. x.next[u] = tm.next[u]
        BY <4>1, <4>2, <1>4 DEF Cut
      <4>5. QED
        BY <4>3, <4>4, <1>4 DEF Cut
    <3>4. kind = "hrtimer" => R \subseteq Q
      <4>1. SUFFICES ASSUME kind = "hrtimer", NEW p \in R PROVE p \in Q
        OBVIOUS
      <4>2. PICK v, u \in HTimers : p = <<v, u>>
        BY <1>1 DEF StartsOK
      <4>3. v # t /\ u # t
        BY <4>1, <2>2, TimerSets
      <4>4. QED
        BY <4>2, <4>3 DEF Without
    <3> HIDE DEF Q
    <3>5. QueueIs(x, kind, d, m, Q)
      BY <3>1, <3>2, <3>3, <3>4, Untouched
    <3>6. QED
      BY <3>5
  <2>3. QED
    BY <2>1, <2>2
<1>9. QED
  BY <1>4, <1>5, <1>7, <1>8 DEF Good, Cut, x

\* Behind the k-th timer, in front if k is 0, is the place of a timer that expires at e.
IsPlace(tm, c, n, e, ties, k) ==
  /\ PlaceFor(tm, c, e, ties) = IF k = 0 THEN NoTimer ELSE c[k]
  /\ \A i \in 1 .. n : i <= k => tm.expires[c[i]] <= e
  /\ \A i \in 1 .. n : i > k => tm.expires[c[i]] >= e /\ (ties => tm.expires[c[i]] > e)

\* The walk of an insertion finds such a place.
LEMMA PlaceIs ==
    ASSUME NEW tm, NEW R, NEW kind \in Kinds, NEW n \in Nat, NEW c \in [1 .. n -> Timer],
           NEW e \in Nat, NEW ties \in BOOLEAN,
           TimersOK(tm), InOrder(tm, kind, c, n, R)
    PROVE  \E k \in 0 .. n : IsPlace(tm, c, n, e, ties, k)
<1> DEFINE x(i) == tm.expires[c[i]]
           Passes(j) == tm.expires[c[j]] < e \/ (ties /\ tm.expires[c[j]] = e)
           Ends(k) == (\A j \in 2 .. k : Passes(j)) /\ (k = n \/ ~Passes(k + 1))
<1>1. Len(c) = n
  OBVIOUS
<1>2. /\ \A i \in 1 .. n : tm.expires[c[i]] \in Nat
      /\ \A i, j \in 1 .. n : i < j => tm.expires[c[i]] <= tm.expires[c[j]]
  <2>1. \A t \in Timer : tm.expires[t] \in Nat
    BY TimerSets DEF TimersOK
  <2>2. \A i \in 1 .. n : c[i] \in Timer
    OBVIOUS
  <2>3. \A i, j \in 1 .. n : i < j => tm.expires[c[i]] <= tm.expires[c[j]]
    BY Zenon DEF InOrder
  <2>4. QED
    BY <2>1, <2>2, <2>3
<1>3. CASE n = 0 \/ e < tm.expires[c[1]]
  <2>1. PlaceFor(tm, c, e, ties) = NoTimer
    BY <1>1, <1>3 DEF PlaceFor
  <2>2. \A i \in 1 .. n : tm.expires[c[i]] > e
    BY <1>2, <1>3
  <2>3. QED
    BY <2>1, <2>2, <1>2 DEF IsPlace
<1>4. CASE ~(n = 0 \/ e < tm.expires[c[1]])
  <2>1. \E k \in 1 .. n : Ends(k)
    <3> DEFINE T == {k \in 1 .. n : k = n \/ ~Passes(k + 1)}
    <3> HIDE DEF Passes
    <3>1. T \subseteq Nat /\ n \in T
      BY <1>4
    <3>2. PICK k \in T : \A y \in T : k <= y
      BY Zenon, <3>1, LeastNatural
    <3>3. ASSUME NEW j \in 2 .. k PROVE Passes(j)
      <4>1. j - 1 \in 1 .. n /\ ~ (k <= j - 1) /\ (j - 1) + 1 = j
        BY <3>2
      <4>2. j - 1 \notin T
        BY <4>1, <3>2
      <4>3. QED
        BY <4>1, <4>2
    <3>4. QED
      BY <3>2, <3>3
  <2>2. PlaceFor(tm, c, e, ties) = c[CHOOSE k \in 1 .. n : Ends(k)]
    BY <1>1, <1>4 DEF PlaceFor
  <2> DEFINE k == CHOOSE q \in 1 .. n : Ends(q)
  <2>3. k \in 1 .. n /\ Ends(k)
    <3> HIDE DEF Ends
    <3>1. QED
      BY <2>1
  <2> HIDE DEF k
  <2>4. ASSUME NEW i \in 1 .. n, i <= k PROVE tm.expires[c[i]] <= e
    BY <2>3, <2>4, <1>2, <1>4
  <2>5. ASSUME NEW i \in 1 .. n, i > k
        PROVE  tm.expires[c[i]] >= e /\ (ties => tm.expires[c[i]] > e)
    <3>1. k + 1 \in 1 .. n /\ ~Passes(k + 1) /\ tm.expires[c[k + 1]] \in Nat
      BY <2>3, <2>5, <1>2
    <3>2. tm.expires[c[k + 1]] >= e /\ (ties => tm.expires[c[k + 1]] > e)
      BY <3>1
    <3>3. tm.expires[c[k + 1]] <= tm.expires[c[i]]
      BY <3>1, <2>5, <2>3, <1>2
    <3>4. QED
      BY <3>1, <3>2, <3>3, <1>2
  <2>6. k \in 0 .. n /\ k # 0
    BY <2>3
  <2>7. QED
    BY Zenon, <2>2, <2>4, <2>5, <2>6 DEF k, IsPlace
<1>5. QED
  BY <1>3, <1>4

\* x is tm with the timer t put in behind the k-th, to expire at e.
Spliced(tm, x, t, e, kind, c, n, k) ==
  /\ DOMAIN x = DOMAIN tm
  /\ x.head = [tm.head EXCEPT ![kind] = IF k = 0 THEN t ELSE @]
  /\ x.next \in [Timer -> Timer \cup {NoTimer}]
  /\ \A u \in Timer : x.next[u] = IF u = t
                                 THEN IF k = 0 THEN tm.head[kind] ELSE tm.next[c[k]]
                                 ELSE IF k > 0 /\ u = c[k] THEN t ELSE tm.next[u]
  /\ x.active = [tm.active EXCEPT ![t] = TRUE]
  /\ x.expires = [tm.expires EXCEPT ![t] = e]

\* Linking a timer behind another, or in front of all, splices it in.
LEMMA LinkSplices ==
    ASSUME NEW tm, NEW t \in Timer, NEW e, NEW n \in Nat, NEW c \in [1 .. n -> Timer],
           NEW k \in 0 .. n, NEW v, v = IF k = 0 THEN NoTimer ELSE c[k],
           \A i \in 1 .. n : c[i] # t,
           TimersOK(tm)
    PROVE  Spliced(tm, LinkBehind(tm, t, v, e), t, e, Kind(t), c, n, k)
<1> DEFINE kind == Kind(t)
           x == LinkBehind(tm, t, v, e)
<1>1. kind \in Kinds /\ NoTimer \notin Timer
  BY TimerSets
<1>2. /\ DOMAIN x = DOMAIN tm
      /\ x.head = [tm.head EXCEPT ![kind] = IF v = NoTimer THEN t ELSE @]
      /\ x.next = IF v = NoTimer THEN [tm.next EXCEPT ![t] = tm.head[kind]]
                  ELSE [tm.next EXCEPT ![t] = tm.next[v], ![v] = t]
      /\ x.active = [tm.active EXCEPT ![t] = TRUE]
      /\ x.expires = [tm.expires EXCEPT ![t] = e]
  BY DEF LinkBehind, TimersOK
<1> HIDE DEF x
<1>3. CASE k = 0
  <2>1. v = NoTimer
    BY <1>3
  <2>2. x.next = [tm.next EXCEPT ![t] = tm.head[kind]] /\ tm.head[kind] \in Timer \cup {NoTimer}
    BY <2>1, <1>1, <1>2 DEF TimersOK
  <2>3. x.next \in [Timer -> Timer \cup {NoTimer}]
    BY <2>2 DEF TimersOK
  <2>4. \A u \in Timer : x.next[u] = IF u = t THEN tm.head[kind] ELSE tm.next[u]
    BY <2>2 DEF TimersOK
  <2>5. QED
    BY <1>2, <1>3, <2>1, <2>3, <2>4 DEF Spliced, x
<1>4. CASE k > 0
  <2>1. v = c[k] /\ v \in Timer /\ v # NoTimer /\ v # t
    BY <1>4, <1>1
  <2>2. x.next = [tm.next EXCEPT ![t] = tm.next[v], ![v] = t] /\ tm.next[v] \in Timer \cup {NoTimer}
    BY Zenon, <2>1, <1>2 DEF TimersOK
  <2>3. x.next \in [Timer -> Timer \cup {NoTimer}]
    BY ZenonT(60), <2>2, <2>1 DEF TimersOK
  <2>4. \A u \in Timer : x.next[u] = IF u = t THEN tm.next[v] ELSE IF u = v THEN t ELSE tm.next[u]
    BY <2>2, <2>1 DEF TimersOK
  <2>5. k # 0 /\ k > 0
    BY <1>4
  <2>6. QED
    BY <1>2, <2>1, <2>3, <2>4, <2>5 DEF Spliced, x
<1>5. QED
  BY <1>3, <1>4

\* The queue with a timer put in at its place.
LEMMA SplicedQueue ==
    ASSUME NEW tm, NEW x, NEW R, NEW t \in Timer, NEW e \in Nat,
           NEW n \in Nat, NEW c, NEW k \in 0 .. n,
           ~ tm.active[t],
           QueueIs(tm, Kind(t), c, n, R), TimersOK(tm),
           Spliced(tm, x, t, e, Kind(t), c, n, k),
           \A i \in 1 .. n : i <= k => tm.expires[c[i]] <= e,
           \A i \in 1 .. n : i > k => tm.expires[c[i]] >= e /\ (Kind(t) = "hrtimer" => tm.expires[c[i]] > e)
    PROVE  \E d \in [1 .. n + 1 -> Timer] : QueueIs(x, Kind(t), d, n + 1, StartedLast(R, tm, t))
<1> DEFINE kind == Kind(t)
           d == [i \in 1 .. n + 1 |-> IF i <= k THEN c[i] ELSE IF i = k + 1 THEN t ELSE c[i - 1]]
           Q == StartedLast(R, tm, t)
<1>1. /\ c \in [1 .. n -> Timer] /\ kind \in Kinds
      /\ \A i \in 1 .. n : c[i] \in Timer /\ c[i] # NoTimer
      /\ \A i, j \in 1 .. n : c[i] = c[j] => i = j
      /\ n = 0 => tm.head[kind] = NoTimer
      /\ n > 0 => tm.head[kind] = c[1] /\ tm.next[c[n]] = NoTimer
      /\ \A i \in 1 .. n - 1 : tm.next[c[i]] = c[i + 1]
  BY TimerSets DEF QueueIs, Linked
<1>2. \A i \in 1 .. n : c[i] # t /\ Kind(c[i]) = kind /\ tm.active[c[i]]
  BY <1>1 DEF QueueIs, Holds
<1>3. /\ d \in [1 .. n + 1 -> Timer]
      /\ \A i \in 1 .. n : i <= k => d[i] = c[i]
      /\ d[k + 1] = t
      /\ \A i \in 1 .. n : i > k => d[i + 1] = c[i]
  <2>1. \A i \in 1 .. n + 1 : (IF i <= k THEN c[i] ELSE IF i = k + 1 THEN t ELSE c[i - 1]) \in Timer
    BY <1>1
  <2>2. \A i \in 1 .. n + 1 : d[i] = IF i <= k THEN c[i] ELSE IF i = k + 1 THEN t ELSE c[i - 1]
    OBVIOUS
  <2>3. d \in [1 .. n + 1 -> Timer]
    BY <2>1
  <2> HIDE DEF d
  <2>4. ASSUME NEW i \in 1 .. n, i > k PROVE d[i + 1] = c[i]
    <3>1. i + 1 \in 1 .. n + 1 /\ ~ (i + 1 <= k) /\ i + 1 # k + 1 /\ (i + 1) - 1 = i
      BY <2>4
    <3>2. QED
      BY <3>1, <2>2
  <2>5. k + 1 \in 1 .. n + 1 /\ ~ (k + 1 <= k)
    OBVIOUS
  <2>6. d[k + 1] = t
    BY <2>2, <2>5
  <2>7. \A i \in 1 .. n : i <= k => d[i] = c[i]
    BY <2>2
  <2>8. QED
    BY <2>3, <2>4, <2>6, <2>7
<1>4. \A i \in 1 .. n + 1 : \/ i \in 1 .. n /\ i <= k /\ d[i] = c[i] /\ d[i] # t
                            \/ i = k + 1 /\ d[i] = t
                            \/ i - 1 \in 1 .. n /\ i - 1 > k /\ d[i] = c[i - 1] /\ d[i] # t
  <2> HIDE DEF d
  <2>1. ASSUME NEW i \in 1 .. n + 1, i > k + 1
        PROVE  i - 1 \in 1 .. n /\ i - 1 > k /\ d[i] = c[i - 1] /\ d[i] # t
    <3>1. i - 1 \in 1 .. n /\ i - 1 > k /\ (i - 1) + 1 = i
      BY <2>1
    <3>2. d[(i - 1) + 1] = c[i - 1]
      BY <3>1, <1>3
    <3>3. QED
      BY <3>1, <3>2, <1>2
  <2>2. ASSUME NEW i \in 1 .. n + 1, i <= k
        PROVE  i \in 1 .. n /\ i <= k /\ d[i] = c[i] /\ d[i] # t
    BY <2>2, <1>2, <1>3
  <2>3. ASSUME NEW i \in 1 .. n + 1, i = k + 1 PROVE d[i] = t
    BY <2>3, <1>3
  <2>4. QED
    BY <2>1, <2>2, <2>3
<1> HIDE DEF d
<1>5. /\ \A u \in Timer : x.next[u] = IF u = t
                                    THEN IF k = 0 THEN tm.head[kind] ELSE tm.next[c[k]]
                                    ELSE IF k > 0 /\ u = c[k] THEN t ELSE tm.next[u]
      /\ x.head[kind] = IF k = 0 THEN t ELSE tm.head[kind]
      /\ \A u \in Timer : x.active[u] = IF u = t THEN TRUE ELSE tm.active[u]
      /\ \A u \in Timer : x.expires[u] = IF u = t THEN e ELSE tm.expires[u]
  BY ZenonT(60), <1>1 DEF Spliced, TimersOK
<1>6. Linked(x, kind, d, n + 1)
  <2>1. ASSUME NEW i \in 1 .. n + 1, NEW j \in 1 .. n + 1, d[i] = d[j] PROVE i = j
    <3>1. CASE d[i] = t
      BY Zenon, <2>1, <3>1, <1>4
    <3>2. CASE d[i] # t
      <4> DEFINE a == IF i <= k THEN i ELSE i - 1
                 b == IF j <= k THEN j ELSE j - 1
      <4>1. a \in 1 .. n /\ b \in 1 .. n /\ d[i] = c[a] /\ d[j] = c[b] /\ i # k + 1 /\ j # k + 1
        BY <2>1, <3>2, <1>4
      <4>2. a = b => i = j
        BY <4>1
      <4> HIDE DEF a, b
      <4>3. \A p, q \in 1 .. n : c[p] = c[q] => p = q
        BY <1>1
      <4>4. QED
        BY <4>1, <4>2, <4>3, <2>1, Zenon
    <3>3. QED
      BY <3>1, <3>2
  <2>2. x.head[kind] = d[1]
    <3>1. CASE k = 0
      BY <3>1, <1>3, <1>5
    <3>2. CASE k > 0
      BY <3>2, <1>1, <1>3, <1>5
    <3>3. QED
      BY <3>1, <3>2
  <2>3. x.next[d[n + 1]] = NoTimer
    <3>1. CASE k = n
      <4>1. d[n + 1] = t
        BY <3>1, <1>3
      <4>2. k = 0 => tm.head[kind] = NoTimer
        BY <3>1, <1>1
      <4>3. k # 0 => tm.next[c[k]] = NoTimer
        BY <3>1, <1>1
      <4>4. QED
        BY <4>1, <4>2, <4>3, <1>5
    <3>2. CASE k < n
      <4>1. d[n + 1] = c[n] /\ n \in 1 .. n
        BY <3>2, <1>3
      <4>2. k > 0 => c[n] # c[k]
        BY <3>2, <1>1
      <4>3. QED
        BY <4>1, <4>2, <1>1, <1>2, <1>5
    <3>3. QED
      BY <3>1, <3>2
  <2>4. ASSUME NEW i \in 1 .. n PROVE x.next[d[i]] = d[i + 1]
    <3>1. CASE i < k
      <4>1. d[i] = c[i] /\ d[i + 1] = c[i + 1] /\ tm.next[c[i]] = c[i + 1] /\ c[i] # c[k]
        BY <3>1, <1>1, <1>3
      <4>2. QED
        BY <4>1, <1>1, <1>2, <1>5
    <3>2. CASE i = k
      <4>1. d[i] = c[k] /\ d[i + 1] = t /\ k > 0
        BY <3>2, <1>3
      <4>2. QED
        BY <4>1, <1>1, <1>2, <1>5, <3>2
    <3>3. CASE i = k + 1
      <4>1. d[i] = t /\ d[i + 1] = c[k + 1] /\ k < n
        BY <3>3, <1>3
      <4>2. k = 0 => tm.head[kind] = c[k + 1]
        BY <4>1, <1>1
      <4>3. k # 0 => tm.next[c[k]] = c[k + 1]
        BY <4>1, <1>1
      <4>4. QED
        BY <4>1, <4>2, <4>3, <1>5
    <3>4. CASE i > k + 1
      <4>1. i - 1 \in 1 .. n - 1 /\ i - 1 \in 1 .. n /\ i - 1 > k /\ i > k /\ (i - 1) + 1 = i
        BY <3>4
      <4>2. d[i + 1] = c[i]
        BY <4>1, <1>3
      <4>3. d[(i - 1) + 1] = c[i - 1] /\ tm.next[c[i - 1]] = c[(i - 1) + 1]
        BY <4>1, <1>1, <1>3
      <4>4. k > 0 => c[i - 1] # c[k]
        BY <4>1, <1>1
      <4>5. c[i - 1] \in Timer /\ c[i - 1] # t
        BY <4>1, <1>1, <1>2
      <4>6. x.next[c[i - 1]] = tm.next[c[i - 1]]
        BY <4>4, <4>5, <1>5
      <4>7. QED
        BY <4>1, <4>2, <4>3, <4>6
    <3>5. QED
      BY <3>1, <3>2, <3>3, <3>4
  <2>5. (n + 1) - 1 = n /\ n + 1 # 0
    OBVIOUS
  <2>6. QED
    BY <1>3, <2>1, <2>2, <2>3, <2>4, <2>5 DEF Linked
<1>7. Holds(x, kind, d, n + 1)
  <2>1. ASSUME NEW i \in 1 .. n PROVE \E j \in 1 .. n + 1 : d[j] = c[i]
    <3>1. CASE i <= k
      BY <3>1, <1>3
    <3>2. CASE i > k
      <4>1. i + 1 \in 1 .. n + 1
        OBVIOUS
      <4>2. QED
        BY <3>2, <4>1, <1>3
    <3>3. QED
      BY <3>1, <3>2
  <2>2. ASSUME NEW j \in 1 .. n + 1 PROVE d[j] = t \/ \E i \in 1 .. n : d[j] = c[i]
    BY <1>4
  <2>3. k + 1 \in 1 .. n + 1 /\ d[k + 1] = t
    BY <1>3
  <2>4. ASSUME NEW u \in Timer
        PROVE  Kind(u) = kind /\ x.active[u] <=> \E i \in 1 .. n + 1 : d[i] = u
    <3>1. Kind(u) = kind /\ tm.active[u] <=> \E i \in 1 .. n : c[i] = u
      BY DEF QueueIs, Holds
    <3>2. x.active[u] <=> u = t \/ tm.active[u]
      BY Zenon, <1>5
    <3>3. QED
      BY <3>1, <3>2, <2>1, <2>2, <2>3
  <2>5. QED
    BY <2>4 DEF Holds
<1>8. InOrder(x, kind, d, n + 1, Q)
  <2>1. \A i, j \in 1 .. n : i < j =>
           /\ tm.expires[c[i]] <= tm.expires[c[j]]
           /\ kind = "hrtimer" /\ tm.expires[c[i]] = tm.expires[c[j]] => <<c[i], c[j]>> \in R
    BY DEF QueueIs, InOrder
  <2>2. \A i \in 1 .. n : x.expires[c[i]] = tm.expires[c[i]] /\ tm.expires[c[i]] \in Nat
    <3>1. \A u \in Timer : tm.expires[u] \in Nat
      BY TimerSets DEF TimersOK
    <3>2. QED
      BY <3>1, <1>1, <1>2, <1>5
  <2>3. x.expires[t] = e
    BY <1>5
  <2>4. kind = "hrtimer" => /\ \A u, v \in Timer : u # t /\ v # t /\ <<u, v>> \in R => <<u, v>> \in Q
                            /\ \A i \in 1 .. n : <<c[i], t>> \in Q
    <3>1. SUFFICES ASSUME kind = "hrtimer"
                   PROVE  /\ \A u, v \in Timer : u # t /\ v # t /\ <<u, v>> \in R => <<u, v>> \in Q
                          /\ \A i \in 1 .. n : <<c[i], t>> \in Q
      OBVIOUS
    <3>2. Q = Without(R, t) \cup ({u \in HTimers \ {t} : tm.active[u]} \X {t})
      BY <3>1, TimerSets DEF StartedLast
    <3>3. ASSUME NEW u, NEW v, u # t, v # t, <<u, v>> \in R PROVE <<u, v>> \in Q
      BY <3>2, <3>3 DEF Without
    <3>4. ASSUME NEW i \in 1 .. n PROVE <<c[i], t>> \in Q
      <4>1. c[i] \in HTimers \ {t} /\ tm.active[c[i]]
        BY <1>1, <1>2, <3>1, TimerSets
      <4>2. QED
        BY <4>1, <3>2
    <3>5. QED
      BY <3>3, <3>4
  <2> HIDE DEF Q
  <2>5. ASSUME NEW i \in 1 .. n + 1, NEW j \in 1 .. n + 1, i < j
        PROVE  /\ x.expires[d[i]] <= x.expires[d[j]]
               /\ kind = "hrtimer" /\ x.expires[d[i]] = x.expires[d[j]] => <<d[i], d[j]>> \in Q
    <3>1. CASE d[i] = t
      <4>1. j - 1 \in 1 .. n /\ j - 1 > k /\ d[j] = c[j - 1]
        BY <2>5, <3>1, <1>4
      <4>2. e <= x.expires[d[j]] /\ (kind = "hrtimer" => e < x.expires[d[j]])
        BY <4>1, <2>2
      <4>3. QED
        BY <3>1, <4>1, <4>2, <2>2, <2>3
    <3>2. CASE d[j] = t
      <4>1. i \in 1 .. n /\ i <= k /\ d[i] = c[i]
        BY <2>5, <3>2, <1>4
      <4>2. x.expires[d[i]] <= e
        BY <4>1, <2>2
      <4>3. QED
        BY <3>2, <4>1, <4>2, <2>3, <2>4
    <3>3. CASE d[i] # t /\ d[j] # t
      <4>1. PICK a \in 1 .. n, b \in 1 .. n : a < b /\ d[i] = c[a] /\ d[j] = c[b]
        <5> DEFINE a == IF i <= k THEN i ELSE i - 1
                   b == IF j <= k THEN j ELSE j - 1
        <5>1. a \in 1 .. n /\ b \in 1 .. n /\ d[i] = c[a] /\ d[j] = c[b] /\ i # k + 1 /\ j # k + 1
          BY <3>3, <1>4
        <5>2. a < b
          BY <5>1, <2>5
        <5> HIDE DEF a, b
        <5>3. QED
          BY <5>1, <5>2, Zenon
      <4>2. c[a] \in Timer /\ c[b] \in Timer
        BY <1>1
      <4>3. /\ tm.expires[c[a]] <= tm.expires[c[b]]
            /\ kind = "hrtimer" /\ tm.expires[c[a]] = tm.expires[c[b]] => <<c[a], c[b]>> \in Q
        BY <4>1, <4>2, <3>3, <2>1, <2>4
      <4>4. QED
        BY <4>1, <4>3, <2>2
    <3>4. QED
      BY <3>1, <3>2, <3>3
  <2>6. QED
    BY <2>5 DEF InOrder
<1>9. QED
  BY <1>3, <1>6, <1>7, <1>8 DEF QueueIs

\* A timer that is not pending, put in its place and marked.
Insert(tm, t, e) == IF t \in KTimers THEN InsertK(tm, t, e) ELSE InsertH(tm, t, e)

\* What the insertion of a timer that is not pending leaves.
LEMMA Inserted ==
    ASSUME NEW tm, NEW R, Good(tm, R), NEW t \in Timer, ~ tm.active[t],
           NEW e \in 0 .. (TickLimit + MaxDelay)
    PROVE  /\ Good(Insert(tm, t, e), StartedLast(R, tm, t))
           /\ Insert(tm, t, e).active = [tm.active EXCEPT ![t] = TRUE]
           /\ Insert(tm, t, e).expires = [tm.expires EXCEPT ![t] = e]
<1> DEFINE x == Insert(tm, t, e)
           Q == StartedLast(R, tm, t)
           ties == t \in HTimers
<1>1. TimersOK(tm) /\ StartsOK(tm, R) /\ Kind(t) \in Kinds /\ e \in Nat
  BY TimerSets DEF Good
<1>0. PICK n \in Nat : \E c \in [1 .. n -> Timer] : QueueIs(tm, Kind(t), c, n, R)
  BY <1>1 DEF Good
<1>2. PICK c \in [1 .. n -> Timer] : QueueIs(tm, Kind(t), c, n, R)
  BY <1>0
<1>3. Chain(tm, Kind(t)) = c
  BY Zenon, <1>2, ListIs DEF QueueIs
<1>4. PICK k \in 0 .. n : IsPlace(tm, c, n, e, ties, k)
  <2>1. InOrder(tm, Kind(t), c, n, R) /\ ties \in BOOLEAN
    BY <1>2 DEF QueueIs
  <2> HIDE DEF ties
  <2>2. QED
    BY <1>1, <2>1, PlaceIs, Zenon
<1>5. x = LinkBehind(tm, t, PlaceFor(tm, c, e, ties), e)
  <2>1. CASE t \in KTimers
    <3>1. Kind(t) = "ktimer" /\ ties = FALSE
      BY <2>1, TimerSets
    <3>2. QED
      BY Zenon, <2>1, <3>1, <1>3 DEF Insert, InsertK, KPlace
  <2>2. CASE t \in HTimers
    <3>1. Kind(t) = "hrtimer" /\ ties = TRUE /\ t \notin KTimers
      BY <2>2, TimerSets
    <3>2. QED
      BY Zenon, <3>1, <1>3 DEF Insert, InsertH, HPlace
  <2>3. QED
    BY <2>1, <2>2, TimerSets
<1>6. \A i \in 1 .. n : c[i] # t
  BY <1>2 DEF QueueIs, Holds
<1>7. Spliced(tm, x, t, e, Kind(t), c, n, k)
  BY Zenon, <1>1, <1>4, <1>5, <1>6, LinkSplices DEF IsPlace
<1>8. Kind(t) = "hrtimer" => ties
  BY TimerSets
<1> HIDE DEF x, ties
<1>9. \A u \in Timer : x.active[u] <=> u = t \/ tm.active[u]
  BY <1>1, <1>7 DEF Spliced, TimersOK
<1>10. TimersOK(x)
  <2>1. x.head \in [Kinds -> Timer \cup {NoTimer}]
    BY <1>1, <1>7 DEF TimersOK, Spliced
  <2>2. x.active \in [Timer -> BOOLEAN]
    BY <1>1, <1>7 DEF TimersOK, Spliced
  <2>3. x.expires \in [Timer -> 0 .. (TickLimit + MaxDelay)]
    BY <1>1, <1>7 DEF TimersOK, Spliced
  <2>4. QED
    BY <1>1, <1>7, <2>1, <2>2, <2>3 DEF TimersOK, Spliced
<1>11. StartsOK(x, Q)
  <2>1. CASE t \in KTimers
    <3>1. Q = R
      BY <2>1 DEF StartedLast
    <3>2. \A u \in HTimers : tm.active[u] => x.active[u]
      BY <1>9, TimerSets
    <3> HIDE DEF Q
    <3>3. QED
      BY <3>1, <3>2, <1>1 DEF StartsOK
  <2>2. CASE t \in HTimers
    <3>1. Q = Without(R, t) \cup ({u \in HTimers \ {t} : tm.active[u]} \X {t})
      BY <2>2, TimerSets DEF StartedLast
    <3>2. \A u \in HTimers : x.active[u] <=> u = t \/ tm.active[u]
      BY <1>9, TimerSets
    <3> HIDE DEF Q
    <3>3. ASSUME NEW p \in Q
          PROVE  \E v, u \in HTimers : p = <<v, u>> /\ x.active[v] /\ x.active[u]
      <4>1. CASE p \in Without(R, t)
        BY <4>1, <3>2, <1>1 DEF Without, StartsOK
      <4>2. CASE p \in {u \in HTimers \ {t} : tm.active[u]} \X {t}
        BY <4>2, <3>2, <2>2
      <4>3. QED
        BY <3>1, <4>1, <4>2
    <3>4. ASSUME NEW v \in HTimers, NEW u \in HTimers, <<v, u>> \in Q PROVE <<u, v>> \notin Q
      <4>1. v # t /\ (u = t \/ <<v, u>> \in R)
        BY <3>1, <3>4 DEF Without
      <4>2. <<u, v>> \in Q => u # t /\ <<u, v>> \in R
        BY <3>1, <4>1 DEF Without
      <4>3. QED
        BY <4>1, <4>2, <1>1 DEF StartsOK
    <3>5. QED
      BY <3>3, <3>4 DEF StartsOK
  <2>3. QED
    BY <2>1, <2>2, TimerSets
<1>12. ASSUME NEW kind \in Kinds
       PROVE  \E m \in Nat : \E d \in [1 .. m -> Timer] : QueueIs(x, kind, d, m, Q)
  <2>1. CASE kind = Kind(t)
    <3> HIDE DEF Q
    <3>1. \A i \in 1 .. n : i <= k => tm.expires[c[i]] <= e
      BY <1>4 DEF IsPlace
    <3>2. \A i \in 1 .. n : i > k => tm.expires[c[i]] >= e /\ (Kind(t) = "hrtimer" => tm.expires[c[i]] > e)
      BY <1>4, <1>8 DEF IsPlace
    <3>3. \E d \in [1 .. n + 1 -> Timer] : QueueIs(x, Kind(t), d, n + 1, Q)
      BY <1>1, <1>2, <1>7, <3>1, <3>2, SplicedQueue DEF Q
    <3>4. n + 1 \in Nat
      OBVIOUS
    <3>5. QED
      BY <3>3, <3>4, <2>1
  <2>2. CASE kind # Kind(t)
    <3>0. PICK m \in Nat : \E d \in [1 .. m -> Timer] : QueueIs(tm, kind, d, m, R)
      BY DEF Good
    <3>1. PICK d \in [1 .. m -> Timer] : QueueIs(tm, kind, d, m, R)
      BY <3>0
    <3>2. x.head[kind] = tm.head[kind]
      BY <1>1, <1>7, <2>2 DEF Spliced, TimersOK
    <3>3. ASSUME NEW u \in Timer, Kind(u) = kind
          PROVE  /\ x.next[u] = tm.next[u] /\ x.active[u] = tm.active[u]
                 /\ x.expires[u] = tm.expires[u]
      <4>1. u # t
        BY <3>3, <2>2
      <4>2. k > 0 => u # c[k]
        <5>1. k > 0 => k \in 1 .. n
          OBVIOUS
        <5>2. QED
          BY <5>1, <3>3, <2>2, <1>2 DEF QueueIs, Holds
      <4>3. x.active[u] = tm.active[u] /\ x.expires[u] = tm.expires[u]
        BY <4>1, <1>7, <1>1 DEF Spliced, TimersOK
      <4>4. x.next[u] = tm.next[u]
        BY <4>1, <4>2, <1>7 DEF Spliced
      <4>5. QED
        BY <4>3, <4>4
    <3>4. kind = "hrtimer" => R \subseteq Q
      BY <2>2, TimerSets DEF StartedLast
    <3> HIDE DEF Q
    <3>5. QueueIs(x, kind, d, m, Q)
      BY <3>1, <3>2, <3>3, <3>4, Untouched
    <3>6. QED
      BY <3>5
  <2>3. QED
    BY <2>1, <2>2
<1>13. QED
  BY <1>7, <1>10, <1>11, <1>12 DEF Good, Spliced, x

\* What a cancel leaves, of a pending timer or of one that is not.
LEMMA Cancelled ==
    ASSUME NEW tm, NEW R, Good(tm, R), NEW t \in Timer
    PROVE  /\ Good(TimerCancelled(tm, t), Without(R, t))
           /\ TimerCancelled(tm, t).active = [tm.active EXCEPT ![t] = FALSE]
           /\ TimerCancelled(tm, t).expires = tm.expires
<1>1. TimerCancelled(tm, t) = IF tm.active[t] THEN CancelActive(tm, t) ELSE tm
  BY DEF TimerCancelled, galio_ktimer_cancel, galio_hrtimer_cancel
<1>2. CASE tm.active[t]
  BY <1>1, <1>2, Removed
<1>3. CASE ~ tm.active[t]
  <2>1. ASSUME NEW p \in R PROVE p[1] # t /\ p[2] # t
    <3>1. PICK v, u \in HTimers : p = <<v, u>> /\ tm.active[v] /\ tm.active[u]
      BY DEF Good, StartsOK
    <3>2. QED
      BY <3>1, <1>3
  <2>2. Without(R, t) = R
    BY <2>1 DEF Without
  <2>3. tm.active = [tm.active EXCEPT ![t] = FALSE]
    BY <1>3 DEF Good, TimersOK
  <2>4. QED
    BY <1>1, <1>3, <2>2, <2>3
<1>4. QED
  BY <1>2, <1>3

\* What a start leaves, of a pending timer or of one that is not.
LEMMA Started ==
    ASSUME NEW tm, NEW R, Good(tm, R), NEW t \in Timer, NEW e \in 0 .. (TickLimit + MaxDelay)
    PROVE  /\ Good(TimerStarted(tm, t, e), StartedLast(R, tm, t))
           /\ TimerStarted(tm, t, e).active = [tm.active EXCEPT ![t] = TRUE]
           /\ TimerStarted(tm, t, e).expires = [tm.expires EXCEPT ![t] = e]
<1> DEFINE y == TimerCancelled(tm, t)
           Q == Without(R, t)
<1>1. TimerStarted(tm, t, e) = Insert(y, t, e)
  BY DEF TimerStarted, galio_ktimer_start, galio_hrtimer_start, Insert, TimerCancelled
<1>2. /\ Good(y, Q) /\ y.active = [tm.active EXCEPT ![t] = FALSE]
      /\ y.expires = tm.expires
  BY Cancelled
<1> HIDE DEF y
<1>3. tm.active \in [Timer -> BOOLEAN]
  BY DEF Good, TimersOK
<1>4. ~ y.active[t]
  BY <1>2, <1>3
<1>5. /\ Good(Insert(y, t, e), StartedLast(Q, y, t))
      /\ Insert(y, t, e).active = [y.active EXCEPT ![t] = TRUE]
      /\ Insert(y, t, e).expires = [y.expires EXCEPT ![t] = e]
  <2> HIDE DEF Q
  <2>1. Good(y, Q)
    BY <1>2
  <2>2. QED
    BY <2>1, <1>4, Inserted
<1>6. StartedLast(Q, y, t) = StartedLast(R, tm, t)
  <2>1. CASE t \in KTimers
    <3>1. ASSUME NEW p \in R PROVE p[1] # t /\ p[2] # t
      <4>1. PICK v, u \in HTimers : p = <<v, u>>
        BY DEF Good, StartsOK
      <4>2. QED
        BY <4>1, <2>1, TimerSets
    <3>2. Without(R, t) = R
      BY <3>1 DEF Without
    <3>3. QED
      BY <2>1, <3>2 DEF StartedLast
  <2>2. CASE t \notin KTimers
    <3>1. Without(Without(R, t), t) = Without(R, t)
      BY DEF Without
    <3>2. ASSUME NEW u \in HTimers \ {t} PROVE y.active[u] = tm.active[u]
      BY <1>2, <1>3, TimerSets
    <3>3. {u \in HTimers \ {t} : y.active[u]} = {u \in HTimers \ {t} : tm.active[u]}
      BY <3>2
    <3>4. QED
      BY <2>2, <3>1, <3>3 DEF StartedLast
  <2>3. QED
    BY <2>1, <2>2
<1>7. [y.active EXCEPT ![t] = TRUE] = [tm.active EXCEPT ![t] = TRUE]
  BY <1>2, <1>3
<1>8. QED
  BY <1>1, <1>2, <1>5, <1>6, <1>7
-----------------------------------------------------------------------------
(* The invariant. *)

\* The first timer of a queue is pending, and no other of its kind expires before it.
LEMMA HeadIs ==
    ASSUME NEW tm, NEW R, Good(tm, R), NEW kind \in Kinds
    PROVE  /\ tm.head[kind] # NoTimer =>
                 /\ tm.head[kind] \in Timer /\ Kind(tm.head[kind]) = kind /\ tm.active[tm.head[kind]]
                 /\ PopHead(tm, tm.head[kind]) = CancelActive(tm, tm.head[kind])
           /\ \A t \in Timer : Kind(t) = kind /\ tm.active[t] =>
                 tm.head[kind] # NoTimer /\ tm.expires[tm.head[kind]] <= tm.expires[t]
<1>0. PICK n \in Nat : \E c \in [1 .. n -> Timer] : QueueIs(tm, kind, c, n, R)
  BY DEF Good
<1>1. PICK c \in [1 .. n -> Timer] : QueueIs(tm, kind, c, n, R)
  BY <1>0
<1>2. TimersOK(tm) /\ Linked(tm, kind, c, n)
  BY <1>1 DEF QueueIs, Good
<1>3. ASSUME tm.head[kind] # NoTimer
      PROVE  /\ tm.head[kind] \in Timer /\ Kind(tm.head[kind]) = kind /\ tm.active[tm.head[kind]]
             /\ PopHead(tm, tm.head[kind]) = CancelActive(tm, tm.head[kind])
  <2> DEFINE t == tm.head[kind]
  <2>1. n > 0 /\ t = c[1] /\ 1 \in 1 .. n
    BY <1>2, <1>3 DEF Linked
  <2>2. t \in Timer /\ Kind(t) = kind /\ tm.active[t]
    BY <2>1, <1>1 DEF QueueIs, Holds
  <2> HIDE DEF t
  <2>3. PopHead(tm, t) = CancelActive(tm, t)
    BY <2>1, <2>2, <1>2, CancelCuts
  <2>4. QED
    BY <2>2, <2>3 DEF t
<1>4. ASSUME NEW t \in Timer, Kind(t) = kind, tm.active[t]
      PROVE  tm.head[kind] # NoTimer /\ tm.expires[tm.head[kind]] <= tm.expires[t]
  <2>1. PICK i \in 1 .. n : c[i] = t
    BY <1>1, <1>4 DEF QueueIs, Holds
  <2>2. n > 0 /\ tm.head[kind] = c[1] /\ 1 \in 1 .. n /\ c[1] \in Timer
    BY <2>1, <1>2 DEF Linked
  <2>3. tm.expires[t] \in Nat
    BY TimerSets, <1>2 DEF TimersOK
  <2>4. i = 1 \/ 1 < i
    OBVIOUS
  <2>5. 1 < i => tm.expires[c[1]] <= tm.expires[c[i]]
    BY Zenon, <1>1, <2>2 DEF QueueIs, InOrder
  <2>6. QED
    BY <2>1, <2>2, <2>3, <2>4, <2>5, TimerSets
<1>5. QED
  BY <1>3, <1>4

\* The function of a timer leaves the queues in order; what it starts is not due.
LEMMA CallbackKeeps ==
    ASSUME NEW tm, NEW t \in Timer, Good(tm, Without(order, t)), Callback(tm, t, Timer),
           ticks \in 0 .. (TickLimit - 1)
    PROVE  /\ Good(timers', order')
           /\ \A u \in Timer : timers'.active[u] =>
                 \/ tm.active[u] /\ timers'.expires[u] = tm.expires[u]
                 \/ timers'.expires[u] \in Later(u)
<1> DEFINE Q == Without(order, t)
<1>1. TimersOK(tm)
  BY DEF Good
<1>2. CASE timers' = tm /\ order' = Without(order, t)
  BY <1>2
<1>3. ASSUME NEW u \in Timer, NEW e \in Later(u),
             timers' = TimerStarted(tm, u, e), order' = StartedLast(Without(order, t), tm, u)
      PROVE  /\ Good(timers', order')
             /\ \A v \in Timer : timers'.active[v] =>
                   \/ tm.active[v] /\ timers'.expires[v] = tm.expires[v]
                   \/ timers'.expires[v] \in Later(v)
  <2>1. e \in 0 .. (TickLimit + MaxDelay)
    BY TimerSets DEF Later
  <2> HIDE DEF Q
  <2>2. /\ Good(TimerStarted(tm, u, e), StartedLast(Q, tm, u))
        /\ TimerStarted(tm, u, e).active = [tm.active EXCEPT ![u] = TRUE]
        /\ TimerStarted(tm, u, e).expires = [tm.expires EXCEPT ![u] = e]
    <3>1. Good(tm, Q)
      BY DEF Q
    <3>2. QED
      BY <3>1, <2>1, Started
  <2>3. ASSUME NEW v \in Timer, timers'.active[v]
        PROVE  \/ tm.active[v] /\ timers'.expires[v] = tm.expires[v]
               \/ timers'.expires[v] \in Later(v)
    BY <1>3, <2>2, <2>3, <1>1 DEF TimersOK
  <2>4. QED
    BY <1>3, <2>2, <2>3 DEF Q
<1>4. ASSUME NEW u \in Timer,
             timers' = TimerCancelled(tm, u), order' = Without(Without(order, t), u)
      PROVE  /\ Good(timers', order')
             /\ \A v \in Timer : timers'.active[v] =>
                   \/ tm.active[v] /\ timers'.expires[v] = tm.expires[v]
                   \/ timers'.expires[v] \in Later(v)
  <2> HIDE DEF Q
  <2>2. /\ Good(TimerCancelled(tm, u), Without(Q, u))
        /\ TimerCancelled(tm, u).active = [tm.active EXCEPT ![u] = FALSE]
        /\ TimerCancelled(tm, u).expires = tm.expires
    <3>1. Good(tm, Q)
      BY DEF Q
    <3>2. QED
      BY <3>1, Cancelled
  <2>3. ASSUME NEW v \in Timer, timers'.active[v]
        PROVE  tm.active[v] /\ timers'.expires[v] = tm.expires[v]
    BY <1>4, <2>2, <2>3, <1>1 DEF TimersOK
  <2>4. QED
    BY <1>4, <2>2, <2>3 DEF Q
<1>5. QED
  BY <1>2, <1>3, <1>4 DEF Callback

\* A round of the loop over a queue: its first timer is due, runs and is not due again.
LEMMA RoundKeeps ==
    ASSUME TimersInv, NEW kind \in Kinds, phase = kind, NEW t, t = timers.head[kind], t # NoTimer,
           Callback(PopHead(timers, t), t, Timer), fired' = fired \cup {t},
           ticks' = ticks, phase' = phase
    PROVE  TimersInv'
<1>1. Good(timers, order) /\ ticks \in 0 .. (TickLimit - 1) /\ fired \subseteq Timer
  BY DEF TimersInv
<1>2. t \in Timer /\ Kind(t) = kind /\ timers.active[t] /\ PopHead(timers, t) = CancelActive(timers, t)
  BY <1>1, HeadIs
<1> DEFINE tm == PopHead(timers, t)
<1>3. /\ Good(tm, Without(order, t)) /\ tm.active = [timers.active EXCEPT ![t] = FALSE]
      /\ tm.expires = timers.expires
  BY <1>1, <1>2, Removed
<1> HIDE DEF tm
<1>4. /\ Good(timers', order')
      /\ \A u \in Timer : timers'.active[u] =>
            \/ tm.active[u] /\ timers'.expires[u] = tm.expires[u]
            \/ timers'.expires[u] \in Later(u)
  BY Zenon, <1>1, <1>2, <1>3, CallbackKeeps DEF tm
<1>5. Good(timers, order)'
  BY <1>4
<1>6. OncePerTick'
  <2>1. SUFFICES ASSUME NEW u \in fired', phase = Kind(u), timers'.active[u]
                 PROVE  IF u \in KTimers THEN ~ (ticks > timers'.expires[u])
                        ELSE ~ (ticks >= timers'.expires[u])
    BY DEF OncePerTick, KDue, HDue
  <2>2. u \in Timer /\ (u = t \/ u \in fired)
    BY <1>1, <1>2, <2>1
  <2>3. CASE tm.active[u] /\ timers'.expires[u] = tm.expires[u]
    <3>1. u # t /\ timers.active[u] /\ timers'.expires[u] = timers.expires[u]
      BY SMTT(30), <2>2, <2>3, <1>1, <1>2, <1>3 DEF Good, TimersOK
    <3>2. QED
      BY SMTT(30), <2>1, <2>2, <3>1 DEF TimersInv, OncePerTick, KDue, HDue
  <2>4. CASE timers'.expires[u] \in Later(u)
    BY <2>4, <1>1, TimerSets DEF Later
  <2>5. QED
    BY <1>4, <2>1, <2>2, <2>3, <2>4
<1>7. phase = "ktimer" => fired' \subseteq KTimers
  BY <1>2, TimerSets DEF TimersInv
<1>8. QED
  BY <1>1, <1>2, <1>5, <1>6, <1>7 DEF TimersInv

\* Both queues are empty at first.
LEMMA TimersStart ==
    ASSUME TimersInit PROVE TimersInv
<1> DEFINE c == [i \in 1 .. 0 |-> NoTimer]
<1>1. c \in [1 .. 0 -> Timer]
  OBVIOUS
<1>2. TimersOK(timers)
  BY TimerSets DEF TimersInit, TimersOK, Kinds
<1>3. StartsOK(timers, order)
  BY DEF TimersInit, StartsOK
<1>4. ASSUME NEW kind \in Kinds PROVE QueueIs(timers, kind, c, 0, order)
  <2>1. timers.head[kind] = NoTimer /\ \A t \in Timer : ~ timers.active[t]
    BY DEF TimersInit, Kinds
  <2> HIDE DEF c
  <2>2. QED
    BY <1>1, <2>1 DEF QueueIs, Linked, Holds, InOrder
<1> HIDE DEF c
<1>5. Good(timers, order)
  <2>1. 0 \in Nat
    OBVIOUS
  <2>2. QED
    BY <1>1, <1>2, <1>3, <1>4, <2>1, Zenon DEF Good
<1>6. OncePerTick
  BY DEF TimersInit, OncePerTick
<1>7. QED
  BY <1>5, <1>6, TimerSets DEF TimersInit, TimersInv

\* Every step keeps the invariant.
LEMMA TimersStep ==
    ASSUME TimersInv, [TimersNext(Timer)]_timerVars PROVE TimersInv'
<1>1. /\ Good(timers, order) /\ ticks \in 0 .. (TickLimit - 1) /\ fired \subseteq Timer
      /\ TickLimit \in Nat \ {0} /\ MaxDelay \in Nat \ {0}
  BY TimerSets DEF TimersInv
<1>2. CASE StartTimer(Timer)
  <2>1. PICK t \in Timer, e \in 0 .. (TickLimit + MaxDelay - 1) :
           /\ phase = "thread"
           /\ timers' = TimerStarted(timers, t, e)
           /\ order' = StartedLast(order, timers, t)
           /\ ticks' = ticks /\ phase' = phase /\ fired' = fired
    BY <1>2 DEF StartTimer
  <2>2. e \in 0 .. (TickLimit + MaxDelay)
    BY <1>1
  <2>3. Good(TimerStarted(timers, t, e), StartedLast(order, timers, t))
    BY Zenon, <1>1, <2>2, Started
  <2>4. Good(timers, order)'
    BY <2>1, <2>3
  <2>5. OncePerTick'
    BY <1>1, <2>1 DEF OncePerTick, Kind
  <2>6. QED
    BY <2>1, <2>4, <2>5 DEF TimersInv
<1>3. CASE CancelTimer(Timer)
  <2>1. PICK t \in Timer :
           /\ phase = "thread"
           /\ timers' = TimerCancelled(timers, t)
           /\ order' = Without(order, t)
           /\ ticks' = ticks /\ phase' = phase /\ fired' = fired
    BY <1>3 DEF CancelTimer
  <2>2. Good(TimerCancelled(timers, t), Without(order, t))
    BY Zenon, <1>1, Cancelled
  <2>3. Good(timers, order)'
    BY <2>1, <2>2
  <2>4. OncePerTick'
    BY <1>1, <2>1 DEF OncePerTick, Kind
  <2>5. QED
    BY <2>1, <2>3, <2>4 DEF TimersInv
<1>4. CASE Tick
  <2>1. ticks' \in 0 .. (TickLimit - 1)
    <3>1. ticks + 1 \in Int
      BY <1>1
    <3>2. (ticks + 1) % TickLimit \in 0 .. (TickLimit - 1)
      BY <1>1, <3>1, Remainder
    <3>3. QED
      BY <3>2, <1>4 DEF Tick
  <2>2. /\ timers' = timers /\ order' = order /\ fired' = {} /\ phase' = "ktimer"
    BY <1>4 DEF Tick
  <2>3. Good(timers, order)'
    BY <1>1, <2>2
  <2>4. OncePerTick'
    BY <2>2 DEF OncePerTick
  <2>5. QED
    BY <2>1, <2>2, <2>3, <2>4 DEF TimersInv
<1>5. CASE galio_ktimer_run_pending(Timer)
  <2>1. "ktimer" \in Kinds
    BY DEF Kinds
  <2>2. QED
    BY <1>5, <2>1, RoundKeeps DEF galio_ktimer_run_pending
<1>6. CASE galio_hrtimer_run_queues(Timer)
  <2>1. "hrtimer" \in Kinds
    BY DEF Kinds
  <2>2. QED
    BY <1>6, <2>1, RoundKeeps DEF galio_hrtimer_run_queues
<1>7. CASE galio_clockevents_tick
  <2>1. /\ ticks' = ticks /\ timers' = timers /\ fired' = fired /\ order' = order
        /\ (phase = "ktimer" /\ phase' = "hrtimer") \/ phase' = "thread"
    BY <1>7 DEF galio_clockevents_tick, QueueDone
  <2>2. Good(timers, order)'
    BY <1>1, <2>1
  <2>3. OncePerTick'
    <3>1. CASE phase' = "thread"
      BY <3>1, <1>1, <2>1 DEF OncePerTick, Kind
    <3>2. CASE phase = "ktimer" /\ phase' = "hrtimer"
      <4>1. \A t \in fired : Kind(t) = "ktimer"
        BY <3>2, TimerSets DEF TimersInv
      <4>2. QED
        BY <4>1, <3>2, <2>1 DEF OncePerTick
    <3>3. QED
      BY <3>1, <3>2, <2>1
  <2>4. QED
    BY <1>1, <2>1, <2>2, <2>3 DEF TimersInv
<1>8. CASE UNCHANGED timerVars
  <2>1. Good(timers, order)'
    BY <1>1, <1>8 DEF timerVars
  <2>2. OncePerTick'
    BY <1>8 DEF timerVars, TimersInv, OncePerTick, KDue, HDue
  <2>3. QED
    BY <1>8, <2>1, <2>2 DEF timerVars, TimersInv
<1>9. QED
  BY <1>2, <1>3, <1>4, <1>5, <1>6, <1>7, <1>8 DEF TimersNext

\* What the invariant says of the queues as the code sees them.
LEMMA InvariantSound ==
    ASSUME TimersInv PROVE TimersRight
<1>1. Good(timers, order) /\ TimersOK(timers) /\ StartsOK(timers, order)
  BY DEF TimersInv, Good
<1>2. TimersTypeOK
  BY <1>1 DEF TimersInv, TimersTypeOK, TimersOK, Kinds
<1>3. ASSUME NEW kind \in Kinds
      PROVE  /\ List!Terminates(Queue(timers, kind))
             /\ List!Members(Queue(timers, kind)) = {t \in Timer : Kind(t) = kind /\ timers.active[t]}
             /\ \A t \in List!Members(Queue(timers, kind)) :
                   timers.next[t] # NoTimer => timers.expires[t] <= timers.expires[timers.next[t]]
  <2>0. PICK n \in Nat : \E c \in [1 .. n -> Timer] : QueueIs(timers, kind, c, n, order)
    BY <1>1 DEF Good
  <2>1. PICK c \in [1 .. n -> Timer] : QueueIs(timers, kind, c, n, order)
    BY <2>0
  <2>2. /\ List!Terminates(Queue(timers, kind))
        /\ List!Members(Queue(timers, kind)) = {c[i] : i \in 1 .. n}
    BY <2>1, ListIs DEF QueueIs
  <2>3. {c[i] : i \in 1 .. n} = {t \in Timer : Kind(t) = kind /\ timers.active[t]}
    BY <2>1 DEF QueueIs, Holds
  <2>4. ASSUME NEW i \in 1 .. n, timers.next[c[i]] # NoTimer
        PROVE  timers.expires[c[i]] <= timers.expires[timers.next[c[i]]]
    <3>1. i \in 1 .. n - 1 /\ i + 1 \in 1 .. n /\ i < i + 1 /\ timers.next[c[i]] = c[i + 1]
      BY <2>1, <2>4 DEF QueueIs, Linked
    <3>2. QED
      BY Zenon, <3>1, <2>1 DEF QueueIs, InOrder
  <2>5. QED
    BY <2>2, <2>3, <2>4
<1>4. QueuesSound
  BY <1>3 DEF QueuesSound, Kinds
<1>5. FirstStartedFirst
  <2> DEFINE kind == "hrtimer"
  <2>0. PICK n \in Nat : \E c \in [1 .. n -> Timer] : QueueIs(timers, kind, c, n, order)
    BY <1>1 DEF Good, Kinds
  <2>1. PICK c \in [1 .. n -> Timer] : QueueIs(timers, kind, c, n, order)
    BY <2>0
  <2>2. Chain(timers, kind) = c /\ DOMAIN c = 1 .. n
    BY Zenon, <2>1, ListIs DEF QueueIs
  <2>3. ASSUME NEW p \in order, timers.expires[p[1]] = timers.expires[p[2]]
        PROVE  \E i, j \in 1 .. n : i < j /\ c[i] = p[1] /\ c[j] = p[2]
    <3>1. PICK v, u \in HTimers : p = <<v, u>> /\ timers.active[v] /\ timers.active[u]
      BY <1>1 DEF StartsOK
    <3>2. <<u, v>> \notin order /\ v # u /\ p[1] = v /\ p[2] = u
      BY <1>1, <3>1 DEF StartsOK
    <3>3. PICK i \in 1 .. n : c[i] = v
      BY <3>1, <2>1, TimerSets DEF QueueIs, Holds
    <3>4. PICK j \in 1 .. n : c[j] = u
      BY <3>1, <2>1, TimerSets DEF QueueIs, Holds
    <3>5. i # j
      BY <3>2, <3>3, <3>4
    <3>6. ~ (j < i)
      BY Zenon, <2>1, <2>3, <3>2, <3>3, <3>4 DEF QueueIs, InOrder
    <3>7. i < j
      BY <3>5, <3>6
    <3>8. QED
      BY <3>2, <3>3, <3>4, <3>7
  <2>4. QED
    BY <2>2, <2>3 DEF FirstStartedFirst
<1>6. QED
  BY <1>2, <1>4, <1>5 DEF TimersRight, TimersInv

\* The timer queues end, hold exactly the active timers in order of expiry, and call no
\* function twice in a tick and hrtimers that expire together in the order of their
\* starts, whatever timer functions start and cancel (ktimer.c:56-152, hrtimer.c:51-147).
THEOREM TimersKept == TimersSpec => []TimersRight
<1>1. TimersInit => TimersInv
  BY TimersStart
<1>2. TimersInv /\ [TimersNext(Timer)]_timerVars => TimersInv'
  BY TimersStep
<1>3. TimersInv => TimersRight
  BY InvariantSound
<1>4. QED
  BY <1>1, <1>2, <1>3, PTL DEF TimersSpec

\* A loop that looks at the first timer only leaves none that is overdue
\* (galio_ktimer_run_pending and galio_hrtimer_run_queues).
THEOREM NoneLeftOverdue == TimersSpec => NothingOverdue
<1> DEFINE A == /\ phase = "ktimer" /\ phase' = "hrtimer" =>
                     \A t \in KTimers : timers.active[t] => timers.expires[t] >= ticks
                /\ phase = "hrtimer" /\ phase' = "thread" =>
                     \A t \in HTimers : timers.active[t] => timers.expires[t] > ticks
<1>1. ASSUME TimersInv, TimersNext(Timer) PROVE A
  <2>1. Good(timers, order) /\ TimersOK(timers) /\ ticks \in Nat
    BY <1>1, TimerSets DEF TimersInv, Good
  <2>2. \A t \in Timer : timers.expires[t] \in Nat
    BY SMTT(30), <2>1, TimerSets DEF TimersOK
  <2>3. CASE phase = "ktimer" /\ phase' = "hrtimer"
    <3>1. timers.head["ktimer"] # NoTimer => ~ (ticks > timers.expires[timers.head["ktimer"]])
      BY <1>1, <2>3 DEF TimersNext, StartTimer, CancelTimer, Tick, galio_ktimer_run_pending,
         galio_hrtimer_run_queues, galio_clockevents_tick, QueueDone, KDue
    <3>2. ASSUME NEW t \in KTimers, timers.active[t] PROVE timers.expires[t] >= ticks
      <4>1. t \in Timer /\ Kind(t) = "ktimer"
        BY TimerSets
      <4>2. /\ timers.head["ktimer"] # NoTimer
            /\ timers.expires[timers.head["ktimer"]] <= timers.expires[t]
            /\ timers.head["ktimer"] \in Timer
        BY <4>1, <3>2, <2>1, HeadIs DEF Kinds
      <4>3. QED
        BY <4>1, <4>2, <3>1, <2>1, <2>2
    <3>3. QED
      BY <3>2, <2>3
  <2>4. CASE phase = "hrtimer" /\ phase' = "thread"
    <3>1. timers.head["hrtimer"] # NoTimer => ~ (ticks >= timers.expires[timers.head["hrtimer"]])
      BY <1>1, <2>4 DEF TimersNext, StartTimer, CancelTimer, Tick, galio_ktimer_run_pending,
         galio_hrtimer_run_queues, galio_clockevents_tick, QueueDone, HDue
    <3>2. ASSUME NEW t \in HTimers, timers.active[t] PROVE timers.expires[t] > ticks
      <4>1. t \in Timer /\ Kind(t) = "hrtimer"
        BY TimerSets
      <4>2. /\ timers.head["hrtimer"] # NoTimer
            /\ timers.expires[timers.head["hrtimer"]] <= timers.expires[t]
            /\ timers.head["hrtimer"] \in Timer
        BY <4>1, <3>2, <2>1, HeadIs DEF Kinds
      <4>3. QED
        BY <4>1, <4>2, <3>1, <2>1, <2>2
    <3>3. QED
      BY SMTT(30), <3>2, <2>4
  <2>5. QED
    BY <2>3, <2>4
<1> HIDE DEF A
<1>2. TimersInit => TimersInv
  BY TimersStart
<1>3. TimersInv /\ [TimersNext(Timer)]_timerVars => TimersInv'
  BY TimersStep
<1>4. TimersInv /\ [TimersNext(Timer)]_timerVars => [A]_timerVars
  BY <1>1
<1>5. TimersSpec => [][A]_timerVars
  BY <1>2, <1>3, <1>4, PTL DEF TimersSpec
<1>6. QED
  BY <1>5 DEF NothingOverdue, A
=============================================================================
