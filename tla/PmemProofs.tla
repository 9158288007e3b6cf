----------------------------- MODULE PmemProofs -----------------------------
(***************************************************************************)
(* What Pmem's runs check on six frames, for every machine: the counts,    *)
(* the bitmap and used_frames are exact, reserved memory is never handed   *)
(* out and an allocation is exclusive, as long as fewer than 2^8 - 1       *)
(* holders share a frame (HoldersAssumption).                              *)
(***************************************************************************)
EXTENDS Pmem, CommonLemmas, FiniteSetTheorems

Offered == (Frames \cap Available) \ Kernel

HoldersIn(m, f) == {h \in Holders : f \in m.held[h]}

Used(m) == {f \in Frames : m.rc[f] > 0}

(***************************************************************************)
(* The inductive invariant, of a memory value: the four tables are         *)
(* functions of the holders' sets.  It is stated of a value rather than of *)
(* the variables because pmem_alloc passes through two of them when the    *)
(* out-of-memory killer runs.                                              *)
(***************************************************************************)
Exact(m) ==
    /\ m.held \in [Holders -> SUBSET Offered]
    /\ m.rc \in [Frames -> 0 .. RefMod - 1]
    /\ \A f \in Frames : m.rc[f] = Cardinality(HoldersIn(m, f)) + BootRef(f)
    /\ m.bm = Used(m) \cup (Frames \ Available)
    /\ m.used = Cardinality(Used(m))

IInv == Exact(Mem) /\ allocation_cursor \in Frames

\* The sets whose cardinalities the tables hold are finite.
LEMMA FiniteFrames ==
    /\ IsFiniteSet(Frames)
    /\ Cardinality(Frames) = MaxFrames
    /\ \A S \in SUBSET Frames :
          IsFiniteSet(S) /\ Cardinality(S) \in Nat /\ Cardinality(S) <= MaxFrames
<1>1. IsFiniteSet(Frames) /\ Cardinality(Frames) = MaxFrames
  BY FS_Interval, SizesAssumption, SMT DEF Frames
<1>2. QED
  BY <1>1, FS_Subset, FS_CardinalityType

LEMMA FiniteHolders ==
    \A S \in SUBSET Holders :
        IsFiniteSet(S) /\ Cardinality(S) \in Nat /\ Cardinality(S) <= Cardinality(Holders)
  BY FS_Subset, FS_CardinalityType, HoldersAssumption

\* ref_frame keeps the tables exact when the holder had none of the frames.
LEMMA RefExact ==
    ASSUME NEW m, Exact(m), NEW h \in Holders, NEW F \in SUBSET Offered,
           F \cap m.held[h] = {}
    PROVE  Exact(RefFrames(m, h, F))
<1> DEFINE n == RefFrames(m, h, F)
           fresh == {f \in F : m.rc[f] = 0}
<1>1. /\ n.bm = m.bm \cup fresh
      /\ n.rc = [f \in Frames |-> IF f \in F THEN (m.rc[f] + 1) % RefMod ELSE m.rc[f]]
      /\ n.used = m.used + Cardinality(fresh)
      /\ n.held = [m.held EXCEPT ![h] = @ \cup F]
  BY DEF RefFrames
<1>2. n.held \in [Holders -> SUBSET Offered]
  BY <1>1 DEF Exact
<1>3. ASSUME NEW f \in Frames
      PROVE  /\ n.rc[f] = Cardinality(HoldersIn(n, f)) + BootRef(f)
             /\ n.rc[f] \in 0 .. RefMod - 1
             /\ f \in F => n.rc[f] = m.rc[f] + 1
             /\ f \notin F => n.rc[f] = m.rc[f]
  <2>1. CASE f \in F
    <3>1. h \notin HoldersIn(m, f) /\ HoldersIn(n, f) = HoldersIn(m, f) \cup {h}
      BY <2>1, <1>1 DEF HoldersIn, Exact
    <3>2. /\ IsFiniteSet(HoldersIn(m, f)) /\ Cardinality(HoldersIn(m, f)) \in Nat
          /\ Cardinality(HoldersIn(n, f)) <= Cardinality(Holders)
      BY FiniteHolders DEF HoldersIn
    <3>3. Cardinality(HoldersIn(n, f)) = Cardinality(HoldersIn(m, f)) + 1
      BY Zenon, <3>1, <3>2, FS_AddElement
    <3>4. BootRef(f) = 0
      BY <2>1 DEF BootRef, Offered
    <3>5. m.rc[f] + 1 < RefMod /\ m.rc[f] \in Nat /\ m.rc[f] = Cardinality(HoldersIn(m, f))
      <4>1. Cardinality(Holders) \in Nat
        BY FS_CardinalityType, HoldersAssumption
      <4>2. QED
        BY <4>1, <3>2, <3>3, <3>4, HoldersAssumption, SMT DEF Exact
    <3>6. (m.rc[f] + 1) % RefMod = m.rc[f] + 1
      BY <3>5, HoldersAssumption, SMT
    <3>7. n.rc[f] = m.rc[f] + 1
      BY <1>1, <2>1, <3>6
    <3>8. QED
      BY <2>1, <3>7, <3>5, <3>3, <3>4, <3>2, HoldersAssumption, SMT
  <2>2. CASE f \notin F
    <3>1. HoldersIn(n, f) = HoldersIn(m, f)
      BY <2>2, <1>1 DEF HoldersIn, Exact
    <3>2. n.rc[f] = m.rc[f]
      BY <1>1, <2>2
    <3>3. QED
      BY <2>2, <3>1, <3>2 DEF Exact
  <2>3. QED
    BY <2>1, <2>2
<1>4. n.rc \in [Frames -> 0 .. RefMod - 1]
  BY <1>1, <1>3, Zenon
<1>5. Used(n) = Used(m) \cup fresh /\ Used(m) \cap fresh = {}
  BY <1>3, SMT DEF Used, Exact, Offered
<1>6. n.used = Cardinality(Used(n))
  <2>1. /\ IsFiniteSet(Used(m)) /\ Cardinality(Used(m)) \in Nat
        /\ IsFiniteSet(fresh) /\ Cardinality(fresh) \in Nat
    <3>1. Used(m) \in SUBSET Frames /\ fresh \in SUBSET Frames
      BY DEF Used, Offered
    <3>2. QED
      BY <3>1, FiniteFrames
  <2>2. Cardinality(Used(n)) = Cardinality(Used(m)) + Cardinality(fresh)
                                - Cardinality(Used(m) \cap fresh)
    BY <2>1, <1>5, FS_Union
  <2>3. Cardinality(Used(m) \cap fresh) = 0
    BY <1>5, FS_EmptySet
  <2>4. m.used = Cardinality(Used(m))
    BY DEF Exact
  <2>5. QED
    BY <2>1, <2>2, <2>3, <2>4, <1>1, SMT
<1>7. n.bm = Used(n) \cup (Frames \ Available)
  BY <1>1, <1>5, ZenonT(60) DEF Exact
<1>8. QED
  BY <1>1, <1>2, <1>3, <1>4, <1>6, <1>7 DEF Exact

\* deref_frame keeps the tables exact when the holder gives up its own frames.
LEMMA DerefExact ==
    ASSUME NEW m, Exact(m), NEW h \in Holders, NEW F \in SUBSET m.held[h]
    PROVE  Exact(DerefFrames(m, h, F))
<1> DEFINE n == DerefFrames(m, h, F)
           last == {f \in F : m.rc[f] = 1}
<1>1. /\ n.bm = m.bm \ last
      /\ n.rc = [f \in Frames |-> IF f \in F /\ m.rc[f] > 0 THEN m.rc[f] - 1 ELSE m.rc[f]]
      /\ n.used = m.used - Cardinality(last)
      /\ n.held = [m.held EXCEPT ![h] = @ \ F]
  BY DEF DerefFrames
<1>2. n.held \in [Holders -> SUBSET Offered] /\ F \subseteq Offered
  BY <1>1 DEF Exact
<1>3. ASSUME NEW f \in Frames
      PROVE  /\ n.rc[f] = Cardinality(HoldersIn(n, f)) + BootRef(f)
             /\ n.rc[f] \in 0 .. RefMod - 1
             /\ f \in F => n.rc[f] = m.rc[f] - 1 /\ m.rc[f] > 0
             /\ f \notin F => n.rc[f] = m.rc[f]
  <2>1. CASE f \in F
    <3>1. h \in HoldersIn(m, f) /\ HoldersIn(n, f) = HoldersIn(m, f) \ {h}
      BY <2>1, <1>1 DEF HoldersIn, Exact
    <3>2. /\ IsFiniteSet(HoldersIn(m, f)) /\ Cardinality(HoldersIn(m, f)) \in Nat
          /\ Cardinality(HoldersIn(n, f)) \in Nat
      BY FiniteHolders DEF HoldersIn
    <3>3. Cardinality(HoldersIn(n, f)) = Cardinality(HoldersIn(m, f)) - 1
      BY Zenon, <3>1, <3>2, FS_RemoveElement
    <3>4. BootRef(f) = 0
      BY <2>1, <1>2 DEF BootRef, Offered
    <3>5. m.rc[f] = Cardinality(HoldersIn(m, f)) /\ m.rc[f] > 0 /\ m.rc[f] \in 0 .. RefMod - 1
      BY <3>2, <3>3, <3>4, SMT DEF Exact
    <3>6. n.rc[f] = m.rc[f] - 1
      BY <1>1, <2>1, <3>5
    <3>7. QED
      BY <2>1, <3>6, <3>5, <3>3, <3>4, <3>2, HoldersAssumption, SMT
  <2>2. CASE f \notin F
    <3>1. HoldersIn(n, f) = HoldersIn(m, f)
      BY <2>2, <1>1 DEF HoldersIn, Exact
    <3>2. n.rc[f] = m.rc[f]
      BY <1>1, <2>2
    <3>3. QED
      BY <2>2, <3>1, <3>2 DEF Exact
  <2>3. QED
    BY <2>1, <2>2
<1>4. n.rc \in [Frames -> 0 .. RefMod - 1]
  BY <1>1, <1>3, Zenon
<1>5. Used(n) = Used(m) \ last /\ Used(m) \cap last = last
  BY <1>2, <1>3, SMT DEF Used, Exact, Offered
<1>6. n.used = Cardinality(Used(n))
  <2>1. IsFiniteSet(Used(m))
    BY FiniteFrames DEF Used
  <2>2. Cardinality(Used(n)) = Cardinality(Used(m)) - Cardinality(last)
    BY Zenon, <2>1, <1>5, FS_Difference
  <2>3. QED
    BY <2>2, <1>1 DEF Exact
<1>7. n.bm = Used(n) \cup (Frames \ Available)
  <2>1. last \cap (Frames \ Available) = {}
    BY <1>2 DEF Offered
  <2>2. QED
    BY <2>1, <1>1, <1>5, Zenon DEF Exact
<1>8. QED
  BY <1>1, <1>2, <1>3, <1>4, <1>6, <1>7 DEF Exact

\* The searches return free frames that may be given out.
LEMMA FitsOffered ==
    ASSUME NEW m, Exact(m), NEW lo, NEW hi \in Int, hi <= MaxFrames,
           NEW n \in Nat \ {0}, NEW f \in Fits(m.bm, lo, hi, n)
    PROVE  /\ Run(f, n) \in SUBSET Offered
           /\ \A h \in Holders : Run(f, n) \cap m.held[h] = {}
<1>1. f \in Frames /\ f + n <= hi /\ Run(f, n) \cap m.bm = {}
  BY DEF Fits
<1>2. Run(f, n) \subseteq Frames
  BY <1>1, SizesAssumption, SMT DEF Run, Frames
<1>3. ASSUME NEW g \in Run(f, n)
      PROVE  g \in Offered /\ \A h \in Holders : g \notin m.held[h]
  <2>1. g \in Frames /\ g \notin Used(m) /\ g \in Available
    BY <1>1, <1>2 DEF Exact
  <2>2. /\ Cardinality(HoldersIn(m, g)) \in Nat /\ IsFiniteSet(HoldersIn(m, g))
        /\ m.rc[g] = Cardinality(HoldersIn(m, g)) + BootRef(g)
        /\ m.rc[g] = 0
    <3>1. m.rc[g] = 0
      BY <2>1, HoldersAssumption, SMT DEF Used, Exact
    <3>2. QED
      BY <3>1, <2>1, FiniteHolders DEF Exact, HoldersIn
  <2>3. BootRef(g) = 0 /\ Cardinality(HoldersIn(m, g)) = 0
    BY <2>2, SMT DEF BootRef
  <2>4. g \notin Kernel
    BY <2>3 DEF BootRef
  <2>5. HoldersIn(m, g) = {}
    BY <2>2, <2>3, FS_EmptySet
  <2>6. QED
    BY <2>1, <2>4, <2>5 DEF Offered, HoldersIn
<1>4. QED
  BY <1>3

LEMMA InitExact == Init => IInv
<1> SUFFICES ASSUME Init PROVE IInv
  OBVIOUS
<1> USE DEF Mem
<1>1. Kernel \in SUBSET Frames /\ IsFiniteSet(Kernel) /\ Cardinality(Kernel) = KernelEnd
  BY FS_Interval, SizesAssumption, SMT DEF Kernel, Frames
<1>2. 0 \in Frames
  BY SizesAssumption, SMT DEF Frames
<1>3. Mem.held \in [Holders -> SUBSET Offered]
  BY DEF Init
<1>4. RefMod > 1
  BY HoldersAssumption, FS_CardinalityType, SMT
<1>5. Mem.rc \in [Frames -> 0 .. RefMod - 1]
  BY <1>4, HoldersAssumption, SMT DEF Init
<1>6. ASSUME NEW f \in Frames
      PROVE  Mem.rc[f] = Cardinality(HoldersIn(Mem, f)) + BootRef(f)
  <2>1. HoldersIn(Mem, f) = {}
    BY DEF Init, HoldersIn
  <2>2. Cardinality(HoldersIn(Mem, f)) = 0
    BY <2>1, FS_EmptySet
  <2>3. QED
    BY <2>2, SMT DEF Init, BootRef
<1>7. Used(Mem) = Kernel
  BY <1>1, SMT DEF Init, Used
<1>8. QED
  BY <1>1, <1>2, <1>3, <1>5, <1>6, <1>7, Zenon DEF Init, IInv, Exact

\* A step that becomes an exact memory value and keeps the cursor in range
\* preserves the invariant.
LEMMA BecomeExact ==
    ASSUME NEW m, Exact(m), Become(m), allocation_cursor' \in Frames
    PROVE  IInv'
<1>1. /\ Mem'.held = m.held /\ Mem'.rc = m.rc /\ Mem'.bm = m.bm /\ Mem'.used = m.used
  BY DEF Become, Mem
<1>2. \A f \in Frames : HoldersIn(Mem', f) = HoldersIn(m, f)
  BY <1>1 DEF HoldersIn
<1>3. Used(Mem') = Used(m)
  BY <1>1 DEF Used
<1>4. Exact(Mem')
  BY <1>1, <1>2, <1>3 DEF Exact
<1>5. QED
  BY <1>4 DEF IInv, Exact, Mem, HoldersIn, Used

\* The out-of-memory check hands the search an exact memory in which the
\* requester's own frames are untouched.
LEMMA OomExact ==
    ASSUME IInv, NEW h \in Holders, NEW n, NEW m \in AfterOomCheck(h, n)
    PROVE  /\ Exact(m)
           /\ m.held[h] = held[h]
           /\ \A g \in Holders : m.held[g] \subseteq held[g]
<1>0. Exact(Mem) /\ Mem.held = held /\ held \in [Holders -> SUBSET Offered]
  BY DEF IInv, Mem, Exact
<1>1. CASE m = Mem
  BY <1>0, <1>1
<1>2. CASE \E v \in Processes \ {h} : m = DerefFrames(Mem, v, held[v])
  <2>1. PICK v \in Processes \ {h} : m = DerefFrames(Mem, v, held[v])
    BY <1>2
  <2>2. v \in Holders /\ held[v] \in SUBSET Mem.held[v]
    BY <1>0, HoldersAssumption
  <2>3. Exact(DerefFrames(Mem, v, held[v]))
    BY <2>2, <1>0, DerefExact
  <2>4. m.held = [held EXCEPT ![v] = @ \ held[v]]
    BY <2>1, <1>0 DEF DerefFrames
  <2>5. QED
    BY <2>1, <2>3, <2>4, <1>0
<1>3. QED
  BY <1>1, <1>2 DEF AfterOomCheck

\* What a successful search of pmem_alloc yields.
LEMMA NextFitOffered ==
    ASSUME NEW m, Exact(m), NEW n \in Nat \ {0}, NEW f \in Frames,
           allocation_cursor \in Frames, NextFit(m.bm, n, f)
    PROVE  /\ Run(f, n) \in SUBSET Offered
           /\ \A h \in Holders : Run(f, n) \cap m.held[h] = {}
<1>1. \/ f \in Fits(m.bm, allocation_cursor, MaxFrames, n)
      \/ f \in Fits(m.bm, 0, allocation_cursor, n)
  BY DEF NextFit, IsFirst
<1>2. /\ MaxFrames \in Int /\ MaxFrames <= MaxFrames
      /\ allocation_cursor \in Int /\ allocation_cursor <= MaxFrames
  BY SizesAssumption, SMT DEF Frames
<1>3. CASE f \in Fits(m.bm, allocation_cursor, MaxFrames, n)
  BY <1>3, <1>2, FitsOffered
<1>4. CASE f \in Fits(m.bm, 0, allocation_cursor, n)
  BY Zenon, <1>4, <1>2, FitsOffered
<1>5. QED
  BY <1>1, <1>3, <1>4

LEMMA RegionFitsOffered ==
    ASSUME IInv, NEW n \in Nat \ {0}, NEW lo \in Nat, NEW hi \in Nat,
           NEW f \in RegionFits(n, lo, hi)
    PROVE  /\ Run(f, n) \in SUBSET Offered
           /\ \A h \in Holders : Run(f, n) \cap held[h] = {}
<1> DEFINE end == hi \div FrameSize
           top == IF end > MaxFrames THEN MaxFrames ELSE end
<1>1. top \in Int /\ top <= MaxFrames
  BY SizesAssumption, SMT
<1>2. PICK lo1 : f \in Fits(Mem.bm, lo1, top, n)
  BY DEF RegionFits, Mem
<1>3. Exact(Mem) /\ Mem.held = held
  BY DEF IInv, Mem
<1>4. QED
  BY Zenon, <1>1, <1>2, <1>3, FitsOffered

LEMMA RunSizes == \A n \in 1 .. MaxRun : n \in Nat \ {0}
  BY SizesAssumption, SMT

LEMMA AllocStep1 ==
    ASSUME IInv, NEW h \in Holders, NEW n \in 1 .. MaxRun, pmem_alloc(h, n)
    PROVE  IInv'
<1>0. n \in Nat \ {0} /\ allocation_cursor \in Frames
  BY RunSizes DEF IInv
<1>1. PICK m \in AfterOomCheck(h, n) :
        \/ \E f \in Frames :
              /\ NextFit(m.bm, n, f)
              /\ Become(RefFrames(m, h, Run(f, n)))
              /\ allocation_cursor' = NextCursor(f, n)
        \/ Become(m) /\ UNCHANGED allocation_cursor
  BY DEF pmem_alloc
<1>2. Exact(m)
  BY OomExact
<1>3. CASE Become(m) /\ UNCHANGED allocation_cursor
  BY <1>0, <1>2, <1>3, BecomeExact
<1>4. ASSUME NEW f \in Frames, NextFit(m.bm, n, f),
             Become(RefFrames(m, h, Run(f, n))), allocation_cursor' = NextCursor(f, n)
      PROVE  IInv'
  <2>1. Run(f, n) \in SUBSET Offered /\ Run(f, n) \cap m.held[h] = {}
    BY <1>0, <1>2, <1>4, NextFitOffered
  <2>2. Exact(RefFrames(m, h, Run(f, n)))
    BY <1>2, <2>1, RefExact
  <2>3. allocation_cursor' \in Frames
    BY <1>0, <1>4, SizesAssumption, SMT DEF NextCursor, Frames
  <2>4. QED
    BY <2>2, <2>3, <1>4, BecomeExact
<1>5. QED
  BY <1>1, <1>3, <1>4

LEMMA RegionStep ==
    ASSUME IInv, NEW h \in Holders, NEW n \in 1 .. MaxRun, NEW w \in Windows,
           pmem_alloc_region(h, n, w[1], w[2])
    PROVE  IInv'
<1>0. n \in Nat \ {0} /\ allocation_cursor \in Frames /\ w[1] \in Nat /\ w[2] \in Nat
  BY RunSizes, SizesAssumption DEF IInv
<1>1. PICK f \in Frames : /\ f \in RegionFits(n, w[1], w[2])
                          /\ Become(RefFrames(Mem, h, Run(f, n)))
  BY DEF pmem_alloc_region, IsFirst
<1>2. Run(f, n) \in SUBSET Offered /\ Run(f, n) \cap held[h] = {}
  BY <1>0, <1>1, RegionFitsOffered
<1>3. Exact(Mem) /\ Mem.held = held
  BY DEF IInv, Mem
<1>4. Exact(RefFrames(Mem, h, Run(f, n)))
  BY <1>2, <1>3, RefExact
<1>5. allocation_cursor' \in Frames
  BY <1>0 DEF pmem_alloc_region
<1>6. QED
  BY <1>1, <1>4, <1>5, BecomeExact

\* Releasing frames, by pmem_free or by pmem_refcount_dec.
LEMMA ReleaseStep ==
    ASSUME IInv, NEW h \in Holders, NEW F \in SUBSET held[h],
           Become(DerefFrames(Mem, h, F)), UNCHANGED allocation_cursor
    PROVE  IInv'
<1>1. Exact(Mem) /\ F \in SUBSET Mem.held[h] /\ allocation_cursor' \in Frames
  BY DEF IInv, Mem
<1>2. Exact(DerefFrames(Mem, h, F))
  BY <1>1, DerefExact
<1>3. QED
  BY <1>1, <1>2, BecomeExact

LEMMA ShareStep ==
    ASSUME IInv, NEW h \in Holders, NEW f \in Frames, pmem_refcount_inc(h, f)
    PROVE  IInv'
<1>1. Exact(Mem) /\ Mem.held = held /\ allocation_cursor' \in Frames
  BY DEF IInv, Mem, pmem_refcount_inc
<1>2. {f} \in SUBSET Offered /\ {f} \cap Mem.held[h] = {}
  BY <1>1 DEF pmem_refcount_inc, Exact
<1>3. Exact(RefFrames(Mem, h, {f}))
  BY <1>1, <1>2, RefExact
<1>4. QED
  BY <1>1, <1>3, BecomeExact DEF pmem_refcount_inc

LEMMA NextExact == IInv /\ [Next]_vars => IInv'
<1> SUFFICES ASSUME IInv, [Next]_vars PROVE IInv'
  OBVIOUS
<1>1. ASSUME NEW h \in Holders, NEW n \in 1 .. MaxRun, pmem_alloc(h, n)
      PROVE  IInv'
  BY <1>1, AllocStep1
<1>2. ASSUME NEW h \in Holders, NEW n \in 1 .. MaxRun, NEW w \in Windows,
             pmem_alloc_region(h, n, w[1], w[2])
      PROVE  IInv'
  BY <1>2, RegionStep
<1>3. ASSUME NEW h \in Holders, NEW f \in Frames, NEW n \in 1 .. MaxRun, pmem_free(h, f, n)
      PROVE  IInv'
  BY <1>3, ReleaseStep DEF pmem_free
<1>4. ASSUME NEW h \in Holders, NEW f \in Frames, pmem_refcount_inc(h, f)
      PROVE  IInv'
  BY <1>4, ShareStep
<1>5. ASSUME NEW h \in Holders, NEW f \in Frames, pmem_refcount_dec(h, f)
      PROVE  IInv'
  <2>1. {f} \in SUBSET held[h]
    BY <1>5 DEF pmem_refcount_dec
  <2>2. QED
    BY <1>5, <2>1, ReleaseStep DEF pmem_refcount_dec
<1>6. CASE UNCHANGED vars
  <2>1. Become(Mem) /\ allocation_cursor' \in Frames
    BY <1>6 DEF vars, Become, Mem, IInv
  <2>2. QED
    BY <2>1, BecomeExact DEF IInv
<1>7. QED
  BY <1>1, <1>2, <1>3, <1>4, <1>5, <1>6 DEF Next

\* The invariant implies every state property of the allocator.
LEMMA Consequences ==
    IInv => TypeOK /\ RefcountExact /\ TablesExact /\ OnlyOfferedFrames
<1> SUFFICES ASSUME IInv
             PROVE  TypeOK /\ RefcountExact /\ TablesExact /\ OnlyOfferedFrames
  OBVIOUS
<1> USE DEF Mem
<1>1. Exact(Mem) /\ allocation_cursor \in Frames
  BY DEF IInv
<1>2. \A f \in Frames : HoldersIn(Mem, f) = HoldersOf(f)
  BY DEF HoldersIn, HoldersOf
<1>3. RefcountExact
  BY <1>1, <1>2 DEF Exact, RefcountExact
<1>4. Used(Mem) = {f \in Frames : frame_refcount[f] > 0}
  BY DEF Used
<1>5. TablesExact
  BY ZenonT(60), <1>1, <1>4 DEF Exact, TablesExact
<1>6. OnlyOfferedFrames
  BY <1>1 DEF Exact, OnlyOfferedFrames, Offered
<1>7. used_frames \in 0 .. MaxFrames
  <2>1. /\ Cardinality(Used(Mem)) \in Nat /\ Cardinality(Used(Mem)) <= MaxFrames
        /\ used_frames = Cardinality(Used(Mem))
    BY <1>1, FiniteFrames DEF Used, Exact
  <2>2. QED
    BY <2>1, SizesAssumption, SMT
<1>8. TypeOK
  <2>1. frame_bitmap \subseteq Frames
    BY <1>5 DEF TablesExact
  <2>2. frame_refcount \in [Frames -> 0 .. RefMod - 1] /\ held \in [Holders -> SUBSET Frames]
    BY <1>1 DEF Exact, Offered
  <2>3. QED
    BY <1>1, <1>7, <2>1, <2>2 DEF TypeOK
<1>9. QED
  BY <1>3, <1>5, <1>6, <1>8

\* The invariant holds in every reachable state of every machine.
THEOREM Invariance == Spec => []IInv
  BY InitExact, NextExact, PTL DEF Spec

\* A non-empty set of frames has a first one.
LEMMA FirstExists ==
    ASSUME NEW S, S \subseteq Frames, S # {}
    PROVE  \E f \in Frames : IsFirst(f, S)
<1>1. S \subseteq Nat
  BY SizesAssumption DEF Frames
<1>2. PICK f \in S : \A g \in S : f <= g
  BY Zenon, <1>1, LeastNatural
<1>3. QED
  BY <1>2 DEF IsFirst

\* Between them the two passes of the search see every frame.
LEMMA SearchComplete ==
    ASSUME TypeOK PROVE SingleFrameFound
<1> DEFINE above == Fits(frame_bitmap, allocation_cursor, MaxFrames, 1)
           below == Fits(frame_bitmap, 0, allocation_cursor, 1)
<1>1. SUFFICES ASSUME NEW g \in Frames, g \notin frame_bitmap
               PROVE  \E f \in Frames : NextFit(frame_bitmap, 1, f)
  BY DEF SingleFrameFound
<1>2. above \subseteq Frames /\ below \subseteq Frames
  BY DEF Fits
<1>3. g \in above \/ g \in below
  <2>1. g \in Nat /\ g < MaxFrames /\ allocation_cursor \in Nat /\ MaxFrames \in Nat
    BY SizesAssumption DEF TypeOK, Frames
  <2>2. Run(g, 1) = {g}
    BY <2>1 DEF Run
  <2>3. Run(g, 1) \cap frame_bitmap = {}
    BY <2>2, <1>1
  <2>4. \/ allocation_cursor <= g /\ g + 1 <= MaxFrames
        \/ 0 <= g /\ g + 1 <= allocation_cursor
    BY <2>1
  <2>5. QED
    BY <2>3, <2>4 DEF Fits
<1> HIDE DEF above, below
<1>4. \E f \in Frames : IsFirst(f, IF above # {} THEN above ELSE below)
  <2>1. CASE above # {}
    BY <2>1, <1>2, FirstExists
  <2>2. CASE above = {}
    BY <2>2, <1>2, <1>3, FirstExists
  <2>3. QED
    BY <2>1, <2>2
<1>5. QED
  BY <1>4 DEF NextFit, above, below

\* A page is found whenever one is free, wherever the cursor stands (pmem.c:232-253).
THEOREM SearchFinds == Spec => []FrameFound
<1>1. IInv => FrameFound
  BY Consequences, SearchComplete DEF FrameFound
<1>2. QED
  BY <1>1, Invariance, PTL

\* Type correctness; in particular used_frames never passes the bitmap's size
\* and never goes below zero (pmem.c:110-127).
THEOREM TypeCorrect == Spec => []TypeOK
  BY Invariance, Consequences, PTL

\* The reference counts are exact: no use after free and no leak, for any number
\* of holders an eight-bit count can represent (pmem.c:110-127, 298-324).
THEOREM RefcountCorrect == Spec => []RefcountExact
  BY Invariance, Consequences, PTL

\* The bitmap and the used count agree with the reference counts (pmem.c:95-127).
THEOREM TablesAgree == Spec => []TablesExact
  BY Invariance, Consequences, PTL

\* Low memory, the kernel, its heap and memory outside the map are never handed
\* out (pmem.c:129-215, 217-296).
THEOREM ReservedMemorySafe == Spec => []OnlyOfferedFrames
  BY Invariance, Consequences, PTL

\* The frames an allocation adds to a holder belong to no other holder
\* afterwards, also when a victim was killed to make room (pmem.c:217-296).
LEMMA AllocationStepExclusive ==
    ASSUME IInv, AllocStep, NEW h \in Holders, NEW g \in Holders, h # g
    PROVE  (held'[h] \ held[h]) \cap held'[g] = {}
<1>0. Exact(Mem) /\ Mem.held = held /\ allocation_cursor \in Frames
      /\ held \in [Holders -> SUBSET Offered]
  BY DEF IInv, Mem, Exact
<1>1. ASSUME NEW k \in Holders, NEW n \in 1 .. MaxRun, pmem_alloc(k, n)
      PROVE  (held'[h] \ held[h]) \cap held'[g] = {}
  <2>0. n \in Nat \ {0}
    BY RunSizes
  <2>1. PICK m \in AfterOomCheck(k, n) :
          \/ \E f \in Frames :
                NextFit(m.bm, n, f) /\ Become(RefFrames(m, k, Run(f, n)))
          \/ Become(m)
    BY <1>1 DEF pmem_alloc
  <2>2. Exact(m) /\ \A j \in Holders : m.held[j] \subseteq held[j]
    BY OomExact
  <2>3. CASE Become(m)
    BY <2>2, <2>3 DEF Become
  <2>4. ASSUME NEW f \in Frames, NextFit(m.bm, n, f), Become(RefFrames(m, k, Run(f, n)))
        PROVE  (held'[h] \ held[h]) \cap held'[g] = {}
    <3>1. \A j \in Holders : Run(f, n) \cap m.held[j] = {}
      BY <1>0, <2>0, <2>2, <2>4, NextFitOffered
    <3>2. held' = [m.held EXCEPT ![k] = @ \cup Run(f, n)]
      BY <2>4 DEF Become, RefFrames
    <3>3. m.held \in [Holders -> SUBSET Offered]
      BY <2>2 DEF Exact
    <3>4. QED
      BY <3>1, <3>2, <3>3, <2>2
  <2>5. QED
    BY <2>1, <2>3, <2>4
<1>2. ASSUME NEW k \in Holders, NEW n \in 1 .. MaxRun, NEW w \in Windows,
             pmem_alloc_region(k, n, w[1], w[2])
      PROVE  (held'[h] \ held[h]) \cap held'[g] = {}
  <2>0. n \in Nat \ {0} /\ w[1] \in Nat /\ w[2] \in Nat
    BY RunSizes, SizesAssumption
  <2>1. PICK f \in Frames : /\ f \in RegionFits(n, w[1], w[2])
                            /\ Become(RefFrames(Mem, k, Run(f, n)))
    BY <1>2 DEF pmem_alloc_region, IsFirst
  <2>2. \A j \in Holders : Run(f, n) \cap held[j] = {}
    BY <2>0, <2>1, RegionFitsOffered
  <2>3. held' = [held EXCEPT ![k] = @ \cup Run(f, n)]
    BY <2>1 DEF Become, RefFrames, Mem
  <2>4. QED
    BY <2>2, <2>3, <1>0
<1>3. QED
  BY <1>1, <1>2 DEF AllocStep

\* Two holders never receive the same frame from the allocator (pmem.c:217-296).
THEOREM AllocationExclusive == Spec => AllocationIsExclusive
<1>1. IInv => (AllocStep => \A h, g \in Holders : h # g =>
                  (held'[h] \ held[h]) \cap held'[g] = {})
  BY AllocationStepExclusive
<1>2. QED
  BY <1>1, Invariance, PTL DEF AllocationIsExclusive
=============================================================================
