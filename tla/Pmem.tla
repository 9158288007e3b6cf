-------------------------------- MODULE Pmem --------------------------------
(***************************************************************************)
(* The physical frame allocator, kernel/mm/pmem.c.                         *)
(*                                                                         *)
(* A frame is in use when its bit of frame_bitmap is set; frame_refcount   *)
(* counts the references taken on it and used_frames the frames whose      *)
(* count is not zero.  pmem_alloc searches next-fit from allocation_cursor *)
(* and calls the out-of-memory killer when the free estimate is too small; *)
(* pmem_alloc_region searches first-fit inside an address window.          *)
(*                                                                         *)
(* A holder is one bearer of references: an address space's mapping of a   *)
(* page, a shared memory segment, a DMA buffer, a kernel stack.  It holds  *)
(* at most one reference to a frame.  The holders' sets are kept in the    *)
(* history variable `held': the allocator does not record who holds what,  *)
(* its properties are about nothing else.                                  *)
(***************************************************************************)
EXTENDS Integers, FiniteSets

CONSTANTS
    FrameSize,      \* FRAME_SIZE, in bytes
    MaxFrames,      \* BITMAP_SIZE * 8: the frames the bitmap can describe
    LowEnd,         \* 0x100000 / FRAME_SIZE: end of low memory
    KernelEnd,      \* KERNEL_HEAP_END / FRAME_SIZE: end of the kernel and its heap
    Available,      \* frames the memory map calls available, some past the bitmap
    Holders,        \* bearers of references
    Processes,      \* the holders process_oom_kill can choose as its victim
    MaxRun,         \* the largest number of frames asked for in one call
    Windows,        \* the <<min_addr, max_addr>> pmem_alloc_region is called with
    RefMod,         \* frame_refcount entries are u8: they count modulo 2^8
    WordMod         \* total_frames - used_frames is u32: computed modulo 2^32

Frames == 0 .. MaxFrames - 1
Kernel == 0 .. KernelEnd - 1

ASSUME SizesAssumption ==
    /\ FrameSize \in Nat \ {0} /\ MaxFrames \in Nat \ {0}
    /\ LowEnd \in Nat /\ KernelEnd \in Nat
    /\ LowEnd <= KernelEnd /\ KernelEnd <= MaxFrames
    /\ MaxRun \in Nat \ {0} /\ WordMod \in Nat \ {0}
    /\ Available \subseteq Nat /\ IsFiniteSet(Available)
    /\ Windows \subseteq Nat \X Nat

(***************************************************************************)
(* frame_refcount is eight bits wide: a frame with fewer references than   *)
(* that, the one pmem_init takes for the kernel included, never wraps.     *)
(***************************************************************************)
ASSUME HoldersAssumption ==
    /\ IsFiniteSet(Holders) /\ Processes \subseteq Holders
    /\ RefMod \in Nat /\ Cardinality(Holders) + 1 < RefMod

VARIABLES
    frame_bitmap,       \* the set of frames whose bit is set
    frame_refcount,
    used_frames,
    allocation_cursor,
    held                \* history: the frames each holder has a reference to

vars == <<frame_bitmap, frame_refcount, used_frames, allocation_cursor, held>>

total_frames == Cardinality(Available)

(***************************************************************************)
(* The allocator's tables and the holders, as one value that the routines  *)
(* below transform.                                                        *)
(***************************************************************************)
Mem == [bm |-> frame_bitmap, rc |-> frame_refcount, used |-> used_frames,
        held |-> held]

Become(m) ==
    /\ frame_bitmap' = m.bm
    /\ frame_refcount' = m.rc
    /\ used_frames' = m.used
    /\ held' = m.held

\* Deliberate faults (names in Bug...), each a slip in the definition that
\* follows it; the runs' properties are shown to notice them.

\* deref_frame frees a frame on its first release.
BugDerefFreesShared(m, h, F) ==
    [bm   |-> m.bm \ F,
     rc   |-> [f \in Frames |-> IF f \in F THEN 0 ELSE m.rc[f]],
     used |-> m.used - Cardinality(F),
     held |-> [m.held EXCEPT ![h] = @ \ F]]

\* deref_frame clears the bit before it looks at the count.
BugDerefClearsBit(m, h, F) ==
    [bm   |-> m.bm \ F,
     rc   |-> [f \in Frames |-> IF f \in F /\ m.rc[f] > 0 THEN m.rc[f] - 1 ELSE m.rc[f]],
     used |-> m.used - Cardinality({f \in F : m.rc[f] = 1}),
     held |-> [m.held EXCEPT ![h] = @ \ F]]

\* ref_frame on every frame of F, the references going to holder h.
RefFrames(m, h, F) ==
    LET fresh == {f \in F : m.rc[f] = 0} IN
    [bm   |-> m.bm \cup fresh,
     rc   |-> [f \in Frames |-> IF f \in F THEN (m.rc[f] + 1) % RefMod ELSE m.rc[f]],
     used |-> m.used + Cardinality(fresh),
     held |-> [m.held EXCEPT ![h] = @ \cup F]]

\* deref_frame on every frame of F, the references being holder h's.
DerefFrames(m, h, F) ==
    LET last == {f \in F : m.rc[f] = 1} IN
    [bm   |-> m.bm \ last,
     rc   |-> [f \in Frames |-> IF f \in F /\ m.rc[f] > 0 THEN m.rc[f] - 1 ELSE m.rc[f]],
     used |-> m.used - Cardinality(last),
     held |-> [m.held EXCEPT ![h] = @ \ F]]

\* pmem_init's loop over the kernel starts one frame late.
BugInitKernelFree ==
    /\ frame_bitmap = (Frames \ Available) \cup (Kernel \ {LowEnd})
    /\ frame_refcount = [f \in Frames |-> IF f \in Kernel \ {LowEnd} THEN 1 ELSE 0]
    /\ used_frames = Cardinality(Kernel \ {LowEnd})
    /\ allocation_cursor = 0
    /\ held = [h \in Holders |-> {}]

(***************************************************************************)
(* pmem_init: every bit set, the bits of the memory map's available frames *)
(* cleared, then the kernel's and the low frames referenced.               *)
(***************************************************************************)
Init ==
    /\ frame_bitmap = (Frames \ Available) \cup Kernel
    /\ frame_refcount = [f \in Frames |-> IF f \in Kernel THEN 1 ELSE 0]
    /\ used_frames = KernelEnd
    /\ allocation_cursor = 0
    /\ held = [h \in Holders |-> {}]

Run(f, n) == f .. f + n - 1

\* The search looks at one frame too few.
BugFitsShort(bm, lo, hi, n) ==
    {f \in Frames : lo <= f /\ f + n <= hi /\ f \notin bm /\ Run(f, n - 1) \cap bm = {}}

\* Where a run of n free frames starts, between frame lo and frame hi.
Fits(bm, lo, hi, n) ==
    {f \in Frames : lo <= f /\ f + n <= hi /\ Run(f, n) \cap bm = {}}

IsFirst(f, S) == f \in S /\ \A g \in S : f <= g

\* The search does not wrap around to frame 0.
BugOnePass(bm, n, f) == IsFirst(f, Fits(bm, allocation_cursor, MaxFrames, n))

\* pmem_alloc's two passes: from the cursor up, then from frame 0 to the cursor.
NextFit(bm, n, f) ==
    LET above == Fits(bm, allocation_cursor, MaxFrames, n)
        below == Fits(bm, 0, allocation_cursor, n)
    IN  IsFirst(f, IF above # {} THEN above ELSE below)

\* The cursor is advanced without the modulus.
BugCursor(f, n) == f + n

\* Where the next search starts.
NextCursor(f, n) == (f + n) % MaxFrames

\* What process_oom_kill leaves: the memory with all of a victim's references
\* dropped, when the free estimate is below the request and a victim exists.
AfterOomCheck(h, n) ==
    IF (total_frames - used_frames) % WordMod < n /\ Processes \ {h} # {}
    THEN {DerefFrames(Mem, v, held[v]) : v \in Processes \ {h}}
    ELSE {Mem}

\* pmem_alloc(n) by holder h.
pmem_alloc(h, n) ==
    \E m \in AfterOomCheck(h, n) :
        \/ \E f \in Frames :
              /\ NextFit(m.bm, n, f)
              /\ Become(RefFrames(m, h, Run(f, n)))
              /\ allocation_cursor' = NextCursor(f, n)
        \/ /\ ~ \E f \in Frames : NextFit(m.bm, n, f)
           /\ Become(m)
           /\ UNCHANGED allocation_cursor

\* The frames that lie wholly inside the byte addresses min_addr .. max_addr - 1.
RegionFits(n, min_addr, max_addr) ==
    LET start == (min_addr + FrameSize - 1) \div FrameSize
        end   == max_addr \div FrameSize
    IN  Fits(frame_bitmap, start, IF end > MaxFrames THEN MaxFrames ELSE end, n)

\* pmem_alloc_region(n, min_addr, max_addr) by holder h; no frame fits, no change.
pmem_alloc_region(h, n, min_addr, max_addr) ==
    /\ min_addr < max_addr
    /\ \E f \in Frames :
          /\ IsFirst(f, RegionFits(n, min_addr, max_addr))
          /\ Become(RefFrames(Mem, h, Run(f, n)))
    /\ UNCHANGED allocation_cursor

\* pmem_free of a run the holder has references to.
pmem_free(h, f, n) ==
    /\ Run(f, n) \subseteq held[h]
    /\ Become(DerefFrames(Mem, h, Run(f, n)))
    /\ UNCHANGED allocation_cursor

\* pmem_refcount_inc: h starts to share a frame that another holder has (a
\* cloned address space, a second attachment of a shared segment).
pmem_refcount_inc(h, f) ==
    /\ f \notin held[h]
    /\ \E g \in Holders : f \in held[g]
    /\ Become(RefFrames(Mem, h, {f}))
    /\ UNCHANGED allocation_cursor

\* pmem_refcount_dec: h gives up its reference (an unmapped or copied page).
pmem_refcount_dec(h, f) ==
    /\ f \in held[h]
    /\ Become(DerefFrames(Mem, h, {f}))
    /\ UNCHANGED allocation_cursor

Next ==
    \E h \in Holders :
        \/ \E n \in 1 .. MaxRun : pmem_alloc(h, n)
        \/ \E n \in 1 .. MaxRun, w \in Windows : pmem_alloc_region(h, n, w[1], w[2])
        \/ \E f \in Frames, n \in 1 .. MaxRun : pmem_free(h, f, n)
        \/ \E f \in Frames : pmem_refcount_inc(h, f)
        \/ \E f \in Frames : pmem_refcount_dec(h, f)

Spec == Init /\ [][Next]_vars
-----------------------------------------------------------------------------
HoldersOf(f) == {h \in Holders : f \in held[h]}

\* The reference pmem_init takes on the frames of low memory and the kernel.
BootRef(f) == IF f \in Kernel THEN 1 ELSE 0

\* Every table entry has its type and the cursor names a frame.
TypeOK ==
    /\ frame_bitmap \subseteq Frames
    /\ frame_refcount \in [Frames -> 0 .. RefMod - 1]
    /\ used_frames \in 0 .. MaxFrames
    /\ allocation_cursor \in Frames
    /\ held \in [Holders -> SUBSET Frames]

\* A frame's count is the number of holders that still use it, so no frame goes
\* back to the allocator while it is referenced and none is lost (pmem.c:110-127).
RefcountExact ==
    \A f \in Frames : frame_refcount[f] = Cardinality(HoldersOf(f)) + BootRef(f)

\* The three tables agree, whatever the order of shares and frees: a bit is set
\* exactly for the frames in use and for the memory the map never offered, and
\* used_frames, from which pmem_alloc decides to call the out-of-memory killer,
\* counts the frames in use (pmem.c:95-127).
TablesExact ==
    /\ frame_bitmap = {f \in Frames : frame_refcount[f] > 0} \cup (Frames \ Available)
    /\ used_frames = Cardinality({f \in Frames : frame_refcount[f] > 0})

\* No caller ever gets a frame of low memory, of the kernel and its heap, or one
\* the memory map does not offer (kernel/lib/mem_test.c:69-72 test the first two).
OnlyOfferedFrames ==
    \A h \in Holders : held[h] \subseteq Available \ Kernel

\* The search for one frame is complete: it succeeds when any frame is free,
\* wherever the cursor stands (pmem.c:232-253).
SingleFrameFound ==
    Frames \ frame_bitmap # {} => \E f \in Frames : NextFit(frame_bitmap, 1, f)

\* The allocator's tables keep their types, and one page is found wherever it is free
\* (pmem.c:232-250).
FrameFound == TypeOK /\ SingleFrameFound

AllocStep ==
    \E h \in Holders, n \in 1 .. MaxRun :
        \/ pmem_alloc(h, n)
        \/ \E w \in Windows : pmem_alloc_region(h, n, w[1], w[2])

\* An allocation hands out frames that nobody else holds once it has returned,
\* also when the out-of-memory killer ran in the same call (pmem.c:217-296).
AllocationIsExclusive ==
    [][held' # held /\ AllocStep =>
          \A h, g \in Holders : h # g =>
              (held'[h] \ held[h]) \cap held'[g] = {}]_vars
=============================================================================
