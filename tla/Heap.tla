-------------------------------- MODULE Heap --------------------------------
(***************************************************************************)
(* The kernel heap (kernel/mm/heap.c): first fit over a doubly linked list *)
(* of blocks that lie one behind the other, a header in front of each, and *)
(* slab caches carved out of one heap block.                               *)
(*                                                                         *)
(* Memory is modelled cell by cell, so that a header or a list pointer     *)
(* written in the wrong place damages what somebody keeps there.  Those    *)
(* who hold memory fill the part they asked for with a mark of their own,  *)
(* do not write elsewhere, and give it back once.                          *)
(***************************************************************************)
EXTENDS Integers, FiniteSets, TLC

CONSTANTS
  HeapSize,        \* HEAP_MAX_SIZE, in cells
  HeaderSize,      \* BLOCK_HEADER_SIZE
  MinBlock,        \* MIN_BLOCK_SIZE
  Alignment,       \* 8
  SizeMax,         \* (size_t)-1
  Sizes,           \* the sizes asked for
  Marks,           \* bound: so many areas are held at a time
  ObjectSize,      \* of the slab cache
  ObjectCount

ASSUME HeapAssumption ==
  /\ {HeaderSize, MinBlock, Alignment, ObjectSize, ObjectCount} \subseteq Nat \ {0}
  /\ HeapSize > HeaderSize + MinBlock
  /\ Sizes \subseteq 0..SizeMax
  /\ SizeMax > HeapSize + Alignment

VARIABLES
  heap,        \* the headers in the list by address, and the contents of memory
  slab,        \* the slab cache: its memory and its free list
  inUse         \* what was handed out: by address the length and the mark kept there

heapVars == <<heap, slab, inUse>>

HeapStart == 1
NULL == 0
Address == HeapStart..(HeapStart + HeapSize - 1)

\* Contents of a cell: an address (a list pointer), 0, a holder's mark, or one of:
HeaderCell == -1
Garbage == -2
Mark(i) == -2 - i

Cells(a, n) == a..(a + n - 1)
Fill(mem, a, n, v) == [c \in DOMAIN mem |-> IF c \in Cells(a, n) THEN v ELSE mem[c]]

heap_init ==
  [block |-> (HeapStart :> [size |-> HeapSize - HeaderSize, next |-> NULL, prev |-> NULL,
                            used |-> FALSE]),
   mem |-> Fill([c \in Address |-> Garbage], HeapStart, HeaderSize, HeaderCell)]

HeapInit ==
  /\ heap = heap_init
  /\ slab = [memory |-> NULL, free |-> NULL]
  /\ inUse = <<>>

-----------------------------------------------------------------------------
(* The list of blocks. *)

\* The block `to', if there is one, has `from' before it.
SetPrev(block, to, from) == IF to = NULL THEN block ELSE [block EXCEPT ![to].prev = from]

Drop(block, a) == [x \in DOMAIN block \ {a} |-> block[x]]

\* The rest of block b behind `size' cells becomes a block, if it is worth one.
Cut(h, b, size, rest) ==
  [block |-> SetPrev((rest :> [size |-> h.block[b].size - size - HeaderSize, used |-> FALSE,
                               next |-> h.block[b].next, prev |-> b])
                     @@ [h.block EXCEPT ![b].size = size, ![b].next = rest],
                     h.block[b].next, rest),
   mem |-> Fill(h.mem, rest, HeaderSize, HeaderCell)]

split_block(h, b, size) ==
  IF h.block[b].size < size + HeaderSize + MinBlock THEN h
  ELSE Cut(h, b, size, b + HeaderSize + size)

\* Block b takes over the block n behind it.
Absorb(block, b, n) ==
  SetPrev(Drop([block EXCEPT ![b].size = @ + HeaderSize + block[n].size,
                             ![b].next = block[n].next], n),
          block[n].next, b)

Unused(block, b) == b # NULL /\ ~block[b].used

MergeNext(block, b) ==
  IF Unused(block, block[b].next) THEN Absorb(block, b, block[b].next) ELSE block

MergePrev(block, b) ==
  IF Unused(block, block[b].prev) THEN Absorb(block, block[b].prev, b) ELSE block

\* A mutant of coalesce_blocks: a block is merged with the one behind it only.
BugCoalesce(block, b) == MergeNext(block, b)

coalesce_blocks(block, b) == MergePrev(MergeNext(block, b), b)

-----------------------------------------------------------------------------
(* The functions on the heap. *)

\* (size + 7) & ~7 in size_t.
Rounded(n) == LET up == (n + Alignment - 1) % (SizeMax + 1) IN up - (up % Alignment)

\* The first block of the list that is unused and has the size.
FirstFit(block, size) ==
  LET from[b \in {NULL} \cup DOMAIN block] ==
        IF b = NULL \/ (~block[b].used /\ block[b].size >= size) THEN b
        ELSE from[block[b].next]
  IN  from[HeapStart]

Use(h, b, size) ==
  LET s == split_block(h, b, size) IN [s EXCEPT !.block[b].used = TRUE]

\* kmalloc(size): the block it finds, NULL for none, and the heap after it.
BlockFor(h, size) == IF size = 0 THEN NULL ELSE FirstFit(h.block, Rounded(size))
kmalloc(h, size) == Use(h, BlockFor(h, size), Rounded(size))

Pointer(b) == b + HeaderSize
BlockOf(ptr) == ptr - HeaderSize

\* What kfree returns to the heap is garbage from then on.
kfree(h, ptr) ==
  [block |-> coalesce_blocks([h.block EXCEPT ![BlockOf(ptr)].used = FALSE], BlockOf(ptr)),
   mem |-> Fill(h.mem, ptr, h.block[BlockOf(ptr)].size, Garbage)]

Smallest(a, b) == IF a < b THEN a ELSE b

\* memcpy(to, from, n).
Copy(mem, to, from, n) ==
  [c \in DOMAIN mem |-> IF c \in Cells(to, n) THEN mem[from + c - to] ELSE mem[c]]

-----------------------------------------------------------------------------
(* Calls. *)

FreeMarks == (1..Marks) \ {inUse[p].mark : p \in DOMAIN inUse}
NewMark == CHOOSE i \in FreeMarks : \A j \in FreeMarks : i <= j
Holds(p, n, i) == (p :> [len |-> n, mark |-> i])
Value(i) == IF i = 0 THEN 0 ELSE Mark(i)
HeapPointers == {p \in DOMAIN inUse : BlockOf(p) \in DOMAIN heap.block /\ p # slab.memory}

\* kmalloc (and vmalloc): the caller fills what it asked for.
Allocate == \E n \in Sizes :
  LET b == BlockFor(heap, n)
      h == kmalloc(heap, n)
  IN
  /\ FreeMarks # {}
  /\ IF b = NULL THEN UNCHANGED <<heap, inUse>>
     ELSE /\ heap' = [h EXCEPT !.mem = Fill(@, Pointer(b), n, Mark(NewMark))]
          /\ inUse' = inUse @@ Holds(Pointer(b), n, NewMark)
  /\ UNCHANGED slab

ZeroedArea(h, b, n) == [h EXCEPT !.mem = Fill(@, Pointer(b), n, 0)]

\* kcalloc: the caller relies on the zeroes (mark 0), one such area at a time.
kcalloc == \E nmemb \in {0, 1, 2}, n \in Sizes :
  LET total == nmemb * n
      b == IF nmemb # 0 /\ n > SizeMax \div nmemb THEN NULL ELSE BlockFor(heap, total)
  IN
  /\ 0 \notin {inUse[p].mark : p \in DOMAIN inUse}
  /\ Cardinality(DOMAIN inUse) < Marks
  /\ IF b = NULL THEN UNCHANGED <<heap, inUse>>
     ELSE /\ heap' = ZeroedArea(kmalloc(heap, total), b, total)
          /\ inUse' = inUse @@ Holds(Pointer(b), total, 0)
  /\ UNCHANGED slab

Free == \E p \in HeapPointers :
  /\ heap' = kfree(heap, p)
  /\ inUse' = Drop(inUse, p)
  /\ UNCHANGED slab

\* The block is moved: copied to a new one and freed.
Moved(h, p, b, n) ==
  kfree([h EXCEPT !.mem = Copy(@, Pointer(b), p, Smallest(h.block[BlockOf(p)].size, n))], p)

\* krealloc of a pointer to a size: the caller's mark is in as much of the old
\* contents as it asked to keep, and goes into the rest once the call has returned.
krealloc == \E p \in HeapPointers, n \in Sizes :
  LET b == BlockFor(heap, n)
      mark == inUse[p].mark
      kept == Smallest(inUse[p].len, n)
      Grown(mem, q) == Fill(mem, q + kept, n - kept, Value(mark))
  IN
  /\ \/ /\ n = 0
        /\ heap' = kfree(heap, p) /\ inUse' = Drop(inUse, p)
     \/ /\ n # 0 /\ heap.block[BlockOf(p)].size >= n
        /\ heap' = [heap EXCEPT !.mem = Grown(@, p)]
        /\ inUse' = Holds(p, n, mark) @@ inUse
     \/ /\ n # 0 /\ heap.block[BlockOf(p)].size < n /\ b = NULL
        /\ UNCHANGED <<heap, inUse>>
     \/ /\ n # 0 /\ heap.block[BlockOf(p)].size < n /\ b # NULL
        /\ \E h \in {Moved(kmalloc(heap, n), p, b, n)} :
             heap' = [h EXCEPT !.mem = Grown(@, Pointer(b))]
        /\ inUse' = Holds(Pointer(b), n, mark) @@ Drop(inUse, p)
  /\ UNCHANGED slab

-----------------------------------------------------------------------------
(* The slab cache. *)

ObjectCells == Rounded(ObjectSize)
Object(base, i) == base + (i - 1) * ObjectCells

\* Every object is linked in front of the ones before it.
slab_cache_init ==
  LET total == ObjectCells * ObjectCount
      b == BlockFor(heap, total)
      base == Pointer(b)
      Linked(mem) == [c \in DOMAIN mem |->
                        IF \E i \in 1..ObjectCount : c = Object(base, i)
                        THEN (IF c = base THEN NULL ELSE c - ObjectCells) ELSE mem[c]]
  IN
  /\ slab.memory = NULL
  /\ IF b = NULL THEN UNCHANGED <<heap, slab>>
     ELSE /\ \E h \in {kmalloc(heap, total)} : heap' = [h EXCEPT !.mem = Linked(@)]
          /\ slab' = [memory |-> base, free |-> Object(base, ObjectCount)]
  /\ UNCHANGED inUse

SlabPointers == {p \in DOMAIN inUse : slab.memory # NULL /\
                   \E i \in 1..ObjectCount : p = Object(slab.memory, i)}

\* The first free object; its first cell has the next one.
slab_alloc ==
  /\ FreeMarks # {}
  /\ slab.free # NULL
  /\ slab' = [slab EXCEPT !.free = heap.mem[slab.free]]
  /\ heap' = [heap EXCEPT !.mem = Fill(@, slab.free, ObjectSize, Mark(NewMark))]
  /\ inUse' = inUse @@ Holds(slab.free, ObjectSize, NewMark)

LinkObject(mem, p) == [mem EXCEPT ![p] = slab.free]

slab_free == \E p \in SlabPointers :
  /\ heap' = [heap EXCEPT !.mem = LinkObject(@, p)]
  /\ slab' = [slab EXCEPT !.free = p]
  /\ inUse' = Drop(inUse, p)

HeapNext ==
  \/ Allocate \/ kcalloc \/ Free \/ krealloc
  \/ slab_cache_init \/ slab_alloc \/ slab_free

-----------------------------------------------------------------------------
(* Properties. *)

HeapTypeOK ==
  /\ heap.mem \in [Address -> (-2 - Marks)..(HeapStart + HeapSize)]
  /\ DOMAIN heap.block \subseteq Address
  /\ slab.memory \in Address \cup {NULL} /\ slab.free \in Address \cup {NULL}
  /\ DOMAIN inUse \subseteq Address

\* The blocks cover the heap from end to end, each linked to its neighbours in both
\* directions, and no two unused ones are neighbours; the used ones are those held.
BlocksTile == \A b \in DOMAIN heap.block :
  LET this == heap.block[b]
      behind == b + HeaderSize + this.size
  IN
  /\ this.next = IF behind = HeapStart + HeapSize THEN NULL ELSE behind
  /\ this.next # NULL => /\ this.next \in DOMAIN heap.block
                         /\ heap.block[this.next].prev = b
                         /\ this.used \/ heap.block[this.next].used
  /\ b = HeapStart <=> this.prev = NULL
  /\ this.used <=> Pointer(b) \in DOMAIN inUse \/ Pointer(b) = slab.memory

\* What a holder keeps in its memory, or was promised to find there (the zeroes of
\* kcalloc, what it kept before krealloc), is there until the holder gives it back.
ContentsKept == \A p \in DOMAIN inUse :
  \A c \in Cells(p, inUse[p].len) : heap.mem[c] = Value(inUse[p].mark)

\* The free list of a slab cache leads to every object that is not handed out, once.
SlabComplete ==
  LET at[n \in 0..ObjectCount] ==
        IF n = 0 THEN slab.free ELSE IF at[n - 1] = NULL THEN NULL ELSE heap.mem[at[n - 1]]
      objects == {Object(slab.memory, i) : i \in 1..ObjectCount}
  IN  slab.memory # NULL =>
        /\ {at[n] : n \in 0..ObjectCount} \ {NULL} = objects \ SlabPointers
        /\ at[ObjectCount] = NULL

\* The heap and the slab caches on it neither lose nor double memory, and leave what
\* holders keep in theirs alone (heap.c:65-189).
HeapSound == HeapTypeOK /\ BlocksTile /\ ContentsKept /\ SlabComplete
=============================================================================
