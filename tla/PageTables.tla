----------------------------- MODULE PageTables -----------------------------
(***************************************************************************)
(* Address spaces, kernel/mm/paging.c, as operators on the memory state.   *)
(*                                                                         *)
(* A memory state is a record: rc (frame_refcount), data (what a frame     *)
(* holds), pt (the entries of a frame used as a page table), as (each      *)
(* process's address space), ndirs (page_directory_count), cur (the        *)
(* process whose directory is loaded), tlb (the pages whose writable       *)
(* translation the CPU has cached), segments and attachments (shmem.c).    *)
(*                                                                         *)
(* Addresses are page numbers: a table slot covers Idxs pages.  The        *)
(* directory keeps two copies of its tables: `pde', which the CPU walks,   *)
(* and `tables', which the kernel walks and where get_page_table also      *)
(* enters a table at half its slot (legacy_slot).  The three levels under  *)
(* a directory are one frame, `levels'.  Which free frame an allocation    *)
(* returns is left to Pmem: here it is any fixed choice.                   *)
(***************************************************************************)
EXTENDS Integers, Sequences, FiniteSets, FiniteSetsExt, SequencesExt

CONSTANTS
    NProcs,             \* process slots
    NFrames,            \* frames 1 .. NFrames
    LowFrames,          \* the frames of PAGING_ALLOC_START .. PAGING_ALLOC_END
    NSlots, Idxs,       \* table slots of a directory, entries of a table
    MaxDirs,            \* MAX_PAGE_DIRS
    HeapStart, HeapEnd, \* USER_HEAP_START, USER_HEAP_END, in pages
    StackPages,         \* the pages of a user stack
    TlbRetains          \* whether the CPU keeps translations between accesses

Procs == 1 .. NProcs
Frames == 1 .. NFrames
Slots == 0 .. NSlots - 1
Pages == 0 .. NSlots * Idxs - 1
HeapPages == HeapStart .. HeapEnd - 1
NULL == 0
Garbage == 9    \* what a frame holds that was never or no longer used

SlotOf(v) == v \div Idxs
IdxOf(v) == v % Idxs
Legacy(s) == s \div 2

NoPte == [f |-> NULL, rw |-> FALSE]
NoTable == [i \in 0 .. Idxs - 1 |-> NoPte]
NoSpace == [alive |-> FALSE, directory |-> NULL, levels |-> NULL, kstack |-> NULL,
            tables |-> [s \in Slots |-> NULL], pde |-> [s \in Slots |-> NULL],
            brk |-> 0, regions |-> <<>>]

FreeFrames(m) == {f \in Frames : m.rc[f] = 0}
ref_frame(m, f) == [m EXCEPT !.rc[f] = @ + 1]

\* deref_frame; what a free frame holds is nobody's and not told apart.
deref_frame(m, f) ==
    IF m.rc[f] > 1 THEN [m EXCEPT !.rc[f] = @ - 1]
    ELSE [m EXCEPT !.rc[f] = 0, !.data[f] = Garbage, !.pt[f] = NoTable]

\* References to the frames of a sequence dropped one after the other.
DerefAll(m, fs) == FoldLeft(deref_frame, m, fs)

\* pmem_alloc_region(1, PAGING_ALLOC_START, PAGING_ALLOC_END): the state and the
\* frame, or NULL.
TakeFrame(m, f) == [m |-> ref_frame(m, f), f |-> f]
AllocLow(m) ==
    IF FreeFrames(m) \cap LowFrames = {} THEN [m |-> m, f |-> NULL]
    ELSE TakeFrame(m, Min(FreeFrames(m) \cap LowFrames))

ClearTable(a) == IF a.f = NULL THEN a ELSE [a EXCEPT !.m.pt[a.f] = NoTable]
alloc_page_table(m) == ClearTable(AllocLow(m))

\* The table of slot s is also entered at half the slot, where that is empty.
WithAlias(t, s) ==
    IF Legacy(s) # s /\ t[Legacy(s)] = NULL THEN [t EXCEPT ![Legacy(s)] = t[s]] ELSE t

EnterTable(a, p, s) ==
    IF a.f = NULL THEN a
    ELSE [a EXCEPT !.m.as[p].tables = WithAlias([@ EXCEPT ![s] = a.f], s),
                   !.m.as[p].pde[s] = a.f]

\* get_page_table with create set: the state and the table's frame, or NULL.
get_page_table(m, p, v) ==
    IF m.as[p].tables[SlotOf(v)] # NULL THEN [m |-> m, f |-> m.as[p].tables[SlotOf(v)]]
    ELSE EnterTable(alloc_page_table(m), p, SlotOf(v))

\* paging_map of a user page, writable; without a table the frame stays unmapped.
SetEntry(t, v, f) ==
    IF t.f = NULL THEN t.m
    ELSE [t.m EXCEPT !.pt[t.f][IdxOf(v)] = [f |-> f, rw |-> TRUE], !.tlb = @ \ {v}]
paging_map(m, p, v, f) == SetEntry(get_page_table(m, p, v), v, f)

paging_unmap(m, p, v) ==
    LET s == SlotOf(v)
        l == Legacy(s)
        t == m.as[p].tables
    IN  IF t[s] = NULL THEN m
        ELSE [m EXCEPT !.pt[t[s]][IdxOf(v)] = NoPte,
                       !.as[p].tables = IF l # s /\ t[l] = t[s] THEN [t EXCEPT ![l] = NULL] ELSE t,
                       !.tlb = @ \ {v}]

\* get_page_entry: the entry the kernel finds for a page.
get_page_entry(m, p, v) ==
    LET t == m.as[p].tables[SlotOf(v)] IN
    IF t = NULL THEN NoPte ELSE m.pt[t][IdxOf(v)]

paging_get_physical(m, p, v) == get_page_entry(m, p, v).f

\* A buffer is checked for being there only.
BugValidateIgnoresWrite(m, p, v, write) == get_page_entry(m, p, v).f # NULL

\* A buffer of one page that a call may read or, with write set, fill.
paging_validate_user_range(m, p, v, write) ==
    LET e == get_page_entry(m, p, v) IN e.f # NULL /\ (write => e.rw)

\* The entry the CPU finds for a page of a loaded directory.
Walk(m, p, v) ==
    LET t == m.as[p].pde[SlotOf(v)] IN
    IF t = NULL THEN NoPte ELSE m.pt[t][IdxOf(v)]

NoDirectory(m) == [m |-> m, directory |-> NULL, levels |-> NULL]
WithLevels(d, l) == [m |-> l.m, directory |-> IF l.f = NULL THEN NULL ELSE d.f, levels |-> l.f]
NewDirectory(d) ==
    IF d.f = NULL THEN NoDirectory(d.m) ELSE WithLevels(d, alloc_page_table(d.m))

\* paging_create_user_directory: the state and the new space's frames.  What has
\* been taken before a failure is not given back.
paging_create_user_directory(m) ==
    IF m.ndirs >= MaxDirs THEN NoDirectory(m)
    ELSE NewDirectory(AllocLow([m EXCEPT !.ndirs = @ + 1]))

ReadOnly(t) == [i \in 0 .. Idxs - 1 |-> [t[i] EXCEPT !.rw = FALSE]]
PagesOf(t) == SelectSeq([i \in 1 .. Idxs |-> t[i - 1].f], LAMBDA f : f # NULL)

\* The parent keeps its right to write to the pages it now shares.
BugCopyTable(a, m, p, t, s) ==
    IF a.f = NULL THEN [m |-> m, ok |-> FALSE]
    ELSE [m |-> [FoldLeft(ref_frame, a.m, PagesOf(m.pt[t])) EXCEPT
                    !.pt[a.f] = ReadOnly(m.pt[t]),
                    !.as[p].tables[s] = a.f, !.as[p].pde[s] = a.f],
          ok |-> TRUE]

\* One table t of the parent copied into slot s of p's space, in the new table a:
\* every page becomes read-only on both sides and gets a reference.  Translations
\* the CPU has cached stay cached.
CopyTable(a, m, p, t, s) ==
    IF a.f = NULL THEN [m |-> m, ok |-> FALSE]
    ELSE [m |-> [FoldLeft(ref_frame, a.m, PagesOf(m.pt[t])) EXCEPT
                    !.pt[t] = ReadOnly(@), !.pt[a.f] = ReadOnly(m.pt[t]),
                    !.as[p].tables[s] = a.f, !.as[p].pde[s] = a.f],
          ok |-> TRUE]

\* paging_clone_directory(src) into the space of p, whose directory is there: the
\* copy stops, without an error, at the first table that cannot be allocated.
CloneTables(m, src, p) ==
    LET step(r, s) == IF ~ r.ok \/ m.as[src].tables[s] = NULL \/ m.as[src].pde[s] = NULL THEN r
                      ELSE CopyTable(alloc_page_table(r.m), r.m, p, m.as[src].tables[s], s)
    IN  FoldLeft(step, [m |-> m, ok |-> TRUE], [i \in 1 .. NSlots |-> i - 1]).m
=============================================================================
