----------------------------- MODULE UserMemory -----------------------------
(***************************************************************************)
(* User memory: process address spaces from creation to reaping, fork with *)
(* copy-on-write, page faults, mmap, munmap, brk, exec and System V shared *)
(* memory (kernel/mm/paging.c, kernel/mm/shmem.c, kernel/process/elf.c and *)
(* the memory calls of kernel/syscall/syscall.c).                          *)
(*                                                                         *)
(* One CPU runs ring-3 code of the process `cur'; a call is one step, as   *)
(* the kernel is not preempted inside one.  Break addresses and the starts *)
(* of mappings are in units of which a page has Units, because the break   *)
(* need not be page aligned.                                               *)
(***************************************************************************)
EXTENDS PageTables

CONSTANTS
    Units,              \* units in a page
    Values,             \* what user code stores in a page; 0 is a zeroed page
    ImagePages,         \* the pages an ELF image occupies, ascending
    MaxMmaps,           \* PROCESS_MAX_MMAPS
    NSegs,              \* GALIO_SHM_MAX_SEGMENTS
    NAttach,            \* attachment records
    SegSizes,           \* sizes of segments asked for, in pages
    Touched,            \* the pages user code accesses
    Breaks,             \* the arguments of brk, in units
    MapAddrs, Lengths,  \* the addresses (units; 0: none) and lengths (pages) of mmap
    Calls,              \* the calls user code makes
    PagesFromWindow,    \* whether user pages may come from LowFrames
    Mixed               \* whether a process with shared memory attached also
                        \* forks, maps, unmaps or moves its break

VARIABLE mm

vars == <<mm>>

Image == 1      \* what a page of an ELF image holds

Segs == 0 .. NSegs - 1
NoSeg == [used |-> FALSE, removed |-> FALSE, phys |-> <<>>, attached |-> 0]
NoAttachment == [pid |-> NULL, shmid |-> 0, page |-> 0]
Range0(v, n) == [i \in 1 .. n |-> v + i - 1]
PageUp(u) == (u + Units - 1) \div Units

-----------------------------------------------------------------------------
(* Releasing *)

release_segment(m, s) ==
    IF ~ m.segments[s].used \/ m.segments[s].attached # 0 THEN m
    ELSE [DerefAll(m, m.segments[s].phys) EXCEPT !.segments[s] = NoSeg]

\* An attachment record dropped, and the segment too when it was marked for it.
DropAttachment(m, a) ==
    LET s == m.attachments[a].shmid
        n == [m EXCEPT !.attachments[a] = NoAttachment,
                       !.segments[s].attached = IF @ = 0 THEN 0 ELSE @ - 1]
    IN  IF n.segments[s].removed THEN release_segment(n, s) ELSE n

shmem_detach_process(m, p) ==
    FoldLeft(DropAttachment, m, SelectSeq(Range0(1, NAttach), LAMBDA a : m.attachments[a].pid = p))

\* The tables whose pages process_free_address_space releases: a table is passed
\* over when a lower slot of `tables' holds it too.
FreedTables(m, p) ==
    LET t == m.as[p].tables IN
    SelectSeq(Range0(0, NSlots),
              LAMBDA s : m.as[p].pde[s] # NULL /\ t[s] # NULL /\ ~ \E r \in 0 .. s - 1 : t[r] = t[s])

FreeTables(m, p) ==
    LET frames(s) == Append(PagesOf(m.pt[m.as[p].tables[s]]), m.as[p].tables[s]) IN
    FoldLeft(LAMBDA k, s : DerefAll(k, frames(s)), m, FreedTables(m, p))

FreeDirectory(m, p) ==
    [DerefAll(m, <<m.as[p].directory, m.as[p].levels>>) EXCEPT
        !.as[p].directory = NULL, !.as[p].levels = NULL,
        !.as[p].tables = NoSpace.tables, !.as[p].pde = NoSpace.pde]

process_free_address_space(m, p) ==
    IF m.as[p].directory = NULL THEN m
    ELSE FreeDirectory(FreeTables(shmem_detach_process(m, p), p), p)

FreeSlot(m, p) == [deref_frame(m, m.as[p].kstack) EXCEPT !.as[p] = NoSpace]
process_cleanup(m, p) == FreeSlot(process_free_address_space(m, p), p)

-----------------------------------------------------------------------------
(* Allocating *)

PageFrames(m) == FreeFrames(m) \ (IF PagesFromWindow THEN {} ELSE LowFrames)

\* process_oom_kill: the first process of the table that is not the current one.
process_oom_kill(m) ==
    LET S == {p \in Procs \ {m.cur} : m.as[p].alive} IN
    IF S = {} THEN m ELSE process_cleanup(m, Min(S))

\* pmem_alloc(1): the state and the frame, or NULL.
AllocPage(m) ==
    IF PageFrames(m) = {} THEN [m |-> m, f |-> NULL] ELSE TakeFrame(m, Max(PageFrames(m)))
pmem_alloc(m) == AllocPage(IF PageFrames(m) = {} THEN process_oom_kill(m) ELSE m)

\* The page just mapped at v is filled through its address; where the mapping failed
\* for want of a table this writes to no frame of the model.
Fill(m, p, v, x) ==
    LET f == Walk(m, p, v).f IN IF f = NULL THEN m ELSE [m EXCEPT !.data[f] = x]

\* A page allocated, mapped and filled; r.ok turns FALSE at the first failure and
\* the rest of a loop over pages is not done.
FillFresh(a, r, p, v, x) ==
    IF a.f = NULL THEN [m |-> a.m, ok |-> FALSE, done |-> r.done]
    ELSE [m |-> Fill(paging_map(a.m, p, v, a.f), p, v, x), ok |-> TRUE, done |-> Append(r.done, v)]
MapFresh(r, p, v, x) == IF r.ok THEN FillFresh(pmem_alloc(r.m), r, p, v, x) ELSE r

MapAll(m, p, vs, x) ==
    FoldLeft(LAMBDA r, v : MapFresh(r, p, v, x), [m |-> m, ok |-> TRUE, done |-> <<>>], vs)

\* Pages unmapped and their frames released (munmap, and mmap's error path).
UnmapPages(m, p, vs) ==
    LET unmap(k, v) == LET f == paging_get_physical(k, p, v) IN
                       IF f = NULL THEN k ELSE deref_frame(paging_unmap(k, p, v), f)
    IN  FoldLeft(unmap, m, vs)

-----------------------------------------------------------------------------
(* Page faults *)

\* The copy's reference to the shared page is dropped twice.
BugCopyPage(a, f, t, v) ==
    IF a.f = NULL THEN a.m
    ELSE [deref_frame(deref_frame(a.m, f), f) EXCEPT !.data[a.f] = a.m.data[f],
              !.pt[t][IdxOf(v)] = [f |-> a.f, rw |-> TRUE], !.tlb = @ \ {v}]

\* The copy of page f into the new frame a; when no frame is left nothing is changed
\* and the fault repeats.
CopyPage(a, f, t, v) ==
    IF a.f = NULL THEN a.m
    ELSE [deref_frame(a.m, f) EXCEPT !.data[a.f] = a.m.data[f],
              !.pt[t][IdxOf(v)] = [f |-> a.f, rw |-> TRUE], !.tlb = @ \ {v}]

\* handle_cow_fault on a present read-only user page.
handle_cow_fault(m, p, v) ==
    LET f == get_page_entry(m, p, v).f
        t == m.as[p].tables[SlotOf(v)]
    IN  IF m.rc[f] <= 1 THEN [m EXCEPT !.pt[t][IdxOf(v)].rw = TRUE, !.tlb = @ \ {v}]
        ELSE CopyPage(pmem_alloc(m), f, t, v)

\* allocate_user_page: a zeroed page at v, for which a frame a and a table t are
\* there or not.
MapZeroed(t, a, p, v) ==
    IF t.f = NULL THEN [m |-> deref_frame(t.m, a.f), ok |-> FALSE]
    ELSE [m |-> Fill(paging_map(t.m, p, v, a.f), p, v, 0), ok |-> TRUE]
UserPage(a, p, v) ==
    IF a.f = NULL THEN [m |-> a.m, ok |-> FALSE]
    ELSE MapZeroed(get_page_table(a.m, p, v), a, p, v)
allocate_user_page(m, p, v) == UserPage(pmem_alloc(m), p, v)

-----------------------------------------------------------------------------
(* Creating *)

\* process_create's address space for slot q: directory, user stack, kernel stack.
\* The frames for the pages must be there: without them process_create does not
\* return (Process, outcome "oom").
MapStackPage(a, q, v) == paging_map(a.m, q, v, a.f)
GiveKernelStack(a, q) == [a.m EXCEPT !.as[q].kstack = a.f]
FillSpace(d, q) ==
    LET n == [d.m EXCEPT !.as[q] = [NoSpace EXCEPT !.alive = TRUE, !.directory = d.directory,
                                    !.levels = d.levels, !.brk = HeapStart * Units]]
    IN  IF d.directory = NULL THEN d.m
        ELSE GiveKernelStack(pmem_alloc(
               FoldLeft(LAMBDA k, v : MapStackPage(pmem_alloc(k), q, v), n, StackPages)), q)
CreateSpace(m, q) == FillSpace(paging_create_user_directory(m), q)

RoomToCreate(m) == Cardinality(PageFrames(m)) > Len(StackPages)

\* syscall_fork: the created child's space is replaced by a clone of the parent's.
\* The child's break and mappings stay those of a new process.
CloneInto(d, p, q) ==
    IF d.directory = NULL THEN process_cleanup(d.m, q)
    ELSE CloneTables([d.m EXCEPT !.as[q].directory = d.directory, !.as[q].levels = d.levels], p, q)
ReplaceSpace(m, p, q) ==
    IF ~ m.as[q].alive THEN m
    ELSE CloneInto(paging_create_user_directory(process_free_address_space(m, q)), p, q)
ForkSpace(m, p, q) == ReplaceSpace(CreateSpace(m, q), p, q)

-----------------------------------------------------------------------------
(* Steps *)

Become(m) == \E n \in {m} : mm' = n

Me == mm.as[mm.cur]
Attached(p) == \E a \in 1 .. NAttach : mm.attachments[a].pid = p
FreeSlots == {q \in Procs : ~ mm.as[q].alive}

\* Process 1 is the kernel's own and never enters ring 3.
InUser == mm.cur \in Procs \ {1}

MayCall(c) ==
    /\ c \in Calls /\ InUser
    /\ c \in {"fork", "mmap", "munmap", "brk", "exec"} => Mixed \/ ~ Attached(mm.cur)

\* The running process is replaced, and with it the loaded directory: the cached
\* translations are gone (process_yield, paging_load_directory).
SwitchFrom(m, q) == [m EXCEPT !.cur = q, !.tlb = {}]

\* After the current process has ended another one runs, if there is one.
AfterEnd(m) ==
    LET S == {q \in Procs : m.as[q].alive} IN
    IF S = {} THEN {SwitchFrom(m, NULL)} ELSE {SwitchFrom(m, q) : q \in S}

Switch == \E q \in Procs \ {mm.cur} : mm.as[q].alive /\ Become(SwitchFrom(mm, q))

\* The kernel starts a process.
Spawn ==
    /\ "spawn" \in Calls /\ RoomToCreate(mm) /\ FreeSlots # {}
    /\ Become(CreateSpace(mm, Min(FreeSlots)))

Fork ==
    /\ MayCall("fork") /\ RoomToCreate(mm) /\ FreeSlots # {}
    /\ Become(ForkSpace(mm, mm.cur, Min(FreeSlots)))

\* A process that is not running is reaped (it exited or was killed before).
Reap ==
    \E q \in Procs \ {1, mm.cur} :
        /\ "reap" \in Calls /\ mm.as[q].alive
        /\ Become(process_cleanup(mm, q))

\* syscall_exec: the image is mapped into the running space, page by page; what
\* was mapped there before is not released.
Exec ==
    /\ MayCall("exec")
    /\ Become([MapAll(mm, mm.cur, ImagePages, Image).m EXCEPT !.tlb = {}])

\* A store that the translation allows.
Store(v, x) ==
    LET w == Walk(mm, mm.cur, v) IN
    /\ InUser /\ "write" \in Calls
    /\ w.f # NULL /\ (w.rw \/ v \in mm.tlb)
    /\ Become([mm EXCEPT !.data[w.f] = x, !.tlb = IF TlbRetains THEN @ \cup {v} ELSE @])

\* A store to a present page that is not writable: paging_handle_page_fault.
CowFault(v) ==
    LET w == Walk(mm, mm.cur, v) IN
    /\ InUser /\ "write" \in Calls
    /\ w.f # NULL /\ ~ w.rw
    /\ Become(handle_cow_fault(mm, mm.cur, v))

\* An access to an absent page.  A store to the heap or the stack gets a page, if a
\* table covers it: without one the CPU finds the kernel's own large page there,
\* which is present.  After any other access, or without memory, the process is
\* ended (process_exception_handle).
AbsentFault(v, write) ==
    LET r == IF write /\ Me.pde[SlotOf(v)] # NULL /\ v \in HeapPages \cup ToSet(StackPages)
             THEN allocate_user_page(mm, mm.cur, v) ELSE [m |-> mm, ok |-> FALSE]
    IN  /\ InUser /\ "write" \in Calls
        /\ Walk(mm, mm.cur, v).f = NULL
        /\ IF r.ok THEN Become(r.m)
           ELSE \E e \in AfterEnd(process_cleanup(r.m, mm.cur)) : mm' = e

\* A call that fills a buffer of the caller: refused where the page is absent or
\* read-only, as the kernel's own stores do not fault on a read-only page.
CopyOut(v, x) ==
    LET e == get_page_entry(mm, mm.cur, v) IN
    /\ InUser /\ "write" \in Calls
    /\ paging_validate_user_range(mm, mm.cur, v, TRUE)
    /\ Become([mm EXCEPT !.data[e.f] = x])

\* syscall_mmap at a given unit address or, with 0, at the break.
Mmap(addr, n) ==
    LET b  == IF addr = 0 THEN Me.brk ELSE addr
        vs == Range0(b \div Units, PageUp(b + n * Units) - b \div Units)
        r  == MapAll(mm, mm.cur, vs, 0)
    IN  /\ MayCall("mmap")
        /\ b + n * Units <= HeapEnd * Units
        /\ Len(Me.regions) < MaxMmaps
        /\ IF r.ok
           THEN Become([r.m EXCEPT
                    !.as[mm.cur].regions = Append(@, [start |-> b, length |-> n * Units]),
                    !.as[mm.cur].brk = IF addr = 0 THEN b + n * Units ELSE @])
           ELSE Become(UnmapPages(r.m, mm.cur, r.done))

\* syscall_munmap of n pages from page v: a mapping that starts there is emptied.
Munmap(v, n) ==
    LET k == UnmapPages(mm, mm.cur, Range0(v, n))
        hit == {i \in DOMAIN Me.regions : Me.regions[i].start = v * Units}
    IN  /\ MayCall("munmap")
        /\ v >= HeapStart /\ v + n <= HeapEnd
        /\ Become(IF hit = {} THEN k
                  ELSE [k EXCEPT !.as[mm.cur].regions[Min(hit)] = [start |-> 0, length |-> 0]])

\* syscall_brk: pages for a higher break; after a failure those mapped so far stay.
Brk(new) ==
    LET cur == PageUp(Me.brk)
        r == MapAll(mm, mm.cur, Range0(cur, PageUp(new) - cur), 0)
    IN  /\ MayCall("brk")
        /\ Become(IF PageUp(new) <= cur THEN [mm EXCEPT !.as[mm.cur].brk = new]
                  ELSE IF r.ok THEN [r.m EXCEPT !.as[mm.cur].brk = new]
                  ELSE r.m)

\* shmem_get of a private segment of n pages: the pages are not cleared.
ShmGet(n) ==
    LET s == Min({i \in Segs : ~ mm.segments[i].used})
        page(r, i) == LET a == pmem_alloc(r.m) IN
                      IF ~ r.ok THEN r
                      ELSE IF a.f = NULL THEN [r EXCEPT !.m = a.m, !.ok = FALSE]
                      ELSE [r EXCEPT !.m = a.m, !.fs = Append(@, a.f)]
        r == FoldLeft(page, [m |-> mm, ok |-> TRUE, fs |-> <<>>], Range0(1, n))
        k == [r.m EXCEPT !.segments[s] = [NoSeg EXCEPT !.used = TRUE, !.phys = r.fs]]
    IN  /\ MayCall("shmget")
        /\ \E i \in Segs : ~ mm.segments[i].used
        /\ Become(IF r.ok THEN k ELSE release_segment(k, s))

\* region_overlaps, in pages.
Overlaps(v, n) ==
    \E i \in DOMAIN Me.regions :
        LET g == Me.regions[i] IN
        g.length # 0 /\ v * Units < g.start + g.length /\ (v + n) * Units > g.start

\* find_address: the first page from v on where n pages meet no mapping.
FoundAt(v, n) == {u \in v .. HeapEnd - n : ~ Overlaps(u, n)}

\* shmem_attach at the first place from the break on.
ShmAt(s) ==
    LET seg == mm.segments[s]
        n   == Len(seg.phys)
        at  == FoundAt(PageUp(Me.brk), n)
        v   == Min(at)
        a   == Min({i \in 1 .. NAttach : mm.attachments[i].pid = NULL})
        map(k, i) == paging_map(ref_frame(k, seg.phys[i]), mm.cur, v + i - 1, seg.phys[i])
    IN  /\ MayCall("shmat")
        /\ seg.used /\ ~ seg.removed /\ Len(Me.regions) < MaxMmaps /\ at # {}
        /\ \E i \in 1 .. NAttach : mm.attachments[i].pid = NULL
        /\ Become([FoldLeft(map, mm, Range0(1, n)) EXCEPT
               !.attachments[a] = [pid |-> mm.cur, shmid |-> s, page |-> v],
               !.segments[s].attached = @ + 1,
               !.as[mm.cur].regions = Append(@, [start |-> v * Units, length |-> n * Units])])

\* shmem_detach: the mapping's pages are unmapped and the segment's frames released,
\* whatever is mapped there by now; the region record stays.
ShmDt(a) ==
    LET t == mm.attachments[a]
        unmap(k, i) == deref_frame(paging_unmap(k, mm.cur, t.page + i - 1), mm.segments[t.shmid].phys[i])
    IN  /\ MayCall("shmdt")
        /\ t.pid = mm.cur
        /\ Become(DropAttachment(FoldLeft(unmap, mm, Range0(1, Len(mm.segments[t.shmid].phys))), a))

\* shmem_control(GALIO_SHM_RMID)
ShmRm(s) ==
    /\ MayCall("shmrm") /\ mm.segments[s].used
    /\ Become(release_segment([mm EXCEPT !.segments[s].removed = TRUE], s))

Booted ==
    [rc |-> [f \in Frames |-> 0], data |-> [f \in Frames |-> Garbage], pt |-> [f \in Frames |-> NoTable],
     as |-> [p \in Procs |-> NoSpace], ndirs |-> 1, cur |-> NULL, tlb |-> {},
     segments |-> [s \in Segs |-> NoSeg], attachments |-> [a \in 1 .. NAttach |-> NoAttachment]]

\* The kernel's directory is the pool's first; process 1 has been created and runs.
Init == mm = [CreateSpace(Booted, 1) EXCEPT !.cur = 1]

Next ==
    \/ Switch \/ Spawn \/ Fork \/ Reap \/ Exec
    \/ \E v \in Touched :
          \/ \E x \in Values : Store(v, x) \/ CopyOut(v, x)
          \/ CowFault(v)
          \/ \E write \in BOOLEAN : AbsentFault(v, write)
          \/ \E n \in Lengths : Munmap(v, n)
    \/ \E n \in Lengths, addr \in MapAddrs : Mmap(addr, n)
    \/ \E b \in Breaks : Brk(b)
    \/ \E n \in SegSizes : ShmGet(n)
    \/ \E s \in Segs : ShmAt(s) \/ ShmRm(s)
    \/ \E a \in 1 .. NAttach : ShmDt(a)

Spec == Init /\ [][Next]_vars
-----------------------------------------------------------------------------
Live == {p \in Procs : mm.as[p].alive}

\* The kernel's own uses of a frame: directories, tables and kernel stacks.
KernelUses(f) ==
    Cardinality({<<p, x>> \in Live \X {"directory", "levels", "kstack"} : mm.as[p][x] = f})
    + Cardinality({<<p, s>> \in Live \X Slots : mm.as[p].pde[s] = f})

\* The pages and segments a frame is behind.
DataUses(f) ==
    Cardinality({<<p, v>> \in Live \X Pages : Walk(mm, p, v).f = f})
    + Cardinality({s \in Segs : f \in ToSet(mm.segments[s].phys)})

\* Every component of the memory state has its type.
TypeOK ==
    /\ mm.rc \in [Frames -> 0 .. NProcs * NSlots * Idxs]
    /\ mm.data \in [Frames -> Values \cup {0, Image, Garbage}]
    /\ \A f \in Frames, i \in 0 .. Idxs - 1 :
          mm.pt[f][i].f \in Frames \cup {NULL} /\ (mm.pt[f][i].rw => mm.pt[f][i].f # NULL)
    /\ \A p \in Procs :
          /\ mm.as[p].alive <=> mm.as[p].directory # NULL
          /\ mm.as[p].brk <= HeapEnd * Units /\ Len(mm.as[p].regions) <= MaxMmaps
    /\ mm.ndirs \in 1 .. MaxDirs
    /\ mm.cur = NULL \/ mm.cur \in Live
    /\ mm.tlb \subseteq Pages

\* No frame is given back while a page, a segment or the kernel uses it, and none
\* is at once a page of a process and a page table or stack of the kernel, through
\* forks, copies on write, unmaps, attachments and deaths (process.c:575-627,
\* paging.c:253-322, 869-964, shmem.c:36-43, 114-179).
FramesHeld ==
    \A f \in Frames :
        LET kernel == KernelUses(f)
            data == DataUses(f)
        IN  mm.rc[f] >= kernel + data /\ (kernel > 0 => kernel = 1 /\ data = 0)

\* Two processes can write to the same frame only when it belongs to a segment
\* (paging.c:932-943, 277-315).
WritersAlone ==
    \A p, q \in Live : p # q =>
        \A v, w \in Pages :
            (Walk(mm, p, v).rw /\ Walk(mm, q, w).f = Walk(mm, p, v).f) =>
                \E s \in Segs : Walk(mm, p, v).f \in ToSet(mm.segments[s].phys)

\* The two walks of a space agree: the kernel's tables and the CPU's entries name
\* the same page for every address of a heap or a stack (paging.c:113-179).
WalksAgree ==
    \A p \in Live, v \in HeapPages \cup ToSet(StackPages) : get_page_entry(mm, p, v) = Walk(mm, p, v)

\* A segment's attachment count is the number of its records, all of live processes,
\* so it is released with its last user (shmem.c:139-179).
AttachmentsCounted ==
    /\ \A s \in Segs :
          mm.segments[s].attached = Cardinality({a \in 1 .. NAttach :
              mm.attachments[a].pid # NULL /\ mm.attachments[a].shmid = s})
    /\ \A a \in 1 .. NAttach : mm.attachments[a].pid # NULL =>
          mm.attachments[a].pid \in Live /\ mm.segments[mm.attachments[a].shmid].used

\* Memory is held as long as it is used: frames by their users and segments by
\* their attachments, through forks, faults, detachments and deaths
\* (paging.c:277-315, 900-970, shmem.c:139-179, process.c:571-627).
MemoryHeld == TypeOK /\ FramesHeld /\ AttachmentsCounted

\* The hardware lets a process write only where it may: writable frames are not
\* shared, and the kernel's tables are those the CPU walks (paging.c:113-179,
\* 277-315, 932-943).
TranslationsSafe == WritersAlone /\ WalksAgree

\* A frame that no page, segment or part of the kernel uses is free: the comment in
\* process_free_address_space says "Walk page directory and free all user pages"
\* (process.c:580).
NothingLost ==
    \A f \in Frames : mm.rc[f] > 0 => KernelUses(f) + DataUses(f) > 0

\* The segment page a frame is, or what a private page holds.
Cell(f) ==
    LET S == {<<s, i>> \in Segs \X (1 .. Max(SegSizes)) :
                 i \in DOMAIN mm.segments[s].phys /\ mm.segments[s].phys[i] = f}
    IN  IF f = NULL THEN [kind |-> "absent"]
        ELSE IF S = {} THEN [kind |-> "private", val |-> mm.data[f]]
        ELSE LET c == CHOOSE c \in S : TRUE IN [kind |-> "shared", seg |-> c[1], page |-> c[2]]

\* What each process and each segment holds, read through the page tables.
Promise == INSTANCE PrivateMemory WITH
    Stack <- ToSet(StackPages), Zero <- 0,
    live <- Live,
    page <- [p \in Procs |-> [v \in Pages |-> Cell(Walk(mm, p, v).f)]],
    shm <- [s \in Segs |-> IF mm.segments[s].used
                           THEN [i \in DOMAIN mm.segments[s].phys |-> mm.data[mm.segments[s].phys[i]]]
                           ELSE <<>>]

\* Frames, tables, reference counts and faults implement private memories: no call
\* or fault of one process changes what another one reads, except through a shared
\* segment, and a child starts with what its parent held (paging.c, shmem.c).
KeepsMemoryPrivate == Promise!Spec
=============================================================================
