---------------------------- MODULE PrivateMemory ----------------------------
(***************************************************************************)
(* What the memory calls promise, without frames, page tables, reference   *)
(* counts or faults: every live process has memory of its own, a fork      *)
(* copies it, fresh pages are zero or hold the program's image, and only   *)
(* the pages of an attached shared segment are seen by others.  A step     *)
(* that needs memory may end other processes (the out-of-memory killer).   *)
(***************************************************************************)
EXTENDS Integers

CONSTANTS
    Procs,      \* processes
    Pages,      \* pages of an address space
    Segs,       \* shared segments
    Stack,      \* the pages a new process starts with
    Zero, Image \* what a fresh page and a page of a program hold

VARIABLES
    live,       \* the processes that have memory
    page,       \* what each process finds at each page
    shm         \* what the pages of a segment hold; no pages: no segment

vars == <<live, page, shm>>

Absent == [kind |-> "absent"]
Private(x) == [kind |-> "private", val |-> x]
Shared(s, i) == [kind |-> "shared", seg |-> s, page |-> i]

\* The others keep their memory, or are ended.
OthersKept(p) == \A q \in (Procs \ {p}) \cap live' : q \in live /\ page'[q] = page[q]

InUse(s) == \E q \in live', v \in Pages : page'[q][v].kind = "shared" /\ page'[q][v].seg = s

\* Segments keep what they hold; one that nobody has attached may disappear.
SegmentsKept(S) == \A s \in S : shm'[s] = shm[s] \/ (shm'[s] = <<>> /\ ~ InUse(s))

\* The pages of p may change, each only to one of the cells C.
Only(p, C) ==
    /\ p \in live \cap live'
    /\ \A v \in Pages : page'[p][v] = page[p][v] \/ page'[p][v] \in C
    /\ OthersKept(p)

NewSpace(q) ==
    \A v \in Pages : IF v \in Stack THEN page'[q][v].kind = "private" ELSE page'[q][v] = Absent

Begin(q) == q \notin live /\ live' = live \cup {q} /\ NewSpace(q) /\ OthersKept(q) /\ SegmentsKept(Segs)

Fork(p, q) ==
    /\ p \in live /\ q \notin live /\ live' = live \cup {q}
    /\ page'[q] = page[p]
    /\ OthersKept(q) /\ SegmentsKept(Segs)

Store(p, v) ==
    /\ p \in live /\ UNCHANGED live
    /\ LET c == page[p][v] IN
       \/ /\ c.kind = "private" /\ page'[p][v].kind = "private"
          /\ \A u \in Pages \ {v} : page'[p][u] = page[p][u]
          /\ OthersKept(p) /\ UNCHANGED shm
       \/ /\ c.kind = "shared" /\ UNCHANGED page
          /\ shm'[c.seg] # <<>>
          /\ shm' = [shm EXCEPT ![c.seg][c.page] = shm'[c.seg][c.page]]

Populate(p) == Only(p, {Private(Zero), Private(Image)}) /\ SegmentsKept(Segs)

Discard(p) == Only(p, {Absent}) /\ SegmentsKept(Segs)

Attach(p, s) == Only(p, {Shared(s, i) : i \in DOMAIN shm[s]}) /\ SegmentsKept(Segs)

Create(s) == \E p \in live : Only(p, {}) /\ shm[s] = <<>> /\ SegmentsKept(Segs \ {s})

End == live' \subseteq live /\ (\A q \in live' : page'[q] = page[q]) /\ SegmentsKept(Segs)

Init ==
    /\ \E p \in Procs :
          /\ live = {p}
          /\ \A v \in Pages : IF v \in Stack THEN page[p][v].kind = "private" ELSE page[p][v] = Absent
    /\ \A s \in Segs : shm[s] = <<>>

Next ==
    \/ \E p \in Procs :
          \/ Begin(p) \/ Populate(p) \/ Discard(p)
          \/ \E q \in Procs : Fork(p, q)
          \/ \E v \in Pages : Store(p, v)
          \/ \E s \in Segs : Attach(p, s)
    \/ \E s \in Segs : Create(s)
    \/ End

Spec == Init /\ [][Next]_vars
=============================================================================
