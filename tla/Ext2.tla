-------------------------------- MODULE Ext2 --------------------------------
(***************************************************************************)
(* The ext2 file system on the disk (kernel/fs/ext2/ext2.c) and the calls  *)
(* the VFS makes to it in disk mode (kernel/fs/vfs/vfs_core.c).            *)
(*                                                                         *)
(* A call reads and writes blocks one after the other; the writes are in   *)
(* the order of the code.  Any one of them may fail, and the machine may   *)
(* stop before any one of them and be started again with what is on the    *)
(* disk.  A call is therefore an operator from a state of the file system  *)
(* to the state it leaves, and counts its writes.                          *)
(*                                                                         *)
(* One block group.  Sizes are in blocks, lengths of directory entries in  *)
(* units of one entry with a short name (12 bytes).  The block cache       *)
(* writes through and is not visible.  Reads do not fail, except of a      *)
(* block number that is not on the disk.                                   *)
(***************************************************************************)
EXTENDS Integers, Sequences, FiniteSets, SequencesExt

CONSTANTS
  Names,        \* names of files and directories
  NBlocks,      \* blocks for directories and data; 1 is the root's
  NInodes,      \* inodes; 1 is reserved, 2 is the root
  NDirect,      \* direct blocks of an inode (12)
  NIndirect,    \* pointers in an indirect block (block_size / 4)
  BlockRecs,    \* entries that fit into a directory block
  DiskPaths,    \* paths calls are made with, and all that lead to them
  FileSizes,    \* sizes files are written with
  MaxCalls,     \* bound on the calls that change the disk
  MaxFaults,    \* bound on failing writes and restarts
  Beyond        \* cases the file system is not expected to get right:
                \* "stale names", "file parents", "cut moves", "into itself",
                \* "first entries", "raw pointers"

VARIABLES
  disk,         \* what is on the disk
  counts,       \* the superblock and the group descriptor in memory
  numbers,      \* inode numbers of the dentries in memory, 0 if none
  calls,        \* calls that changed the disk so far
  faults,       \* failures so far
  kept          \* what each path should lead to

ext2Vars == <<disk, counts, numbers, calls, faults, kept>>

Blocks == 1..NBlocks
DiskInodes == 1..NInodes
RootInode == 2
NoBlock == NBlocks + 1
FilePaths == UNION {[1..n -> Names] : n \in 1..(NInodes - 2)}
NoFault == [at |-> 0, crash |-> FALSE]

-----------------------------------------------------------------------------
(* Blocks and inodes.                                                      *)

ZeroInode == [kind |-> "none", size |-> 0, block |-> [k \in 1..NDirect + 1 |-> 0]]

Entry(name, ino, rec) == [name |-> name, ino |-> ino, rec |-> rec]

\* What the bytes of other blocks mean as block numbers: any, here the root's
\* directory.
RawPointers == [k \in 1..NIndirect |-> 1]
DirBlock(entries) == [entries |-> entries, ptr |-> RawPointers, tag |-> <<>>]
DataBlock(t) == [entries |-> <<>>, ptr |-> RawPointers, tag |-> t]
PointerBlock(ptr) == [entries |-> <<>>, ptr |-> ptr, tag |-> <<>>]
NewDirBlock(ino, parent) ==
  DirBlock(<<Entry(".", ino, 1), Entry("..", parent, BlockRecs - 1)>>)

IsDirectory(d, i) == d.inode[i].kind = "dir"

\* The blocks a walk over a directory, or the freeing of an inode, meets.
DirectBlocks(x) ==
  LET n == Cardinality({k \in 1..NDirect : \A j \in 1..k : x.block[j] # 0})
  IN  SubSeq(x.block, 1, n)

LeastOf(S) == CHOOSE k \in S : \A j \in S : k <= j

\* The entries of a directory, block after block.
Records(d, i) ==
  LET blocks == DirectBlocks(d.inode[i])
      upto[k \in 0..Len(blocks)] ==
        IF k = 0 THEN <<>> ELSE upto[k-1] \o d.data[blocks[k]].entries
  IN  upto[Len(blocks)]

InDirectory(records, name) ==
  LET hits == {j \in DOMAIN records : records[j].name = name}
  IN  IF hits = {} THEN 0 ELSE records[LeastOf(hits)].ino

ext2_find_inode(d, path) ==
  LET found[k \in 0..Len(path)] ==
        IF k = 0 THEN RootInode
        ELSE IF found[k-1] = 0 THEN 0 ELSE InDirectory(Records(d, found[k-1]), path[k])
  IN  found[Len(path)]

\* The block with the k-th part of a file, 0 if there is none.
FileBlock(d, x, k) ==
  LET indirect == x.block[NDirect + 1]
  IN  IF k <= NDirect THEN x.block[k]
      ELSE IF indirect \in Blocks THEN d.data[indirect].ptr[k - NDirect] ELSE 0

ext2_read_data(d, i) ==
  LET x == d.inode[i]
      n == Cardinality({k \in 1..x.size : \A j \in 1..k : FileBlock(d, x, j) # 0})
  IN  [k \in 1..n |-> d.data[FileBlock(d, x, k)].tag]

-----------------------------------------------------------------------------
(* Writing.  s.n counts the writes of a call, s.ok is FALSE after one that *)
(* failed, s.got is what a call returns.                                   *)

Begins(f) == [d |-> disk, m |-> counts, f |-> f, n |-> 0, ok |-> TRUE, got |-> 0, raw |-> FALSE]

Refused(s) == [s EXCEPT !.ok = FALSE]

write_block(s, d) ==
  LET n == s.n + 1
      fails == s.f.at = n \/ (s.f.crash /\ n > s.f.at)
  IN  IF fails THEN [s EXCEPT !.n = n, !.ok = FALSE]
      ELSE [s EXCEPT !.n = n, !.ok = TRUE, !.d = d]

\* What comes next unless a call has failed.
Then(s, F(_)) == IF s.ok THEN F(s) ELSE s

\* The value v under the name that F gives it.
Using(v, F(_)) == F(v)

ext2_write_superblock(s) == write_block(s, [s.d EXCEPT !.sb = s.m.sb])

ext2_write_group_descriptors(s) == write_block(s, [s.d EXCEPT !.gd = s.m.gd])

WriteCounts(s) == Then(ext2_write_superblock(s), ext2_write_group_descriptors)

ext2_write_inode(s, i, x) == write_block(s, [s.d EXCEPT !.inode[i] = x])

OneLess(c, what) == [c EXCEPT ![what] = IF @ > 0 THEN @ - 1 ELSE @]
OneMore(c, what) == [c EXCEPT ![what] = @ + 1]
CountTaken(s, what) == [s EXCEPT !.m.sb = OneLess(@, what), !.m.gd = OneLess(@, what)]
CountFreed(s, what) == [s EXCEPT !.m.sb = OneMore(@, what), !.m.gd = OneMore(@, what)]

ext2_alloc_block(s) ==
  LET free == Blocks \ s.d.usedBlocks
      b == LeastOf(free)
  IN  IF free = {} THEN Refused(s)
      ELSE Then(write_block(s, [s.d EXCEPT !.usedBlocks = @ \cup {b}]), LAMBDA s1 :
             [WriteCounts(CountTaken(s1, "blocks")) EXCEPT !.got = b])

ext2_alloc_inode(s) ==
  LET free == DiskInodes \ s.d.usedInodes
      i == LeastOf(free)
  IN  IF free = {} THEN Refused(s)
      ELSE Then(write_block(s, [s.d EXCEPT !.usedInodes = @ \cup {i}]), LAMBDA s1 :
           Then(WriteCounts(CountTaken(s1, "inodes")), LAMBDA s2 :
             [ext2_write_inode(s2, i, ZeroInode) EXCEPT !.got = i]))

-----------------------------------------------------------------------------
(* Directories.                                                            *)

\* An entry longer than its name is cut in two.
SplitEntry(entries, j, name, child) ==
  SubSeq(entries, 1, j - 1)
    \o <<[entries[j] EXCEPT !.rec = 1], Entry(name, child, entries[j].rec - 1)>>
    \o SubSeq(entries, j + 1, Len(entries))

AddBlock(s, dir, name, child) ==
  LET x == s.d.inode[dir]
      open == {k \in 1..NDirect : x.block[k] = 0}
      Longer(b) == [x EXCEPT !.size = @ + 1,
                             !.block = IF open = {} THEN @ ELSE [@ EXCEPT ![LeastOf(open)] = b]]
  IN  Then(ext2_alloc_block(s), LAMBDA a :
      Then(write_block(a, [a.d EXCEPT !.data[a.got] = DirBlock(<<Entry(name, child, BlockRecs)>>)]),
           LAMBDA w : ext2_write_inode(w, dir, Longer(a.got))))

ext2_add_directory_entry(s, dir, name, child) ==
  LET blocks == DirectBlocks(s.d.inode[dir])
      Long(k) == {j \in DOMAIN s.d.data[blocks[k]].entries :
                    s.d.data[blocks[k]].entries[j].rec >= 2}
      room == {k \in DOMAIN blocks : Long(k) # {}}
      k == LeastOf(room)
  IN  IF room = {} THEN AddBlock(s, dir, name, child)
      ELSE write_block(s, [s.d EXCEPT !.data[blocks[k]].entries =
                             SplitEntry(@, LeastOf(Long(k)), name, child)])

\* The space of a removed entry goes to the one before it.
MergeEntry(entries, j) ==
  SubSeq(entries, 1, j - 2)
    \o <<[entries[j-1] EXCEPT !.rec = @ + entries[j].rec]>>
    \o SubSeq(entries, j + 1, Len(entries))

ext2_remove_directory_entry(s, dir, name) ==
  LET blocks == DirectBlocks(s.d.inode[dir])
      At(k) == {j \in DOMAIN s.d.data[blocks[k]].entries :
                  s.d.data[blocks[k]].entries[j].name = name}
      in == {k \in DOMAIN blocks : At(k) # {}}
      k == LeastOf(in)
  IN  IF in = {} \/ 1 \in At(k) THEN Refused(s)
      ELSE write_block(s, [s.d EXCEPT !.data[blocks[k]].entries =
                             MergeEntry(@, LeastOf(At(k)))])

\* Only the direct blocks are freed, and a bitmap that cannot be written does
\* not stop it.
FreeBlock(s, b) ==
  CountFreed(write_block(s, [s.d EXCEPT !.usedBlocks = @ \ {b}]), "blocks")

ext2_clear_inode(s, i) ==
  LET s1 == FoldLeft(FreeBlock, s, DirectBlocks(s.d.inode[i]))
  IN  Then(ext2_write_inode(s1, i, ZeroInode), LAMBDA s2 :
      Then(write_block(s2, [s2.d EXCEPT !.usedInodes = @ \ {i}]), LAMBDA s3 :
        WriteCounts(CountFreed(s3, "inodes"))))

\* Mutation: an inode is freed before its entry is removed.
BugRemoveName(s, path, i) ==
  LET parent == ext2_find_inode(s.d, Front(path))
  IN  Then(ext2_clear_inode(s, i), LAMBDA s1 : ext2_remove_directory_entry(s1, parent, Last(path)))

RemoveName(s, path, i) ==
  LET parent == ext2_find_inode(s.d, Front(path))
  IN  Then(ext2_remove_directory_entry(s, parent, Last(path)), LAMBDA s1 : ext2_clear_inode(s1, i))

ext2_unlink(s, path) ==
  LET i == ext2_find_inode(s.d, path)
  IN  IF i = 0 \/ (i # 0 /\ IsDirectory(s.d, i)) THEN Refused(s)
      ELSE RemoveName(s, path, i)

ext2_rmdir(s, path) ==
  LET i == ext2_find_inode(s.d, path)
      names == {e.name : e \in Range(Records(s.d, i))} \ {".", ".."}
  IN  IF i = 0 \/ (i # 0 /\ (~IsDirectory(s.d, i) \/ names # {})) THEN Refused(s)
      ELSE RemoveName(s, path, i)

-----------------------------------------------------------------------------
(* Files.                                                                  *)

\* The block for part k of the file; got = 0 if there is none.  The loop of
\* ext2_write_data goes on to write the inode then.
DirectPart(s, k) ==
  IF s.x.block[k] # 0 THEN [s EXCEPT !.got = s.x.block[k]]
  ELSE Using(ext2_alloc_block(s), LAMBDA a :
         IF a.ok THEN [a EXCEPT !.x.block[k] = a.got] ELSE [a EXCEPT !.full = TRUE])

\* With the indirect block in place: its pointers are ptr.
PointedPart(s, k, ptr, fresh) ==
  LET Write(a) == write_block(a, [a.d EXCEPT !.data[s.x.block[NDirect + 1]] =
                                    PointerBlock([ptr EXCEPT ![k] = a.got])])
  IN  IF ptr[k] # 0 THEN [s EXCEPT !.got = ptr[k]]
      ELSE Using(ext2_alloc_block(s), LAMBDA a :
             IF a.ok THEN Write(a) ELSE [a EXCEPT !.full = TRUE, !.raw = fresh])

FirstIndirect(a, k) ==
  IF a.ok THEN PointedPart([a EXCEPT !.x.block[NDirect + 1] = a.got], k,
                           [j \in 1..NIndirect |-> 0], TRUE)
  ELSE [a EXCEPT !.x.block[NDirect + 1] = NoBlock, !.full = TRUE]

IndirectPart(s, k) ==
  LET b == s.x.block[NDirect + 1]
  IN  IF b = 0 THEN FirstIndirect(ext2_alloc_block(s), k)
      ELSE IF b = NoBlock THEN Refused(s)
      ELSE PointedPart(s, k, s.d.data[b].ptr, FALSE)

PartBlock(s, k) ==
  IF k <= NDirect THEN DirectPart(s, k)
  ELSE IF k <= NDirect + NIndirect THEN IndirectPart(s, k - NDirect)
  ELSE [s EXCEPT !.full = TRUE]

\* One pass of the loop; nothing happens once a part could not be written.
WritePart(s, k) ==
  IF ~s.ok \/ s.full THEN s
  ELSE Using(PartBlock(s, k), LAMBDA p :
         IF ~p.ok \/ p.full THEN p
         ELSE Then(write_block(p, [p.d EXCEPT !.data[p.got] = DataBlock(p.t)]),
                   LAMBDA w : [w EXCEPT !.done = k]))

\* An inode that cannot be written is an error only if no part was written.
WriteSize(e, i) ==
  IF e.ok \/ e.full
  THEN Using(ext2_write_inode(e, i, [e.x EXCEPT !.size = e.done]),
             LAMBDA w : [w EXCEPT !.ok = w.ok \/ e.done > 0])
  ELSE e

ext2_write_data(s, i, size, t) ==
  LET begin == [d |-> s.d, m |-> s.m, f |-> s.f, n |-> s.n, ok |-> s.ok, got |-> 0,
                raw |-> FALSE, x |-> s.d.inode[i], t |-> t, done |-> 0, full |-> FALSE]
  IN  Using(WriteSize(FoldLeft(WritePart, begin, [k \in 1..size |-> k]), i), LAMBDA r :
        [d |-> r.d, m |-> r.m, f |-> r.f, n |-> r.n, ok |-> r.ok, got |-> r.done, raw |-> r.raw])

ext2_update_inode_size(s, i, size) ==
  ext2_write_inode(s, i, [s.d.inode[i] EXCEPT !.size = size])

ext2_create_file(s, path) ==
  LET parent == ext2_find_inode(s.d, Front(path))
  IN  IF parent = 0 THEN Refused(s)
      ELSE Then(ext2_alloc_inode(s), LAMBDA a :
           Then(ext2_write_inode(a, a.got, [ZeroInode EXCEPT !.kind = "file"]), LAMBDA w :
             ext2_add_directory_entry(w, parent, Last(path), a.got)))

ext2_create_directory(s, path) ==
  LET parent == ext2_find_inode(s.d, Front(path))
      Inode(b) == [ZeroInode EXCEPT !.kind = "dir", !.size = 1, !.block[1] = b]
  IN  IF parent = 0 THEN Refused(s)
      ELSE Then(ext2_alloc_inode(s), LAMBDA a :
           Then(ext2_alloc_block(a), LAMBDA b :
           Then(ext2_write_inode(b, a.got, Inode(b.got)), LAMBDA w :
           Then(write_block(w, [w.d EXCEPT !.data[b.got] = NewDirBlock(a.got, parent)]), LAMBDA e :
             ext2_add_directory_entry(e, parent, Last(path), a.got)))))

ext2_fsync(s) == WriteCounts(s)

-----------------------------------------------------------------------------
(* The VFS in disk mode.                                                   *)

vfs_create_file_disk(s, path, force) ==
  LET i == ext2_find_inode(s.d, path)
  IN  IF i = 0 THEN ext2_create_file(s, path)
      ELSE IF force THEN ext2_update_inode_size(s, i, 0) ELSE Refused(s)

RECURSIVE vfs_create_dir_disk(_, _, _)
vfs_create_dir_disk(s, path, force) ==
  LET needed == force /\ Len(path) > 1 /\ ext2_find_inode(s.d, Front(path)) = 0
  IN  IF ext2_find_inode(s.d, path) # 0 THEN Refused(s)
      ELSE Then(IF needed THEN vfs_create_dir_disk(s, Front(path), TRUE) ELSE s,
                LAMBDA s1 : ext2_create_directory(s1, path))

vfs_move_disk(s, src, dest) ==
  LET i == ext2_find_inode(s.d, src)
      from == ext2_find_inode(s.d, Front(src))
      to == ext2_find_inode(s.d, Front(dest))
      TakenBack(s2) == IF s2.ok THEN s2
                       ELSE Refused(ext2_remove_directory_entry(s2, to, Last(dest)))
  IN  IF ext2_find_inode(s.d, dest) # 0 \/ i = 0 \/ to = 0 THEN Refused(s)
      ELSE Then(ext2_add_directory_entry(s, to, Last(dest), i), LAMBDA s1 :
             TakenBack(ext2_remove_directory_entry(s1, from, Last(src))))

\* Entries are taken from a copy of the block, one block after the other; the
\* first that cannot be removed stops it.
RECURSIVE vfs_remove_recursive_disk(_, _)
vfs_remove_recursive_disk(s, path) ==
  LET i == ext2_find_inode(s.d, path)
      Child(r, e) == IF ~r.ok \/ e.name \in {".", ".."} THEN r
                     ELSE vfs_remove_recursive_disk(r, Append(path, e.name))
      InBlock(r, b) == FoldLeft(Child, r, r.d.data[b].entries)
  IN  IF i = 0 THEN Refused(s)
      ELSE IF ~IsDirectory(s.d, i) THEN ext2_unlink(s, path)
      ELSE Then(FoldLeft(InBlock, s, DirectBlocks(s.d.inode[i])), LAMBDA s1 : ext2_rmdir(s1, path))

\* A walk along a path: the number of each part, from its dentry if it has one and
\* from the disk if not, and 0 from where it cannot go on.
vfs_lookup_disk(d, path) ==
  LET number[k \in 0..Len(path)] ==
        LET q == SubSeq(path, 1, k)
        IN  IF k = 0 THEN RootInode
            ELSE IF number[k-1] = 0 THEN 0
            ELSE IF ~IsDirectory(d, number[k-1]) THEN 0
            ELSE IF numbers[q] # 0 THEN numbers[q] ELSE ext2_find_inode(d, q)
  IN  number

\* It leaves dentries behind.
NumbersAfter(walk, path) ==
  [q \in DiskPaths |-> IF IsPrefix(q, path) /\ numbers[q] = 0 THEN walk[Len(q)] ELSE numbers[q]]

vfs_write_disk(s, i, size, t) ==
  IF i = 0 \/ (i # 0 /\ IsDirectory(s.d, i)) THEN Refused(s) ELSE ext2_write_data(s, i, size, t)

-----------------------------------------------------------------------------
(* The calls, with a failing write or a restart in any place.              *)

Absent == [kind |-> "none", data |-> <<>>]
ADirectory == [kind |-> "dir", data |-> <<>>]
AFile(data) == [kind |-> "file", data |-> data]

\* What a path leads to on the disk.
Shown(d, q) ==
  LET i == ext2_find_inode(d, q)
  IN  IF i = 0 THEN Absent
      ELSE IF d.inode[i].kind = "file" THEN AFile(ext2_read_data(d, i))
      ELSE [kind |-> d.inode[i].kind, data |-> <<>>]

Below(p, q) == IsPrefix(p, q)
KeptAt(q) == IF q \in FilePaths THEN kept[q] ELSE Absent

AllCounts == [blocks |-> NBlocks - 1, inodes |-> NInodes - 2]

Ext2Init ==
  /\ disk = [usedBlocks |-> {1}, usedInodes |-> {1, 2}, sb |-> AllCounts, gd |-> AllCounts,
             inode |-> [i \in DiskInodes |->
                          IF i = RootInode
                          THEN [kind |-> "dir", size |-> 1,
                                block |-> [k \in 1..NDirect + 1 |-> IF k = 1 THEN 1 ELSE 0]]
                          ELSE ZeroInode],
             data |-> [b \in Blocks |->
                         IF b = 1 THEN NewDirBlock(RootInode, RootInode)
                         ELSE PointerBlock([k \in 1..NIndirect |-> 0])]]
  /\ counts = [sb |-> AllCounts, gd |-> AllCounts]
  /\ numbers = [q \in DiskPaths |-> 0]
  /\ calls = 0 /\ faults = 0
  /\ kept = [q \in FilePaths |-> Absent]

\* A call that went well has done what it should.  Of one that failed or was cut
\* short each path shows what it led to before or what it should lead to now.
Expected(s, f, want) ==
  [q \in FilePaths |->
     IF (f = NoFault /\ s.ok) \/ Shown(s.d, q) = want[q] THEN want[q] ELSE kept[q]]

\* ext2_init after a restart: the counts are read from the disk, and no dentry is left.
Performs(Op(_), Want(_), nums, mayFail) ==
  LET cuts == IF mayFail /\ faults < MaxFaults
              THEN [at : 1..Op(Begins(NoFault)).n, crash : BOOLEAN] ELSE {}
  IN  \E f \in {NoFault} \cup cuts : \E s \in {Op(Begins(f))} :
        /\ s.n > 0
        /\ s.raw => "raw pointers" \in Beyond
        /\ disk' = s.d
        /\ calls' = IF s.d = disk THEN calls ELSE calls + 1
        /\ counts' = IF f.crash THEN [sb |-> s.d.sb, gd |-> s.d.gd] ELSE s.m
        /\ numbers' = IF f.crash THEN [q \in DiskPaths |-> 0] ELSE nums
        /\ faults' = IF f = NoFault THEN faults ELSE faults + 1
        /\ kept' = Expected(s, f, Want(s))

\* The parent is a directory, or a file is used as one.
ParentOk(p) == "file parents" \in Beyond \/ KeptAt(Front(p)).kind # "file"

MakeFile(p, force) ==
  /\ ParentOk(p)
  /\ Performs(LAMBDA s : vfs_create_file_disk(s, p, force),
              LAMBDA s : IF kept[p].kind = "dir" THEN kept
                         ELSE [kept EXCEPT ![p] = AFile(<<>>)],
              numbers, TRUE)

MakeDirectory(p, force) ==
  /\ ParentOk(p)
  /\ Performs(LAMBDA s : vfs_create_dir_disk(s, p, force),
              LAMBDA s : [q \in FilePaths |-> IF Below(q, p) THEN ADirectory ELSE kept[q]],
              numbers, TRUE)

RemoveFile(p) ==
  Performs(LAMBDA s : ext2_unlink(s, p), LAMBDA s : [kept EXCEPT ![p] = Absent], numbers, TRUE)

RemoveDirectory(p) ==
  Performs(LAMBDA s : ext2_rmdir(s, p), LAMBDA s : [kept EXCEPT ![p] = Absent], numbers, TRUE)

RemoveAll(p) ==
  LET walk == vfs_lookup_disk(disk, p)
  IN  /\ walk[Len(p)] # 0
      /\ Performs(LAMBDA s : vfs_remove_recursive_disk(s, p),
                  LAMBDA s : [q \in FilePaths |-> IF Below(p, q) THEN Absent ELSE kept[q]],
                  NumbersAfter(walk, p), TRUE)

\* Both names are the first of their blocks: neither can be taken away again.
StuckTwice(src, dest) ==
  LET s == vfs_move_disk(Begins(NoFault), src, dest)
  IN  ~s.ok /\ ext2_find_inode(s.d, dest) # 0

MoveOk(src, dest) ==
  /\ "into itself" \in Beyond \/ ~Below(src, dest)
  /\ "first entries" \in Beyond \/ ext2_find_inode(disk, dest) # 0 \/ ~StuckTwice(src, dest)

MoveOnDisk(src, dest) ==
  /\ src # dest /\ ParentOk(dest) /\ MoveOk(src, dest)
  /\ Performs(LAMBDA s : vfs_move_disk(s, src, dest),
              LAMBDA s : [q \in FilePaths |->
                            IF Below(dest, q)
                            THEN KeptAt(src \o SubSeq(q, Len(dest) + 1, Len(q)))
                            ELSE IF Below(src, q) THEN Absent ELSE kept[q]],
              numbers, "cut moves" \in Beyond)

\* The dentries of a path, once there, are not looked up again.
Current(walk, p) ==
  "stale names" \in Beyond \/ \A k \in 1..Len(p) : walk[k] = ext2_find_inode(disk, SubSeq(p, 1, k))

\* The inode is written last: until then the file has its old size, and the parts
\* that were written over are new.
PartlyWritten(s, p, t) ==
  LET old == kept[p].data
      new == Shown(s.d, p).data
  IN  Len(new) = Len(old) /\ \A k \in DOMAIN new : new[k] \in {old[k], t}

\* Files are filled with the paths they are written by.
FillFile(p, size) ==
  LET t == p
      walk == vfs_lookup_disk(disk, p)
  IN  /\ walk[Len(p)] # 0 /\ Current(walk, p)
      /\ Performs(LAMBDA s : vfs_write_disk(s, walk[Len(p)], size, t),
                  LAMBDA s : [kept EXCEPT ![p] =
                                IF (s.f # NoFault \/ ~s.ok) /\ PartlyWritten(s, p, t)
                                THEN Shown(s.d, p)
                                ELSE AFile([k \in 1..s.got |-> t])],
                  NumbersAfter(walk, p), TRUE)

Fsync == Performs(ext2_fsync, LAMBDA s : kept, numbers, TRUE)

Ext2Next ==
  /\ calls < MaxCalls
  /\ \/ \E p \in DiskPaths, force \in BOOLEAN : MakeFile(p, force) \/ MakeDirectory(p, force)
     \/ \E p \in DiskPaths : RemoveFile(p) \/ RemoveDirectory(p) \/ RemoveAll(p)
     \/ \E src, dest \in DiskPaths : MoveOnDisk(src, dest)
     \/ \E p \in DiskPaths, size \in FileSizes : FillFile(p, size)
     \/ Fsync

Ext2Spec == Ext2Init /\ [][Ext2Next]_ext2Vars

-----------------------------------------------------------------------------
(* What is promised.                                                       *)

Reachable == {RootInode} \cup ({ext2_find_inode(disk, q) : q \in FilePaths} \ {0})

\* The named entries of a directory: which directory, where, the name and the inode.
NamedIn(i) ==
  LET records == Records(disk, i)
  IN  {[dir |-> i, at |-> j, name |-> records[j].name, ino |-> records[j].ino] :
         j \in {j \in DOMAIN records : records[j].name \in Names}}

\* The blocks an inode holds, in the order of the inode.
Held(i) ==
  LET x == disk.inode[i]
      indirect == x.block[NDirect + 1]
  IN  DirectBlocks(x) \o (IF indirect \in Blocks THEN <<indirect>> ELSE <<>>)
        \o (IF x.kind = "file" THEN [k \in 1..(x.size - NDirect) |-> FileBlock(disk, x, NDirect + k)]
            ELSE <<>>)

RecordsFill(i) ==
  \A k \in DOMAIN DirectBlocks(disk.inode[i]) :
    FoldLeft(LAMBDA n, e : n + e.rec, 0, disk.data[disk.inode[i].block[k]].entries) = BlockRecs

TreeOnDisk(reachable) ==
  LET directories == {i \in reachable : IsDirectory(disk, i)}
      named == UNION {NamedIn(i) : i \in directories}
  IN  /\ \A i \in directories : RecordsFill(i)
      /\ \A n \in named : n.ino \in disk.usedInodes \ {RootInode} /\ disk.inode[n.ino].kind # "none"
      /\ \A m, n \in named : m # n => m.ino # n.ino /\ (m.dir = n.dir => m.name # n.name)

BlocksOwned(reachable) ==
  LET held == FoldSet(LAMBDA i, blocks : blocks \o Held(i), <<>>, reachable)
  IN  Range(held) \subseteq disk.usedBlocks /\ Cardinality(Range(held)) = Len(held)

CountsExact ==
  faults = 0 =>
    /\ counts.sb = [blocks |-> Cardinality(Blocks \ disk.usedBlocks),
                    inodes |-> Cardinality(DiskInodes \ disk.usedInodes)]
    /\ counts = [sb |-> disk.sb, gd |-> disk.gd] /\ counts.gd = counts.sb

\* After every call, and after a write that failed or a restart in the middle of one,
\* the disk holds a tree: every name leads to an inode of its own that is marked as
\* used, and no two files share a block.  A call that went well has done what it
\* should; of one that was cut short every path shows the old or the new
\* (ext2.c:529-1012, vfs_core.c:765-957).  Without such failures the counts of free
\* blocks and inodes, in memory and on the disk, are those of the bitmaps.
DiskSound ==
  /\ TreeOnDisk(Reachable) /\ BlocksOwned(Reachable) /\ CountsExact
  /\ \A q \in FilePaths : Shown(disk, q) = kept[q]
=============================================================================
