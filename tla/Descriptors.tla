---------------------------- MODULE Descriptors ----------------------------
(***************************************************************************)
(* Files as processes see them: the descriptor tables, the calls that open,*)
(* read, write, seek, duplicate and close descriptors (syscall.c,          *)
(* syscall_extra.c) over the handles and the tree of Vfs, and the pipes.   *)
(*                                                                         *)
(* A call is one step, as the kernel switches processes only where it      *)
(* yields: a pipe read or write that has to wait yields and looks again,   *)
(* one step each time.  Bytes in a pipe are numbered in the order they are *)
(* written, modulo Numbers.                                                *)
(***************************************************************************)
EXTENDS Vfs

CONSTANTS
  Procs,        \* process slots
  NFds,         \* PROCESS_MAX_FDS
  MaxPipes,     \* PIPE_MAX
  BufferSize,   \* PIPE_BUFFER_SIZE
  MaxRefs,      \* references to an end of a pipe (a bound of the model)
  Paths,        \* the paths calls are made with
  Links,        \* the symbolic links made: pairs of a target and a path
  Devices,      \* device ids given to device nodes
  Perms,        \* permissions set by chmod
  Accesses,     \* access modes of opens: of "r", "w", "rw"
  Sizes,        \* sizes of reads and writes
  ReuseNames,   \* whether a name is created again after it was deleted
  DupFiles      \* whether descriptors of files are duplicated, not only of pipes

ASSUME DescriptorsAssumption == {NFds, MaxPipes} \subseteq Nat \ {0} /\ BufferSize \in Nat \ {0, 1}

VARIABLES
  fd_table,     \* per process: what each descriptor stands for
  pipe_table,
  waiting       \* per process: the pipe call it waits in, or Idle

vars == <<fs, files, fd_table, pipe_table, waiting>>

Fds == 0..(NFds - 1)
Ends == {"r", "w"}
Numbers == 2 * BufferSize

NoFd == [kind |-> "none"]
\* ino is what the call that made the descriptor opened; the code keeps the handle only
FileFd(h, ino) == [kind |-> "file", handle |-> h, ino |-> ino]
PipeFd(i, e) == [kind |-> "pipe", pipe |-> i, end |-> e]

Idle == [fd |-> -1, size |-> 0]

FreePipe == [used |-> FALSE, refs |-> [e \in Ends |-> 0], open |-> [e \in Ends |-> FALSE],
             head |-> 0, tail |-> 0, buffer |-> [k \in 0..(BufferSize - 1) |-> 0],
             written |-> 0, read |-> 0]

Init ==
  /\ fs = vfs_core_init
  /\ files = [h \in 0..(MaxHandles - 1) |-> NoHandle]
  /\ fd_table = [p \in Procs |-> [d \in Fds |-> NoFd]]
  /\ pipe_table = [i \in 0..(MaxPipes - 1) |-> FreePipe]
  /\ waiting = [p \in Procs |-> Idle]

-----------------------------------------------------------------------------
(* Pipes. *)

pipe_increment_ref(q, e) == [q EXCEPT !.refs[e] = @ + 1, !.open[e] = TRUE]

pipe_close_handle(q, e) ==
  LET refs == [q.refs EXCEPT ![e] = IF @ > 0 THEN @ - 1 ELSE 0] IN
  IF \A x \in Ends : refs[x] = 0 THEN FreePipe
  ELSE [q EXCEPT !.refs = refs, !.open = [x \in Ends |-> refs[x] > 0]]

pipe_available_data(q) == (q.tail + BufferSize - q.head) % BufferSize
\* A ring that may be filled to the last byte
BugSpace(q) == BufferSize - pipe_available_data(q)
pipe_available_space(q) == BufferSize - pipe_available_data(q) - 1

\* n bytes out of, and into, the ring; bytes that have been read are not told apart
InRing(k, from, n) == (k + BufferSize - from) % BufferSize < n
Take(q, n) ==
  [q EXCEPT !.head = (@ + n) % BufferSize, !.read = (@ + n) % Numbers,
            !.buffer = [k \in DOMAIN @ |-> IF InRing(k, q.head, n) THEN 0 ELSE @[k]]]
Put(q, n) ==
  [q EXCEPT !.tail = (@ + n) % BufferSize, !.written = (@ + n) % Numbers,
            !.buffer = [k \in DOMAIN @ |->
               IF InRing(k, q.tail, n)
               THEN (q.written + ((k + BufferSize - q.tail) % BufferSize)) % Numbers ELSE @[k]]]

Least(a, b) == IF a < b THEN a ELSE b

\* What a read or write of n bytes makes of a pipe once it does not wait
pipe_read_fd(q, n) == Take(q, Least(n, pipe_available_data(q)))
pipe_write_fd(q, n) == Put(q, Least(n, pipe_available_space(q)))

MustWait(q, e) ==
  IF e = "r" THEN pipe_available_data(q) = 0 /\ q.open["w"]
  ELSE pipe_available_space(q) = 0 /\ q.open["r"]
Transfer(q, e, n) == IF e = "r" THEN pipe_read_fd(q, n) ELSE pipe_write_fd(q, n)

-----------------------------------------------------------------------------
(* Calls on descriptors. *)

Runs(p) == waiting[p] = Idle
FreeFds(p) == {d \in Fds : fd_table[p][d] = NoFd}
IsPipe(x) == x.kind = "pipe"

\* syscall_open: the handle, then the first free descriptor; without one it is closed
syscall_open(p, path, acc, willing) ==
  /\ Runs(p)
  /\ \E w \in {Follow(fs, path, MaxFollow)} :
       /\ fs' = w.t
       /\ LET opens == CanOpen(w) /\ (Inode(w.t, w.at).type = "dev" => willing)
              ino == w.t.dentry[w.at].inode
          IN  IF opens /\ FreeHandles # {} /\ FreeFds(p) # {}
              THEN /\ files' = [files EXCEPT ![Min(FreeHandles)] = OpenHandle(ino, acc)]
                   /\ fd_table' = [fd_table EXCEPT ![p][Min(FreeFds(p))] =
                                     FileFd(Min(FreeHandles), ino)]
              ELSE UNCHANGED <<files, fd_table>>
  /\ UNCHANGED <<pipe_table, waiting>>

\* syscall_read and syscall_write on a file
ReadFile(p, d, n) ==
  LET h == fd_table[p][d].handle IN
  /\ Runs(p) /\ fd_table[p][d].kind = "file" /\ CanRead(h)
  /\ files' = [files EXCEPT ![h].pos = @ + ReadCount(h, n)]
  /\ UNCHANGED <<fs, fd_table, pipe_table, waiting>>

WriteFile(p, d, n) ==
  LET h == fd_table[p][d].handle IN
  /\ Runs(p) /\ fd_table[p][d].kind = "file" /\ CanWrite(h)
  /\ WriteFits(fs, files[h].ino, n)
  /\ fs' = WriteNode(fs, files[h].ino, n)
  /\ files' = [files EXCEPT ![h].pos = n]
  /\ UNCHANGED <<fd_table, pipe_table, waiting>>

\* syscall_lseek: refused unless the mode is VFS_TYPE_FILE without permission bits
syscall_lseek(p, d, n) ==
  LET h == fd_table[p][d].handle IN
  /\ Runs(p) /\ fd_table[p][d].kind = "file"
  /\ files[h].ref > 0 /\ Type(h) = "file" /\ fs.inode[files[h].ino].perm = 0
  /\ \E from \in {0, files[h].pos, fs.inode[files[h].ino].size} :
       files' = [files EXCEPT ![h].pos = from + n]
  /\ files'[h].pos <= RamSize
  /\ UNCHANGED <<fs, fd_table, pipe_table, waiting>>

\* syscall_read and syscall_write on a pipe: a call that has to wait yields and looks
\* again.  Nobody else has a descriptor of the pipe, as fork does not copy them.
UsePipe(p, d, n) ==
  LET x == fd_table[p][d] IN
  /\ IsPipe(x) /\ waiting[p] \in {Idle, [fd |-> d, size |-> n]}
  /\ IF MustWait(pipe_table[x.pipe], x.end)
     THEN /\ waiting' = [waiting EXCEPT ![p] = [fd |-> d, size |-> n]]
          /\ UNCHANGED pipe_table
     ELSE /\ waiting' = [waiting EXCEPT ![p] = Idle]
          /\ pipe_table' = [pipe_table EXCEPT ![x.pipe] = Transfer(@, x.end, n)]
  /\ UNCHANGED <<fs, files, fd_table>>

\* What closing a descriptor does to the handles and to the pipes
vfs_core_close(x) ==
  IF x.kind = "file" /\ files[x.handle].ref > 0
  THEN [files EXCEPT ![x.handle] = CloseHandle(@)] ELSE files
ClosePipeEnd(x) ==
  IF IsPipe(x) THEN [pipe_table EXCEPT ![x.pipe] = pipe_close_handle(@, x.end)] ELSE pipe_table

syscall_close(p, d) ==
  /\ Runs(p) /\ fd_table[p][d] # NoFd
  /\ files' = vfs_core_close(fd_table[p][d])
  /\ pipe_table' = ClosePipeEnd(fd_table[p][d])
  /\ fd_table' = [fd_table EXCEPT ![p][d] = NoFd]
  /\ UNCHANGED <<fs, waiting>>

\* syscall_pipe: with less than two free descriptors the pipe is released again
syscall_pipe(p) ==
  LET i == Min({k \in DOMAIN pipe_table : ~pipe_table[k].used})
      r == Min(FreeFds(p))
      w == Min(FreeFds(p) \ {r})
  IN  /\ Runs(p)
      /\ \E k \in DOMAIN pipe_table : ~pipe_table[k].used
      /\ Cardinality(FreeFds(p)) >= 2
      /\ pipe_table' = [pipe_table EXCEPT ![i] =
           pipe_increment_ref(pipe_increment_ref([FreePipe EXCEPT !.used = TRUE], "r"), "w")]
      /\ fd_table' = [fd_table EXCEPT ![p][r] = PipeFd(i, "r"), ![p][w] = PipeFd(i, "w")]
      /\ UNCHANGED <<fs, files, waiting>>

\* The reference a duplicate adds: only pipes are counted
Counted(table, x) ==
  IF IsPipe(x) THEN [table EXCEPT ![x.pipe] = pipe_increment_ref(@, x.end)] ELSE table

MayDup(p, d) == Runs(p) /\ fd_table[p][d] # NoFd /\ (DupFiles \/ IsPipe(fd_table[p][d]))

RefsLeft(x) == IsPipe(x) => pipe_table[x.pipe].refs[x.end] < MaxRefs

\* syscall_dup: the reference is counted before a free descriptor is looked for
syscall_dup(p, d) ==
  /\ MayDup(p, d) /\ RefsLeft(fd_table[p][d])
  /\ pipe_table' = Counted(pipe_table, fd_table[p][d])
  /\ fd_table' = IF FreeFds(p) = {} THEN fd_table
                 ELSE [fd_table EXCEPT ![p][Min(FreeFds(p))] = fd_table[p][d]]
  /\ UNCHANGED <<fs, files, waiting>>

syscall_dup2(p, d, e) ==
  /\ MayDup(p, d) /\ d # e /\ RefsLeft(fd_table[p][d])
  /\ files' = vfs_core_close(fd_table[p][e])
  /\ pipe_table' = Counted(ClosePipeEnd(fd_table[p][e]), fd_table[p][d])
  /\ fd_table' = [fd_table EXCEPT ![p][e] = fd_table[p][d]]
  /\ UNCHANGED <<fs, waiting>>

\* A process ends, in whatever it is doing, and its slot is used again: the new
\* process starts with an empty table and nothing has been closed
ProcessEnds(p) ==
  /\ fd_table' = [fd_table EXCEPT ![p] = [d \in Fds |-> NoFd]]
  /\ waiting' = [waiting EXCEPT ![p] = Idle]
  /\ UNCHANGED <<fs, files, pipe_table>>

-----------------------------------------------------------------------------
(* Calls on the tree: whether one succeeds or fails, it leaves the tree it has
   walked, with the dentries that lookups have added. *)

Tree(w) == \E v \in {w} : fs' = v.t /\ UNCHANGED <<files, fd_table, pipe_table, waiting>>

\* The name has been deleted, and the cache still holds its dentry
Deleted(path) ==
  LET w == vfs_lookup_internal(fs, path) IN w.at # NULL /\ Inode(w.t, w.at).type = "none"
MayCreate(path) == ReuseNames \/ ~Deleted(path)

Lookup(path) == Tree(vfs_lookup_internal(fs, path))
CreateFile(path, force) == MayCreate(path) /\ Tree(vfs_core_create_file(fs, path, force))
CreateDir(path) == MayCreate(path) /\ Tree(vfs_make_directory_internal(fs, path))
CreateSymlink(target, path, force) ==
  MayCreate(path) /\ Tree(vfs_core_create_symlink(fs, target, path, force))
CreateDevice(path, dev) == MayCreate(path) /\ Tree(vfs_core_create_device_ex(fs, path, 6, dev))
Chmod(path, perm) == Tree(vfs_core_chmod(fs, path, perm))
Move(src, dest) == src # dest /\ Tree(vfs_core_move(fs, src, dest))
Unlink(path) == Tree(vfs_core_unlink(fs, path))
Rmdir(path) == Tree(vfs_core_rmdir(fs, path))
RemoveRecursive(path) == Tree(vfs_remove_recursive(fs, path))

\* Calls with paths from a set S
TreeCall(S) ==
  \E path \in S :
    \/ Lookup(path) \/ CreateDir(path) \/ Unlink(path) \/ Rmdir(path) \/ RemoveRecursive(path)
    \/ \E force \in BOOLEAN : CreateFile(path, force)
    \/ \E dest \in S : Move(path, dest)

NodeCall(S) ==
  \/ \E path \in S :
        \/ CreateFile(path, TRUE) \/ Unlink(path)
        \/ \E dev \in Devices : CreateDevice(path, dev)
        \/ \E perm \in Perms : Chmod(path, perm)
  \/ \E l \in Links, force \in BOOLEAN : CreateSymlink(l[1], l[2], force)

OpenCall(p, S) ==
  \E path \in S, acc \in Accesses, willing \in BOOLEAN : syscall_open(p, path, acc, willing)

FileCall(p) ==
  \E d \in Fds, n \in Sizes : ReadFile(p, d, n) \/ WriteFile(p, d, n) \/ syscall_lseek(p, d, n)

FdCall(p) ==
  \/ syscall_pipe(p)
  \/ \E d \in Fds :
        \/ syscall_close(p, d) \/ syscall_dup(p, d)
        \/ \E e \in Fds : syscall_dup2(p, d, e)

Next ==
  \/ TreeCall(Paths) \/ NodeCall(Paths)
  \/ \E p \in Procs : \/ OpenCall(p, Paths) \/ FileCall(p) \/ FdCall(p) \/ ProcessEnds(p)
                      \/ \E d \in Fds, n \in Sizes : UsePipe(p, d, n)

Spec == Init /\ [][Next]_vars
-----------------------------------------------------------------------------
(* Properties. *)

Inodes == DOMAIN fs.inode
Dentries == DOMAIN fs.dentry

\* Every component has its type.
TypeOK ==
  /\ Len(fs.inode) <= MaxInodes /\ Len(fs.dentry) <= MaxDentries /\ fs.top \in 0..RamSize
  /\ \A k \in DOMAIN fs.cache : fs.cache[k] \in Dentries \cup {NULL}
  /\ \A d \in Dentries : fs.dentry[d].inode \in Inodes /\ fs.dentry[d].parent \in Dentries
  /\ \A h \in DOMAIN files : files[h].ino \in Inodes \cup {NULL}
  /\ \A i \in DOMAIN pipe_table :
        pipe_table[i].head \in 0..(BufferSize - 1) /\ pipe_table[i].tail \in 0..(BufferSize - 1)

\* The node a path leads to by the directory entries alone, without the cache.
EntryOf(ino, name) ==
  IF ino = NULL \/ fs.inode[ino].type # "dir" THEN NULL ELSE vfs_find_dirent(fs, ino, name)
NodeAt(path) == FoldLeft(EntryOf, 1, path)

\* The node a lookup of the path leads to; a deleted one counts as none.
Found(w) == IF w.at = NULL \/ Inode(w.t, w.at).type = "none" THEN NULL ELSE w.t.dentry[w.at].inode

\* Whatever the cache has evicted, moved or still holds of deleted names, a lookup
\* finds what the directories say, until the dentries, which are never given back,
\* are used up (vfs_core.c:110-130, 303-364, 936-979).
LookupAgrees ==
  DentriesLeft(fs) =>
    \A path \in {q \in Paths : DotDot \notin ToSet(q)} :
      LET found == Found(vfs_lookup_internal(fs, path)) IN
      found = NodeAt(path) \/ (found = NULL /\ ~DentriesLeft(vfs_lookup_internal(fs, path).t))

Named == {<<d, k>> \in Inodes \X (1..MaxInodes) : k \in DOMAIN fs.inode[d].dirents}
EntryAt(n) == fs.inode[n[1]].dirents[n[2]]

\* No two entries name the same node or are equal in one directory, and a named node
\* is alive: files are not lost or doubled by moves, forced creations and failures,
\* until the dentries are used up (vfs_core.c:179-197, 936-1015).
EntriesSound ==
  DentriesLeft(fs) =>
    /\ \A m, n \in Named : m # n =>
          /\ EntryAt(m).inode # EntryAt(n).inode
          /\ m[1] = n[1] => EntryAt(m).name # EntryAt(n).name
    /\ \A n \in Named : fs.inode[EntryAt(n).inode].type # "none"

\* The data areas of different nodes do not overlap and lie below the allocator's
\* mark, through rewrites, truncations and forced creations (vfs_core.c:150-159,
\* 476-494, 713-732).
AreasDisjoint ==
  LET Area(i) == fs.inode[i].off..(fs.inode[i].off + fs.inode[i].size - 1)
      WithData == {i \in Inodes : fs.inode[i].off # INVALID}
  IN  /\ \A i \in WithData : Area(i) \subseteq 0..(fs.top - 1)
      /\ \A i, j \in WithData : i # j => Area(i) \cap Area(j) = {}

\* The tree is what its directories say: paths lead to the nodes the entries name,
\* each node has one entry, and its data is its own (vfs_core.c:100-197, 476-494,
\* 713-732, 936-1015).
TreeSound == TypeOK /\ LookupAgrees /\ EntriesSound /\ AreasDisjoint

\* A descriptor of a file stands for the file that was opened: its handle is neither
\* closed nor given to another open while the descriptor is in the table
\* (syscall.c:1031-1110, vfs_core.c:647-694).
FilesHeld ==
  \A p \in Procs, d \in Fds : fd_table[p][d].kind = "file" =>
    /\ files[fd_table[p][d].handle].ref > 0
    /\ files[fd_table[p][d].handle].ino = fd_table[p][d].ino

\* A pipe is in use while a descriptor names it, and each end is counted open while
\* one does, so that no reader sees the end of the data and no writer an error too
\* early, through dup, dup2, close and the deaths of processes
\* (syscall_extra.c:128-186, 254-276, 382-437).
EndsCounted ==
  \A i \in DOMAIN pipe_table, e \in Ends :
    LET holders == Cardinality({<<p, d>> \in Procs \X Fds : fd_table[p][d] = PipeFd(i, e)}) IN
    /\ pipe_table[i].refs[e] >= holders
    /\ pipe_table[i].open[e] <=> pipe_table[i].refs[e] > 0
    /\ holders > 0 => pipe_table[i].used

\* What a descriptor names lives at least as long as the descriptor
\* (syscall.c:1031-1110, syscall_extra.c:128-186, 382-437).
HandlesCounted == FilesHeld /\ EndsCounted

\* A pipe holds the bytes written and not yet read, in order and without a gap, through
\* short reads and writes, a full ring and its reuse (syscall_extra.c:175-252).
BytesInOrder ==
  \A i \in DOMAIN pipe_table :
    LET q == pipe_table[i]
        n == pipe_available_data(q)
    IN  /\ (q.read + n) % Numbers = q.written
        /\ \A k \in 0..(n - 1) :
              q.buffer[(q.head + k) % BufferSize] = (q.read + k) % Numbers

\* vfs_test.c:41-50 creates a file and requires that it can be opened: a file that
\* was created is there to be opened ("[KTEST FAIL] vfs_test: vfs_open failed").
CreatedOpens ==
  [][\A path \in Paths :
       LET w == vfs_core_create_file(fs, path, TRUE) IN
       (w.at # NULL /\ fs' = w.t) => CanOpen(vfs_lookup_internal(fs', path))]_vars
=============================================================================
