-------------------------------- MODULE Vfs --------------------------------
(***************************************************************************)
(* The RAM file system of kernel/fs/vfs/vfs_core.c: inodes with their      *)
(* directory entries, the tree of dentries that caches them, the bounded   *)
(* dentry cache that lookups go through, the bump allocator behind file    *)
(* data, and the table of open handles.                                    *)
(*                                                                         *)
(* A file name is a character code (names of one character, so that the    *)
(* cache's hash is the real one); a path is a sequence of names.  Every    *)
(* operation is a function from the tree to the tree it leaves and its     *)
(* result, because a lookup may itself create dentries.  krealloc of a     *)
(* directory's entry block is taken to succeed.  Disk mode (ext2) is not   *)
(* modelled here.                                                          *)
(***************************************************************************)
EXTENDS Integers, Sequences, FiniteSetsExt, SequencesExt

CONSTANTS
  MaxInodes,     \* VFS_MAX_INODES
  MaxDentries,   \* VFS_MAX_DENTRIES
  CacheSize,     \* VFS_MAX_DENTRY_CACHE
  MaxHandles,    \* VFS_MAX_FILE_HANDLES
  RamSize,       \* vfs_data_ram_size
  Initrd,        \* the entries of the initial RAM disk
  TmpName,       \* the name "tmp"
  MaxFollow,     \* links followed in one open (a bound of the model)
  Registered     \* the device ids device_lookup_id knows

ASSUME VfsAssumption ==
  /\ {MaxInodes, MaxDentries, CacheSize, MaxHandles} \subseteq Nat \ {0}
  /\ RamSize \in Nat

NULL == 0            \* no dentry, no inode: indices start at 1
INVALID == -1        \* VFS_INVALID_OFFSET, VFS_INVALID_FD
DotDot == 0          \* the path component ".."
Root == 1            \* vfs_root_dentry
NoDevice == 0
NoName == -1         \* the root's empty name

VARIABLES
  fs,      \* the tree: inode, dentry, cache and top (vfs_data_top)
  files    \* vfs_files

-----------------------------------------------------------------------------
(* The dentry cache: open addressing over the whole table. *)

\* vfs_hash_dentry for a parent inode number and a name of at most one character
vfs_hash_dentry(t, parent, name) ==
  LET seed == 5381 * 33 + (t.dentry[parent].inode - 1) IN
  (IF name = NoName THEN seed ELSE seed * 33 + name) % CacheSize

\* The slots in the order they are probed
Probe(t, parent, name, k) == (vfs_hash_dentry(t, parent, name) + k) % CacheSize

vfs_cache_lookup(t, parent, name) ==
  LET Entry(k) == t.cache[Probe(t, parent, name, k)]
      hit == {k \in 0..(CacheSize - 1) :
                /\ Entry(k) # NULL
                /\ t.dentry[Entry(k)].parent = parent
                /\ t.dentry[Entry(k)].name = name}
  IN  IF hit = {} THEN NULL ELSE Entry(Min(hit))

\* The first slot that is free or already holds d; the home slot when none is
vfs_cache_insert(t, d) ==
  LET Slot(k) == Probe(t, t.dentry[d].parent, t.dentry[d].name, k)
      room == {k \in 0..(CacheSize - 1) : t.cache[Slot(k)] \in {NULL, d}}
  IN  [t EXCEPT !.cache[Slot(IF room = {} THEN 0 ELSE Min(room))] = d]

-----------------------------------------------------------------------------
(* Allocation.  Inodes, dentries and data are never given back. *)

\* The inode vfs_alloc_inode hands out
NewInode ==
  [type |-> "none", perm |-> 0, size |-> 0, off |-> INVALID, links |-> 1,
   dirents |-> <<>>, target |-> <<>>, dev |-> NoDevice]
InodesLeft(t) == Len(t.inode) < MaxInodes
DentriesLeft(t) == Len(t.dentry) < MaxDentries

\* Whether vfs_allocate_data can serve n bytes, where it puts them, what it leaves
DataFits(t, n) == n <= RamSize - t.top
DataAt(t, n) == IF n = 0 THEN 0 ELSE t.top
vfs_allocate_data(t, n) == [t EXCEPT !.top = @ + n]

\* A dentry for an inode, first in its parent's list of children and in the cache
vfs_link_child(t, parent, d) ==
  vfs_cache_insert([t EXCEPT !.dentry[d].parent = parent,
                             !.dentry[parent].kids = <<d>> \o @], d)
vfs_create_dentry(t, parent, name, ino) ==
  vfs_link_child([t EXCEPT !.dentry = Append(@,
                    [parent |-> NULL, name |-> name, inode |-> ino, kids |-> <<>>])],
                 parent, Len(t.dentry) + 1)

-----------------------------------------------------------------------------
(* Directory entries. *)

vfs_find_dirent(t, ino, name) ==
  LET e == t.inode[ino].dirents
      at == {i \in DOMAIN e : e[i].name = name}
  IN  IF at = {} THEN NULL ELSE e[Min(at)].inode
vfs_dirent_add(t, dir, name, ino) ==
  [t EXCEPT !.inode[dir].dirents = Append(@, [name |-> name, inode |-> ino])]
vfs_dirent_remove(t, dir, name) ==
  [t EXCEPT !.inode[dir].dirents =
     RemoveAt(@, Min({i \in DOMAIN @ : @[i].name = name}))]

Inode(t, d) == t.inode[t.dentry[d].inode]
IsDir(t, d) == Inode(t, d).type = "dir"
\* The comparison mode == VFS_TYPE_DIR, which a directory with permission bits fails
ModeIsExactlyDir(n) == n.type = "dir" /\ n.perm = 0

-----------------------------------------------------------------------------
(* Lookups.  A walk is [t, at]: the tree so far and the dentry reached, or NULL.
   The operations below return one too: at is NULL when they fail. *)

Walk(t, d) == [t |-> t, at |-> d]
Failed(t) == Walk(t, NULL)

\* A dentry for the inode a directory entry names, unless no dentry is left
Enter(t, d, name, ino) ==
  IF ino = NULL \/ ~DentriesLeft(t) THEN Failed(t)
  ELSE Walk(vfs_create_dentry(t, d, name, ino), Len(t.dentry) + 1)
Down(t, d, name, cached) ==
  IF cached # NULL THEN Walk(t, cached)
  ELSE Enter(t, d, name, vfs_find_dirent(t, t.dentry[d].inode, name))
Up(t, d) == Walk(t, IF t.dentry[d].parent = NULL THEN d ELSE t.dentry[d].parent)

\* One component of vfs_lookup_internal
Step(w, name) ==
  IF w.at = NULL THEN w
  ELSE IF name = DotDot THEN Up(w.t, w.at)
  ELSE IF ~IsDir(w.t, w.at) THEN Failed(w.t)
  ELSE Down(w.t, w.at, name, vfs_cache_lookup(w.t, w.at, name))

vfs_lookup_internal(t, path) == FoldLeft(Step, Walk(t, Root), path)
vfs_lookup_parent_internal(t, path) == vfs_lookup_internal(t, Front(path))

\* The path of a dentry, by its chain of parents
vfs_build_path(t, d) ==
  LET up[k \in 0..MaxDentries] == IF k = 0 THEN d ELSE t.dentry[up[k - 1]].parent
      depth == Min({k \in 0..MaxDentries : up[k] = Root})
  IN  [k \in 1..depth |-> t.dentry[up[depth - k]].name]

-----------------------------------------------------------------------------
(* Creating. *)

AddInode(t, node) == [t EXCEPT !.inode = Append(@, node)]

\* The newest inode gets its directory entry and then its dentry
NameNew(t, d, name) ==
  Enter(vfs_dirent_add(t, t.dentry[d].inode, name, Len(t.inode)), d, name, Len(t.inode))

NewDirectory == [NewInode EXCEPT !.type = "dir"]

MakeDirectoryIn(w, name) ==
  LET old == vfs_find_dirent(w.t, w.t.dentry[w.at].inode, name) IN
  IF w.at = NULL \/ ~IsDir(w.t, w.at) THEN Failed(w.t)
  ELSE IF old # NULL
    THEN IF w.t.inode[old].type = "dir" THEN Walk(w.t, vfs_cache_lookup(w.t, w.at, name))
         ELSE Failed(w.t)
  ELSE IF ~InodesLeft(w.t) THEN Failed(w.t)
  ELSE NameNew(AddInode(w.t, NewDirectory), w.at, name)

vfs_make_directory_internal(t, path) ==
  IF path = <<>> THEN Walk(t, Root)
  ELSE MakeDirectoryIn(vfs_lookup_parent_internal(t, path), Last(path))

\* What a file, a link or a device is made of; a link keeps its target as data
FileNode(perm, n) == [type |-> "file", perm |-> perm, size |-> n, target |-> <<>>]
LinkNode(target) == [type |-> "link", perm |-> 7, size |-> Len(target) + 1, target |-> target]
DeviceNode(perm) == [type |-> "dev", perm |-> perm, size |-> 0, target |-> <<>>]

SetNode(t, ino, new, off) ==
  [t EXCEPT !.inode[ino] = [@ EXCEPT !.type = new.type, !.perm = new.perm,
                              !.size = new.size, !.target = new.target, !.off = off]]

\* The existing node keeps its data area when the new contents fit in it
FitsInPlace(old, new) == new.size > 0 /\ old.off # INVALID /\ new.size <= old.size

ReplaceNode(t, d, name, ino, new, force) ==
  IF ModeIsExactlyDir(t.inode[ino]) \/ ~force THEN Failed(t)
  ELSE IF new.type = "dev" \/ FitsInPlace(t.inode[ino], new)
    THEN Walk(SetNode(t, ino, new, t.inode[ino].off), vfs_cache_lookup(t, d, name))
  ELSE IF ~DataFits(t, new.size) THEN Failed(t)
  ELSE Walk(SetNode(vfs_allocate_data(t, new.size), ino, new, DataAt(t, new.size)),
            vfs_cache_lookup(t, d, name))

\* A new node; without room for its data the inode taken for it is lost
AddNode(t, d, name, new, ino) ==
  IF ~InodesLeft(t) THEN Failed(t)
  ELSE IF ~DataFits(t, new.size) THEN Failed(SetNode(AddInode(t, NewInode), ino, new, INVALID))
  ELSE NameNew(SetNode(AddInode(vfs_allocate_data(t, new.size), NewInode), ino, new,
                       IF new.size = 0 THEN INVALID ELSE t.top), d, name)

MakeNodeIn(w, name, new, force) ==
  LET old == vfs_find_dirent(w.t, w.t.dentry[w.at].inode, name) IN
  IF w.at = NULL \/ ~IsDir(w.t, w.at) THEN Failed(w.t)
  ELSE IF old # NULL THEN ReplaceNode(w.t, w.at, name, old, new, force)
  ELSE AddNode(w.t, w.at, name, new, Len(w.t.inode) + 1)

vfs_make_node_internal(t, path, new, force) ==
  MakeNodeIn(vfs_lookup_parent_internal(t, path), Last(path), new, force)

vfs_core_create_file(t, path, force) ==
  vfs_make_node_internal(t, path, FileNode(6, 0), force)
vfs_core_create_symlink(t, target, path, force) ==
  vfs_make_node_internal(t, path, LinkNode(target), force)

\* The node reached gets the device's mode and numbers, whatever it was
SetDevice(w, perm, dev) ==
  IF w.at = NULL THEN w
  ELSE [w EXCEPT !.t.inode[w.t.dentry[w.at].inode] =
          [@ EXCEPT !.type = "dev", !.perm = perm, !.dev = dev]]
vfs_core_create_device_ex(t, path, perm, dev) ==
  SetDevice(vfs_make_node_internal(t, path, DeviceNode(perm), TRUE), perm, dev)

SetPerm(w, perm) ==
  IF w.at = NULL THEN w ELSE [w EXCEPT !.t.inode[w.t.dentry[w.at].inode].perm = perm]
vfs_core_chmod(t, path, perm) == SetPerm(vfs_lookup_internal(t, path), perm)

-----------------------------------------------------------------------------
(* Removing and moving. *)

Parent(t, d) == t.dentry[d].parent
HasEntry(t, d) ==
  /\ d # Root /\ Parent(t, d) # NULL
  /\ vfs_find_dirent(t, t.dentry[Parent(t, d)].inode, t.dentry[d].name) # NULL
DropEntry(t, d) == vfs_dirent_remove(t, t.dentry[Parent(t, d)].inode, t.dentry[d].name)

\* A link count that would pass below zero wraps; it is never zero again
UnlinkAt(w) ==
  IF w.at = NULL \/ IsDir(w.t, w.at) \/ ~HasEntry(w.t, w.at) THEN Failed(w.t)
  ELSE Walk([DropEntry(w.t, w.at) EXCEPT !.inode[w.t.dentry[w.at].inode] =
               [@ EXCEPT !.links = @ - 1,
                         !.type = IF Inode(w.t, w.at).links = 1 THEN "none" ELSE @,
                         !.perm = IF Inode(w.t, w.at).links = 1 THEN 0 ELSE @]],
            w.at)
vfs_core_unlink(t, path) == UnlinkAt(vfs_lookup_internal(t, path))

RmdirAt(w) ==
  IF \/ w.at = NULL \/ ~ModeIsExactlyDir(Inode(w.t, w.at))
     \/ Inode(w.t, w.at).dirents # <<>> \/ ~HasEntry(w.t, w.at)
  THEN Failed(w.t)
  ELSE Walk([DropEntry(w.t, w.at) EXCEPT !.inode[w.t.dentry[w.at].inode].type = "none"], w.at)
vfs_core_rmdir(t, path) == RmdirAt(vfs_lookup_internal(t, path))

\* The dentry leaves its parent's list, takes the new name and enters the new list
Relink(t, d, p, name) ==
  vfs_link_child([t EXCEPT !.dentry[Parent(t, d)].kids = SelectSeq(@, LAMBDA k : k # d),
                           !.dentry[d].name = name], p, d)

\* A move that leaves the old entry behind
BugMoveKeepsEntry(w, d, p, name) ==
  IF w.at # NULL \/ ~HasEntry(w.t, d) THEN Failed(w.t)
  ELSE Walk(Relink(vfs_dirent_add(w.t, w.t.dentry[p].inode, name, w.t.dentry[d].inode),
                   d, p, name), d)

\* The third lookup of a move: the destination must not be there
MoveEntry(w, d, p, name) ==
  IF w.at # NULL \/ ~HasEntry(w.t, d) THEN Failed(w.t)
  ELSE Walk(Relink(vfs_dirent_add(DropEntry(w.t, d), w.t.dentry[p].inode, name,
                                  w.t.dentry[d].inode), d, p, name), d)
MoveInto(w, d, dest) ==
  IF w.at = NULL \/ ~ModeIsExactlyDir(Inode(w.t, w.at)) THEN Failed(w.t)
  ELSE MoveEntry(vfs_lookup_internal(w.t, dest), d, w.at, Last(dest))
MoveFrom(w, dest) ==
  IF w.at \in {NULL, Root} \/ Parent(w.t, w.at) = NULL THEN Failed(w.t)
  ELSE MoveInto(vfs_lookup_parent_internal(w.t, dest), w.at, dest)
vfs_core_move(t, src, dest) == MoveFrom(vfs_lookup_internal(t, src), dest)

\* vfs_remove_recursive_dentry: the children the dentry has when it starts, each by
\* its path, then the dentry itself; it stops at the first failure
RECURSIVE RemoveTree(_, _)
RemoveChildren(t, d) ==
  FoldLeft(LAMBDA w, k : IF w.at = NULL THEN w ELSE RemoveTree(w.t, k),
           Walk(t, d), t.dentry[d].kids)
RmdirAfter(w, d) == IF w.at = NULL THEN w ELSE vfs_core_rmdir(w.t, vfs_build_path(w.t, d))
RemoveTree(t, d) ==
  IF ModeIsExactlyDir(Inode(t, d)) THEN RmdirAfter(RemoveChildren(t, d), d)
  ELSE vfs_core_unlink(t, vfs_build_path(t, d))
RemoveFrom(w) == IF w.at \in {NULL, Root} THEN Failed(w.t) ELSE RemoveTree(w.t, w.at)
vfs_remove_recursive(t, path) == RemoveFrom(vfs_lookup_internal(t, path))

-----------------------------------------------------------------------------
(* Boot: vfs_core_init over an initial RAM disk whose entries are directories
   and files, whose parents are made on the way. *)

BootDirectory(w, perm) ==
  IF w.at = NULL THEN w.t ELSE SetPerm(w, perm).t
BootFile(t, e) ==
  vfs_make_node_internal(vfs_make_directory_internal(t, Front(e.path)).t, e.path,
                         FileNode(e.perm, e.size), TRUE).t
BootEntry(t, e) ==
  IF e.dir THEN BootDirectory(vfs_make_directory_internal(t, e.path), e.perm)
  ELSE BootFile(t, e)

EmptyTree ==
  vfs_cache_insert(
    [inode |-> <<[NewDirectory EXCEPT !.perm = 7]>>,
     dentry |-> <<[parent |-> Root, name |-> NoName, inode |-> 1, kids |-> <<>>]>>,
     cache |-> [k \in 0..(CacheSize - 1) |-> NULL], top |-> 0], Root)

vfs_core_init ==
  vfs_make_directory_internal(FoldLeft(BootEntry, EmptyTree, Initrd), <<TmpName>>).t

-----------------------------------------------------------------------------
(* Open handles. *)

NoHandle == [ino |-> NULL, pos |-> 0, ref |-> 0, acc |-> "r"]
FreeHandles == {h \in DOMAIN files : files[h].ref = 0}

\* Links are followed; here at most MaxFollow of them, in the code without a bound
RECURSIVE FollowFrom(_, _)
Follow(t, path, n) == FollowFrom(vfs_lookup_internal(t, path), n)
FollowFrom(w, n) ==
  IF w.at = NULL \/ Inode(w.t, w.at).type # "link" THEN w
  ELSE IF n = 0 \/ Inode(w.t, w.at).off = INVALID THEN Failed(w.t)
  ELSE Follow(w.t, Inode(w.t, w.at).target, n - 1)

\* A handle on the node a path leads to; a device may refuse
CanOpen(w) ==
  /\ w.at # NULL
  /\ \/ Inode(w.t, w.at).type = "file"
     \/ Inode(w.t, w.at).type = "dev" /\ Inode(w.t, w.at).dev \in Registered
OpenHandle(ino, acc) == [ino |-> ino, pos |-> 0, ref |-> 1, acc |-> acc]

Type(h) == IF files[h].ino = NULL THEN "none" ELSE fs.inode[files[h].ino].type
CanWrite(h) == files[h].ref > 0 /\ files[h].acc # "r" /\ Type(h) = "file"
CanRead(h) == files[h].ref > 0 /\ files[h].acc # "w" /\ Type(h) = "file"

\* vfs_core_write of n bytes: the contents are replaced, in a new area when longer
WriteNode(t, ino, n) ==
  LET old == t.inode[ino]
      grow == old.off = INVALID \/ n > old.size
  IN  IF ~grow THEN [t EXCEPT !.inode[ino].size = n]
      ELSE IF n = 0 THEN [t EXCEPT !.inode[ino] = [@ EXCEPT !.off = INVALID, !.size = 0]]
      ELSE [vfs_allocate_data(t, n) EXCEPT !.inode[ino] = [@ EXCEPT !.off = t.top, !.size = n]]
WriteFits(t, ino, n) ==
  (t.inode[ino].off # INVALID /\ n <= t.inode[ino].size) \/ DataFits(t, n)

\* What vfs_core_read returns for n bytes
ReadCount(h, n) ==
  LET size == fs.inode[files[h].ino].size IN
  IF files[h].pos >= size THEN 0 ELSE IF files[h].pos + n > size THEN size - files[h].pos ELSE n

CloseHandle(f) == IF f.ref = 1 THEN NoHandle ELSE [f EXCEPT !.ref = @ - 1]
=============================================================================
