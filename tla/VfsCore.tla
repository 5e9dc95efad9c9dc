------------------------------ MODULE VfsCore ------------------------------
(***************************************************************************)
(* The VFS core of src/src/core/vfs_core.c at the level of its API: mounts *)
(* with their dentry trees, inodes, file handles, and the POSIX backends   *)
(* that calls are dispatched to.  A step is one call, run to its end (the  *)
(* interleaving inside the calls on the handle table is FileHandles); a    *)
(* call that fails without an effect is a stuttering step, and what calls  *)
(* return is kept in the operators that decide it.                         *)
(*                                                                         *)
(* A dentry of a tree is named by its mount and the names down to it, and  *)
(* carries its inode: vfs_inode_create, vfs_dentry_create and              *)
(* vfs_inode_release are always called together and leave one inode with   *)
(* one reference, its dentry's.  A host directory tree under a backend's   *)
(* root is reduced to the regular files directly in it.                    *)
(***************************************************************************)
EXTENDS VfsPaths, FiniteSets

CONSTANTS
  Paths,        \* the paths callers pass
  Mountpoints,  \* the mountpoints callers pass; backend_root is one directory for each
  MaxFH,        \* VFS_MAX_FH
  MaxMounts,    \* bound: mounts at one time
  MaxOrphans,   \* bound: dentries without a parent at one time
  MaxOpened,    \* bound: files a backend has opened since it was mounted
  MaxSize,      \* bound: a write ends at an offset of 1..MaxSize
  Tidy          \* TRUE: callers close their files before they unmount or shut down

ASSUME BoundsAssumption ==
  {MaxFH, MaxMounts, MaxOrphans, MaxOpened, MaxSize} \subseteq Nat /\ Tidy \in BOOLEAN

\* Callers are taken to pass absolute paths and mountpoints: there is a segment behind the
\* slash. vfs_resolve_path refuses any other path; vfs_open with O_CREAT, vfs_stat and
\* vfs_readdir below a root mount's backend, and vfs_mount_create, do not look.
ASSUME PathsAssumption ==
  \A p \in Paths \cup Mountpoints : p \in Seq(STRING) /\ p # <<>>

Slots == 1..MaxFH
Ids == 1..(MaxMounts + MaxFH)  \* of mounts: no new one needs an id that a handle still has
Lowest(S) == CHOOSE s \in S : \A r \in S : s <= r
With(f, x, value) == [y \in DOMAIN f \cup {x} |-> IF y = x THEN value ELSE f[y]]
OrphanIds == 1..MaxOrphans
Flags == {"none", "creat", "excl"}  \* without O_CREAT, with it, and with O_EXCL too

VARIABLES
  inited,      \* g_vfs_inited
  registered,  \* the posix backend is in g_backend_registry
  mounts,      \* mount_table_head and its next pointers, newest first
  orphans,     \* live dentries that no tree holds: id -> inode, and mount it was opened in
  fhs,         \* g_fh_table: slots in use -> the dentry they name
  disk,        \* the regular files below the backends' roots: <<mountpoint, name>>
  lost,        \* history: orphans that an open dropped when it returned -EMFILE
  ub           \* history: a call has read a dentry after it was freed

vars == <<inited, registered, mounts, orphans, fhs, disk, lost, ub>>

None == <<>>

\* inode: mode, size and backend_handle (0: NULL); file records what the handle opened.
Dir == [kind |-> "dir", size |-> 0, bh |-> 0, file |-> None]
Reg(bh, file) == [kind |-> "reg", size |-> 0, bh |-> bh, file |-> file]

Init ==
  /\ inited = FALSE /\ registered = FALSE
  /\ mounts = <<>> /\ orphans = <<>> /\ fhs = <<>>
  /\ disk = {} /\ lost = {} /\ ub = FALSE

----------------------------------------------------------------------------
\* Mounts.

Mps == [i \in DOMAIN mounts |-> mounts[i].mp]
Best(path) == FindBestMount(path, Mps)
Live(id) == \E i \in DOMAIN mounts : mounts[i].id = id

\* The slots that name a dentry of mount id's tree, or a file opened through it.
UsersOf(id) == {s \in DOMAIN fhs : IF fhs[s][1] = "tree" THEN fhs[s][2] = id
                                   ELSE orphans[fhs[s][2]].mount = id}

FreeId == Lowest({id \in Ids : ~Live(id) /\ UsersOf(id) = {}})

\* vfs_mount_create: a mount at the head of the list, with a root dentry.
NewMount(mp, posix, tree) ==
  <<[id |-> FreeId, mp |-> mp, posix |-> posix, opened |-> <<>>, tree |-> tree]>> \o mounts

EmptyTree == [q \in {<<>>} |-> Dir]

\* What vfs_init puts below the root mount.
SampleDirs == {<<>>, <<"dir1">>, <<"dir1", "dir2">>, <<"dir1", "dir3">>}
SampleFiles == {<<"dir1", "dir2", "file">>, <<"dir1", "dir3", "file2">>}
SampleTree ==
  [q \in SampleDirs \cup SampleFiles |-> IF q \in SampleFiles THEN Reg(0, None) ELSE Dir]

VfsInit ==
  /\ ~inited /\ Len(mounts) < MaxMounts
  /\ inited' = TRUE /\ registered' = TRUE
  /\ mounts' = NewMount(Root, FALSE, SampleTree)
  /\ UNCHANGED <<orphans, fhs, disk, lost, ub>>

\* vfs_mount_create without a backend, and vfs_mount_backend, which finds the backend
\* in the registry first. (A mount whose backend cannot be initialised is destroyed
\* again.)
Mount(mp, posix) ==
  /\ Len(mounts) < MaxMounts
  /\ posix => registered
  /\ mounts' = NewMount(mp, posix, EmptyTree)
  /\ UNCHANGED <<inited, registered, orphans, fhs, disk, lost, ub>>

\* vfs_mount_destroy: mount i leaves the list, with the files its backend has open and
\* its whole tree.
MountDestroy(i) == mounts' = RemoveAt(mounts, i)

\* Mutant: the list ends where the mount was cut out.
UnmountTruncates(mp) ==
  LET i == SelectInSeq(Mps, LAMBDA m : m = mp)
  IN  /\ i # 0
      /\ Tidy => UsersOf(mounts[i].id) = {}
      /\ mounts' = SubSeq(mounts, 1, i - 1)
      /\ UNCHANGED <<inited, registered, orphans, fhs, disk, lost, ub>>

\* vfs_unmount_backend: the first mount in the list with this mountpoint goes.
Unmount(mp) ==
  LET i == SelectInSeq(Mps, LAMBDA m : m = mp)
  IN  /\ i # 0
      /\ Tidy => UsersOf(mounts[i].id) = {}
      /\ MountDestroy(i)
      /\ UNCHANGED <<inited, registered, orphans, fhs, disk, lost, ub>>

\* vfs_shutdown, and vfs_destroy, which calls it: every mount goes, then each handle in
\* use releases its dentry: an orphan is freed, a dentry of a tree has been freed
\* already when its parent is read.
Shutdown ==
  /\ inited
  /\ Tidy => DOMAIN fhs = {}
  /\ inited' = FALSE
  /\ mounts' = <<>>
  /\ ub' = (ub \/ \E s \in DOMAIN fhs : fhs[s][1] = "tree")
  /\ orphans' = Restrict(orphans, lost)
  /\ fhs' = <<>>
  /\ UNCHANGED <<registered, disk, lost>>

----------------------------------------------------------------------------
\* vfs_resolve_path: every name that is missing on the way is added as a directory,
\* below whatever was found so far.

NormOf == [path \in Paths |-> NormalizePath(path)]
WalkMount(path) == Best(NormOf[path])
Walk(path) == WalkNames(NormOf[path], Mps[WalkMount(path)])

\* Mutant: a name that is found is made a directory as well.
GrownAnew(tree, names) ==
  [q \in DOMAIN tree \cup Prefixes(names) |-> IF q \in Prefixes(names) THEN Dir ELSE tree[q]]

Grown(tree, names) ==
  [q \in DOMAIN tree \cup Prefixes(names) |-> IF q \in DOMAIN tree THEN tree[q] ELSE Dir]

Resolved(path) == [mounts EXCEPT ![WalkMount(path)].tree = Grown(@, Walk(path))]
Target(path) == Resolved(path)[WalkMount(path)].tree[Walk(path)]

\* -EIO, -ENOENT without a mount, or success: there is no name it does not find.
ResolveError(path) ==
  IF ~inited THEN "EIO" ELSE IF WalkMount(path) = 0 THEN "ENOENT" ELSE "OK"

\* The calls that change nothing but what the resolution adds: vfs_lookup,
\* vfs_permission_check, and vfs_mkdir, which finds its directory already there.
Resolve(path) ==
  /\ ResolveError(path) = "OK"
  /\ mounts' = Resolved(path)
  /\ UNCHANGED <<inited, registered, orphans, fhs, disk, lost, ub>>

----------------------------------------------------------------------------
\* Backends: the POSIX backend of the mount found for the path as it was given.

HasBackend(path) == Best(path) # 0 /\ mounts[Best(path)].posix
Rel(path) == GetRelpath(path, Mps[Best(path)])

\* The relative path names a file directly below the root, with no more than slashes and
\* "." before it; or it has no names, and stands for a directory. (Below ".." or another
\* name the host is taken to have nothing.)
NamesFile(path) ==
  LET rel == Rel(path)
  IN  /\ ~IsAbsolute(rel) /\ rel[Len(rel)] \notin Special
      /\ \A i \in 1..(Len(rel) - 1) : rel[i] \in {Empty, Dot}

HostFile(path) == <<Mps[Best(path)], path[Len(path)]>>
IsHostFile(path) == NamesFile(path) /\ HostFile(path) \in disk
IsHostDir(path) == ~IsAbsolute(Rel(path)) /\ \A i \in DOMAIN Rel(path) : Rel(path)[i] \in Special

\* posix_open, for a file directly below the backend's root.
BackendOpenError(path, flags) ==
  IF IsAbsolute(Rel(path)) THEN "EINVAL"
  ELSE IF IsHostDir(path) THEN "EISDIR"
  ELSE IF flags = "excl" /\ IsHostFile(path) THEN "EEXIST"
  ELSE IF IsHostFile(path) \/ (flags # "none" /\ NamesFile(path)) THEN "OK"
  ELSE "ENOENT"

\* create_handle: no handle is given back before the backend shuts down (no call of the
\* core closes one), so the next handle is the next number.
NextHandle(i) == Len(mounts[i].opened) + 1
Opened(ms, i, file) == [ms EXCEPT ![i].opened = Append(@, file)]

\* vfs_stat and vfs_readdir ask the backend first, and resolve the path, with what that
\* adds, when the backend answers with an error.
Stat(path) == ~(HasBackend(path) /\ (IsHostDir(path) \/ IsHostFile(path))) /\ Resolve(path)
Readdir(path) == ~(HasBackend(path) /\ IsHostDir(path)) /\ Resolve(path)

----------------------------------------------------------------------------
\* vfs_open.

FreeSlots == Slots \ DOMAIN fhs

\* fh_alloc: the first free slot is given to the dentry, or -EMFILE is returned.
FhAlloc(node) ==
  fhs' = IF FreeSlots = {} THEN fhs ELSE With(fhs, Lowest(FreeSlots), node)

NewOrphan == Lowest(OrphanIds \ DOMAIN orphans)

\* Mutant: the dentry is made before the backend has answered.
OpenCreatEarly(path, flags) ==
  LET i == Best(path)
      err == BackendOpenError(path, flags)
  IN  /\ inited /\ flags # "none" /\ HasBackend(path)
      /\ OrphanIds \ DOMAIN orphans # {}
      /\ Len(mounts[i].opened) < MaxOpened
      /\ orphans' = With(orphans, NewOrphan, [inode |-> Reg(NextHandle(i), HostFile(path)),
                                              mount |-> mounts[i].id])
      /\ \/ err # "OK" /\ UNCHANGED <<mounts, fhs, disk, lost>>
         \/ /\ err = "OK"
            /\ disk' = disk \cup {HostFile(path)}
            /\ mounts' = Opened(mounts, i, HostFile(path))
            /\ lost' = IF FreeSlots = {} THEN lost \cup {NewOrphan} ELSE lost
            /\ FhAlloc(<<"orphan", NewOrphan>>)

\* With O_CREAT under a backend: the backend opens the file, and a new dentry without
\* a parent stands for it. It is lost, and the backend's handle with it, if there is no
\* slot for it.
OpenCreat(path, flags) ==
  LET i == Best(path)
  IN  /\ inited /\ flags # "none" /\ HasBackend(path)
      /\ BackendOpenError(path, flags) = "OK"
      /\ OrphanIds \ DOMAIN orphans # {}
      /\ Len(mounts[i].opened) < MaxOpened
      /\ disk' = disk \cup {HostFile(path)}
      /\ orphans' = With(orphans, NewOrphan, [inode |-> Reg(NextHandle(i), HostFile(path)),
                                              mount |-> mounts[i].id])
      /\ mounts' = Opened(mounts, i, HostFile(path))
      /\ lost' = IF FreeSlots = {} THEN lost \cup {NewOrphan} ELSE lost
      /\ FhAlloc(<<"orphan", NewOrphan>>)

\* Otherwise the path is resolved; a directory is refused, and a file in a tree is
\* opened in the backend, if the mount has one, the first time.
NeedsBackend(path) == HasBackend(path) /\ Target(path).bh = 0

TreeOpenError(path) ==
  IF Target(path).kind = "dir" THEN "EISDIR"
  ELSE IF NeedsBackend(path) THEN BackendOpenError(path, "none")
  ELSE "OK"

OpenTree(path, flags) ==
  /\ ResolveError(path) = "OK" /\ ~(flags # "none" /\ HasBackend(path))
  /\ \/ /\ TreeOpenError(path) # "OK"
        /\ mounts' = Resolved(path)
        /\ UNCHANGED fhs
     \/ /\ TreeOpenError(path) = "OK"
        /\ NeedsBackend(path) => Len(mounts[Best(path)].opened) < MaxOpened
        /\ mounts' =
             IF ~NeedsBackend(path) THEN Resolved(path)
             ELSE [Opened(Resolved(path), Best(path), HostFile(path)) EXCEPT
                    ![WalkMount(path)].tree[Walk(path)].bh = NextHandle(Best(path)),
                    ![WalkMount(path)].tree[Walk(path)].file = HostFile(path)]
        /\ FhAlloc(<<"tree", mounts[WalkMount(path)].id, Walk(path)>>)
  /\ UNCHANGED <<orphans, disk, lost>>

\* vfs_create and vfs_mknod open with O_CREAT and O_EXCL.
Open(path, flags) ==
  /\ OpenCreat(path, flags) \/ OpenTree(path, flags)
  /\ UNCHANGED <<inited, registered, ub>>

----------------------------------------------------------------------------
\* Calls on a handle.

\* The handle names a dentry that an unmount has freed: what a call that reads it does
\* is not defined, and nothing is said of the state after it.
Dangling(s) == fhs[s][1] = "tree" /\ ~Live(fhs[s][2])

ReadsFreed(s) ==
  /\ s \in DOMAIN fhs /\ Dangling(s)
  /\ ub' = TRUE
  /\ UNCHANGED <<inited, registered, mounts, orphans, fhs, disk, lost>>

\* Mutants: the orphan is not freed; a dentry is freed though its tree still holds it.
CloseForgets(s) ==
  /\ s \in DOMAIN fhs /\ ~Dangling(s)
  /\ fhs' = Restrict(fhs, DOMAIN fhs \ {s})
  /\ UNCHANGED <<inited, registered, mounts, orphans, disk, lost, ub>>

CloseFreesAny(s) ==
  /\ s \in DOMAIN fhs /\ ~Dangling(s)
  /\ fhs' = Restrict(fhs, DOMAIN fhs \ {s})
  /\ orphans' = Restrict(orphans, DOMAIN orphans \ {o \in OrphanIds : fhs[s] = <<"orphan", o>>})
  /\ mounts' = [i \in DOMAIN mounts |->
       [mounts[i] EXCEPT !.tree =
          Restrict(@, DOMAIN @ \ {q \in DOMAIN @ : fhs[s] = <<"tree", mounts[i].id, q>>})]]
  /\ UNCHANGED <<inited, registered, disk, lost, ub>>

\* vfs_close and fh_free: the slot is freed and its dentry released, which frees an
\* orphan and leaves a tree's dentry alone. The backend's handle stays open.
Close(s) ==
  /\ s \in DOMAIN fhs /\ ~Dangling(s)
  /\ fhs' = Restrict(fhs, DOMAIN fhs \ {s})
  /\ orphans' = Restrict(orphans, DOMAIN orphans \ {o \in OrphanIds : fhs[s] = <<"orphan", o>>})
  /\ UNCHANGED <<inited, registered, mounts, disk, lost, ub>>

IndexOf(id) == CHOOSE i \in DOMAIN mounts : mounts[i].id = id
Inode(s) == IF fhs[s][1] = "tree" THEN mounts[IndexOf(fhs[s][2])].tree[fhs[s][3]]
            ELSE orphans[fhs[s][2]].inode

\* Mutant: the first mount is taken, with a backend or without.
DispatchedFirst == SelectInSeq(mounts, LAMBDA m : m.id \in Ids)

\* An inode with a backend handle is read and written through the first mount in the
\* list whose backend can, whichever backend gave the handle out; there the number
\* stands for what that backend opened under it. Without such a mount the call falls
\* back to the inode's size and to no content.
Dispatched == SelectInSeq(mounts, LAMBDA m : m.posix)

Reached(s) ==
  IF Dispatched = 0 \/ Inode(s).bh \notin DOMAIN mounts[Dispatched].opened THEN None
  ELSE mounts[Dispatched].opened[Inode(s).bh]

\* Mutant: the size grows by the end of the write.
GrowBy(size, end) == size + end

\* The size of the inode grows to the end of the write.
Grow(size, end) == IF end > size THEN end ELSE size

\* vfs_write, unless the backend has no such handle and fails; vfs_read changes nothing.
Write(s, end) ==
  /\ s \in DOMAIN fhs /\ ~Dangling(s)
  /\ Inode(s).bh = 0 \/ Dispatched = 0 \/ Reached(s) # None
  /\ \/ /\ fhs[s][1] = "tree"
        /\ mounts' = [mounts EXCEPT ![IndexOf(fhs[s][2])].tree[fhs[s][3]].size = Grow(@, end)]
        /\ UNCHANGED orphans
     \/ /\ fhs[s][1] = "orphan"
        /\ orphans' = [orphans EXCEPT ![fhs[s][2]].inode.size = Grow(@, end)]
        /\ UNCHANGED mounts
  /\ UNCHANGED <<inited, registered, fhs, disk, lost, ub>>

----------------------------------------------------------------------------

Next ==
  /\ ~ub
  /\ \/ VfsInit
     \/ Shutdown
     \/ \E mp \in Mountpoints, posix \in BOOLEAN : Mount(mp, posix)
     \/ \E mp \in Mountpoints : Unmount(mp)
     \/ \E path \in Paths : Resolve(path) \/ Stat(path) \/ Readdir(path)
     \/ \E path \in Paths, flags \in Flags : Open(path, flags)
     \/ \E s \in Slots : Close(s) \/ ReadsFreed(s)
     \/ \E s \in Slots, end \in 1..MaxSize : Write(s, end)

Spec == Init /\ [][Next]_vars

----------------------------------------------------------------------------
\* Properties.

Files == Mountpoints \X {path[Len(path)] : path \in Paths}
Inodes == [kind : {"dir", "reg"}, size : 0..MaxSize, bh : 0..MaxOpened, file : {None} \cup Files]

\* The type invariant: the shape of mounts, dentries, handles and backends' files.
TypeOK ==
  /\ inited \in BOOLEAN /\ registered \in BOOLEAN /\ ub \in BOOLEAN
  /\ Len(mounts) <= MaxMounts
  /\ \A i \in DOMAIN mounts :
       /\ mounts[i].id \in Ids /\ mounts[i].posix \in BOOLEAN
       /\ mounts[i].mp \in Mountpoints \cup {Root}
       /\ Len(mounts[i].opened) <= MaxOpened
       /\ \A q \in DOMAIN mounts[i].tree : mounts[i].tree[q] \in Inodes
  /\ DOMAIN orphans \subseteq OrphanIds
  /\ \A o \in DOMAIN orphans : orphans[o].inode \in Inodes /\ orphans[o].mount \in Ids
  /\ DOMAIN fhs \subseteq Slots
  /\ lost \subseteq DOMAIN orphans

\* Every handle in use names a regular file whose dentry is still there, or was freed by
\* an unmount or shutdown under it (Dangling) and is about to be read: closing one of
\* several handles of a tree's file, or a handle of an orphan, frees nothing that others
\* use, and no open hands out a dentry that has gone.
HandlesLive ==
  \A s \in DOMAIN fhs :
    IF fhs[s][1] = "orphan" THEN fhs[s][2] \in DOMAIN orphans
    ELSE Dangling(s) \/ \E i \in DOMAIN mounts :
           /\ mounts[i].id = fhs[s][2]
           /\ fhs[s][3] \in DOMAIN mounts[i].tree
           /\ mounts[i].tree[fhs[s][3]].kind = "reg"

\* Every dentry without a parent is kept by exactly one handle, which will free it, or
\* was dropped by an open that found the table full.
OrphansOwned ==
  \A o \in DOMAIN orphans :
    Cardinality({s \in DOMAIN fhs : fhs[s] = <<"orphan", o>>}) = IF o \in lost THEN 0 ELSE 1

\* A read or write of a file that was opened in a backend reaches that file, although
\* neither the handle nor its dentry keeps a reference to the mount.
IoReachesItsFile ==
  \A s \in DOMAIN fhs : ~Dangling(s) /\ Inode(s).bh # 0 => Reached(s) = Inode(s).file

\* The same of callers who close their files before they unmount (Tidy), whenever one
\* backend is mounted: vfs_read and vfs_write take the first mount with a backend, and
\* mounts without one before it, or backends that have come and gone beside it, do not
\* lead them astray. A handle that outlives its mount is not among them: its number is
\* looked up in the table of whatever backend is mounted next.
IoOfOnlyBackend ==
  Cardinality({i \in DOMAIN mounts : mounts[i].posix}) = 1 => IoReachesItsFile

\* A call that gives the caller no handle allocates nothing that only a handle would free:
\* no dentry without a parent, no file of a backend's directory, no backend handle.
OpenedOf(ms, id) == {ms[i].opened : i \in {j \in DOMAIN ms : ms[j].id = id}}
NothingLeft ==
  /\ DOMAIN orphans' \subseteq DOMAIN orphans /\ disk' \subseteq disk
  /\ \A id \in Ids : OpenedOf(mounts', id) \in {OpenedOf(mounts, id), {<<>>}, {}}

\* The exception: the table is full, and the open leaves the one backend handle it has
\* opened, to a tree's dentry or to a new one that is dropped at once.
Abandoned ==
  /\ FreeSlots = {}
  /\ \E i \in DOMAIN mounts, file \in Files :
       /\ \A id \in Ids : OpenedOf(mounts', id) =
            IF id = mounts[i].id THEN {Append(mounts[i].opened, file)} ELSE OpenedOf(mounts, id)
       /\ disk' \subseteq disk \cup {file}
       /\ DOMAIN orphans' \ DOMAIN orphans = lost' \ lost
       /\ \A o, p \in lost' \ lost :
            o = p /\ orphans'[o].inode = Reg(Len(mounts[i].opened) + 1, file)

\* What a call leaves in the trees that stay, whether it fails or not: directories on the
\* way of the path it resolved, and no file.
OnlyDirsAdded ==
  \A i \in DOMAIN mounts, j \in DOMAIN mounts' :
    mounts[i].id = mounts'[j].id =>
      \A q \in DOMAIN mounts'[j].tree \ DOMAIN mounts[i].tree : mounts'[j].tree[q].kind = "dir"

\* What a call without a new handle leaves behind: directories in a tree, and beyond them
\* nothing, unless vfs_open finds the table full only after the backend has opened the
\* file; then it is one backend handle and at most one dentry, and nothing else changes.
NothingWithoutHandle ==
  [][ OnlyDirsAdded /\ (DOMAIN fhs' \subseteq DOMAIN fhs => NothingLeft \/ Abandoned) ]_vars

\* A mount or an unmount changes which mount serves a path only at and below its
\* mountpoint, and nothing but they, init and shutdown changes it anywhere.
BestId(path) == IF Best(path) = 0 THEN 0 ELSE mounts[Best(path)].id
CountAt(mp) == Cardinality({i \in DOMAIN mounts : mounts[i].mp = mp})
Layout == [i \in DOMAIN mounts |-> <<mounts[i].id, mounts[i].mp>>]
MountLocality ==
  [][ Layout' # Layout =>
        LET changed == {mp \in Mountpoints \cup {Root} : CountAt(mp)' # CountAt(mp)}
        IN  \A path \in Paths :
              BestId(path)' # BestId(path) =>
                \/ inited' # inited
                \/ \E mp \in Mountpoints : changed = {mp} /\ (mp = Root \/ IsPrefix(mp, path))
    ]_vars

\* As long as its mount stays, a dentry stays and keeps its type, whatever paths later
\* calls resolve through it: a walk only adds what is missing.
TreesOnlyGrow ==
  [][ \A i \in DOMAIN mounts, j \in DOMAIN mounts' :
        mounts[i].id = mounts'[j].id =>
          \A q \in DOMAIN mounts[i].tree :
            /\ q \in DOMAIN mounts'[j].tree
            /\ mounts'[j].tree[q].kind = mounts[i].tree[q].kind
    ]_vars

\* No call reads a dentry that was freed, even when files are open as vfs_shutdown is
\* called, which cleans the handle table up.
NoFreedRead == ~ub

\* A file that exists in the backend's directory is not taken for a directory when it
\* is opened without O_CREAT.
ExistingFileOpens ==
  \A path \in Paths :
    ResolveError(path) = "OK" /\ HasBackend(path) /\ IsHostFile(path) => TreeOpenError(path) # "EISDIR"
----------------------------------------------------------------------------
\* The inductive invariant behind OrphansOwned.

\* Each orphan that is not lost has one handle, and each handle of an orphan names one.
KeepersInv ==
  /\ DOMAIN orphans \subseteq OrphanIds /\ DOMAIN fhs \subseteq Slots /\ lost \subseteq DOMAIN orphans
  /\ \A s \in DOMAIN fhs :
       \/ fhs[s][1] = "tree"
       \/ fhs[s] = <<"orphan", fhs[s][2]>> /\ fhs[s][2] \in DOMAIN orphans \ lost
  /\ \A s, r \in DOMAIN fhs : fhs[s] = fhs[r] /\ fhs[s][1] = "orphan" => s = r
  /\ \A o \in DOMAIN orphans \ lost : \E s \in DOMAIN fhs : fhs[s] = <<"orphan", o>>

\* The one behind HandlesLive and TreesOnlyGrow: mounts, trees and inodes are what their
\* names say, and no two mounts have one id.
IsInode(n) == n = [f \in {"kind", "size", "bh", "file"} |-> n[f]] /\ n.kind \in {"dir", "reg"}
IsTree(tree) == tree = [q \in DOMAIN tree |-> tree[q]] /\ \A q \in DOMAIN tree : IsInode(tree[q])
IsMount(m) ==
  /\ m = [f \in {"id", "mp", "posix", "opened", "tree"} |-> m[f]]
  /\ m.id \in Ids /\ m.mp \in Mountpoints \cup {Root} /\ IsTree(m.tree)

MountsInv ==
  /\ mounts \in Seq({mounts[i] : i \in DOMAIN mounts})
  /\ Len(mounts) <= MaxMounts
  /\ \A i \in DOMAIN mounts : IsMount(mounts[i])
  /\ \A i, j \in DOMAIN mounts : mounts[i].id = mounts[j].id => i = j

\* A handle of a tree's file names a file of that tree, if the mount is still there.
FilesInv ==
  \A s \in DOMAIN fhs, i \in DOMAIN mounts :
    fhs[s][1] = "tree" /\ fhs[s][2] = mounts[i].id =>
      fhs[s][3] \in DOMAIN mounts[i].tree /\ mounts[i].tree[fhs[s][3]].kind = "reg"

\* The one behind TypeOK: only a caller's mount has a backend, and a backend opens no more
\* files than it may, each directly below a mountpoint's directory.
IsShaped(m) ==
  /\ m.posix \in BOOLEAN /\ (m.posix => m.mp \in Mountpoints)
  /\ m.opened \in Seq(Files) /\ Len(m.opened) <= MaxOpened
  /\ \A q \in DOMAIN m.tree : m.tree[q] \in Inodes

ShapeInv ==
  /\ \A i \in DOMAIN mounts : IsShaped(mounts[i])
  /\ \A o \in DOMAIN orphans : orphans[o] \in [inode : Inodes, mount : Ids]
  /\ {inited, registered, ub} \subseteq BOOLEAN

\* The one behind IoOfOnlyBackend, if callers close their files in time and mount at "/" or
\* at names: the only files in trees are those that vfs_init puts there, and a file opened
\* with O_CREAT is open in its mount's backend under its inode's number.
BackendFilesInv ==
  /\ \A i \in DOMAIN mounts : \A q \in DOMAIN mounts[i].tree :
       /\ mounts[i].tree[q].bh = 0
       /\ mounts[i].tree[q].kind = "reg" => mounts[i].mp = Root /\ ~mounts[i].posix
  /\ \A o \in DOMAIN orphans \ lost : \E i \in DOMAIN mounts :
       /\ mounts[i].id = orphans[o].mount /\ mounts[i].posix
       /\ orphans[o].inode.bh \in DOMAIN mounts[i].opened
       /\ mounts[i].opened[orphans[o].inode.bh] = orphans[o].inode.file
=============================================================================
