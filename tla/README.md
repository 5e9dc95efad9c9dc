# CVFS in TLA+

This directory is a verification project for CVFS, the virtual file system of this
repository: TLA+ modules of its core, TLC configurations that check them on small
instances, and proofs for every size of instance that the TLA+ proof system checks.
Paths such as `core/vfs_core.c` are below `src/src/`.

## The system

The Makefile builds `core/vfs_core.c`, `fuse/vfs_fuse.c`, `backends/backend_posix.c` and
`tools/vfsctl.c`. There is one process; FUSE, or a test, calls the core's functions from
several threads, and the core calls a backend through a table of functions.

| component | state | operations |
|---|---|---|
| file handle table (`vfs_core.c:86-156`) | 1024 slots: `in_use`, `dentry`, a lock each | `fh_alloc`, `fh_get`, `fh_free` |
| mount table (`vfs_core.c:396-510`) | list `mount_table_head`, newest first, under `g_vfs_lock`; per mount a root dentry and a backend's `ops` and `data` | `vfs_mount_create`, `vfs_mount_destroy`, `vfs_mount_backend`, `vfs_unmount_backend`, `find_best_mount` |
| dentry trees and inodes (`vfs_core.c:246-390`) | children lists under the parent's lock; an inode's `refcount`, `size`, `backend_handle` | create, acquire, release, add and remove child, destroy |
| paths (`vfs_core.c:162-240, 487-591`) | none | `normalize_path_alloc`, `get_relpath_for_mount`, `vfs_resolve_path` (adds what it misses) |
| public calls (`vfs_core.c:643-1164`) | `g_vfs_inited` | init, shutdown, open, close, read, write, stat, readdir, lookup, mkdir, create, mknod |
| registry (`vfs_core.c:31-81`) | 8 entries under `g_backend_lock` | register, find |
| POSIX backend (`backend_posix.c`) | 32 backends; per backend a growing table handle -> descriptor under its lock | init, shutdown, open, close, read, write, stat, readdir, and four more no one calls through the table |
| FUSE glue (`vfs_fuse.c`) | none | one callback per operation |
| permission check (`vfs_core.c:597-639`) | none | `check_inode_perm` |
| block cache, clock (`cache/`, `utils/`) | hash table of blocks, logical time | lookup, insert, evict; not built |
| block files (`core/file.c`, `core/inode.c`) | an inode per open file | open, read, write; not built |

How they meet: `vfs_open` chooses a mount by the path as given; with `O_CREAT` under a
backend it opens the file there and makes a dentry without a parent, an *orphan*, that
only the handle keeps alive; otherwise it walks the mount's tree. A handle names a
dentry, the dentry an inode, the inode a backend's handle number, and nothing names the
mount. `vfs_read` and `vfs_write` look a mount up again. `vfs_unmount_backend` and
`vfs_shutdown` free the trees.

What is hard, and what makes it right:

- *Handle table*: fields are read without the lock that guards their stores. A handle
  must name its own dentry until it is closed; an orphan is freed once, by its last
  keeper; no slot and no orphan is lost; nobody waits for ever.
- *Paths and mounts*: two mount choices and two ways to cut the path must agree; the
  deepest and newest mount must win; a walk must end at the path that was asked for.
- *Life cycles*: handles, dentries, mounts and backend handles end in different calls.
  Every handle must name something live, I/O must reach the file that was opened, and a
  failed open must leave nothing behind.
- *Concurrent walks, init and mounts*: a name is looked up under a lock and added under
  another taking of it, and inode numbers come from a counter without a lock. Walks must end
  where they were sent, trees must stay trees, and duplicates must stay within what the
  code's locking allows.
- *Descriptors of the backend*: looked up under a lock, used and closed without it, and
  given out again by the host. A handle must keep its file, and no descriptor may be lost.
- *Eviction of the cache*: two phases and allocations that fail at every point. Sizes must
  stay exact, what goes must be what the policy says, and answers must never be stale.

`PROJECT.json` lists each hazard at its line.

## The modules

| module | models |
|---|---|
| `HandleTable` | abstract specification of the handle table: grant, revoke and reclaim in one step each |
| `FileHandles` | the table with its locks under concurrent callers, and all properties of it |
| `FileHandlesProofs` | proofs about `FileHandles` |
| `VfsPaths` | path and mount operators; extended by `VfsCore` |
| `VfsPathsProofs`, `MCVfsPathsProofs` | proofs about the path operators: lemmas for the other proofs, and the reference definitions of `MCVfsPaths` |
| `VfsCore` | the public calls on mounts, trees, handles and backends, one step per call |
| `VfsCoreProofs` | proofs about `VfsCore` |
| `TreeWalks` | resolution, init, mount and unmount of several threads, one critical section at a time; uses the operators of `VfsPaths` |
| `TreeWalksProofs` | proofs about the trees and inode numbers of `TreeWalks` |
| `TreeWalksWalkProofs` | proofs about its walks and its init |
| `PosixBackend` | handles and descriptors of the POSIX backends under concurrent callers |
| `PosixBackendProofs` | proofs about `PosixBackend` |
| `ForgetfulMap` | abstract specification of the block cache: a map that may forget |
| `WorkingSetCache` | the block cache and its clock |
| `WorkingSetCacheProofs` | proofs about `WorkingSetCache` |
| `MCFileHandles`, `MCVfsPaths`, `MCVfsCore`, `MCTreeWalks`, `MCPosixBackend`, `MCWorkingSetCache` | instances for TLC; `MCVfsPaths` also has the reference definitions for the operators |

### FileHandles

`inUse`, `dentry` and `lock` are the fields of `g_fh_table`; `vfsLock` and `backendLock` are
the owners of `g_vfs_lock` and of the backend's `b->lock`; `heap` says whether an orphan
has been allocated or freed; `size` is `inode->size`; `pc`, `fh`, `d` and `end` are what a
thread has in hand. `held`, `leaked`, `written` and `raced` are histories that no step reads
except to tell which handles a caller may pass.

Every step reads or writes shared state once: `AllocScan` is the unlocked test of
`fh_alloc`, `AllocLock`, `AllocCheck` and `AllocFill` its critical section; `CloseGet` is
`fh_get` in `vfs_close` and `FreeGet` the one in `fh_free`; `FreeLock`, `FreeMark` and
`FreeClear` its critical section, `Release` is `vfs_dentry_release`; `IoGet`, `IoDentry`
and the steps after them are `vfs_read` and `vfs_write`, which lock neither the slot nor the
dentry. An orphan's inode has a backend handle, so its reads and writes take `g_vfs_lock`
(`VfsLock`), look for a mount with a backend under it (`IoFind`), and either call the
backend with the lock held (`BackendLock`, `Lookup`, `IoHost`) or release it and fall back to
the size alone, as those of a tree's file do at once. Which mounts there are is left open:
each walk of the list may find a backend or none. A write that the backend cuts short goes
on with the end it has reached, a failed one returns. `OpenFind` and `CreatHandle` are where
an open takes the same two locks, one after the other. What reads a
freed dentry is undefined in C; the model does not take such a step, and
`NoUseAfterFree` says that it is never about to be taken. A load or store of `in_use` or
of a pointer is taken to be indivisible, as it is on the machines the code is built for,
and stores to be seen in program order.

A write that finds a file too small while another that found it so has yet to store is put
in `raced`: the size of such a file may lose the larger end. `OnlyRacesLoseSize` says that
nothing else loses one.

`Private` separates two kinds of callers. With it, a thread passes only handles it has
opened and not closed, as FUSE and the tests do. Without it, any thread closes any number
at any time.

### VfsPaths and VfsCore

A path is the sequence of what stands between its slashes, empty strings included, so
that doubled and trailing slashes are kept apart and a string prefix that ends at a
slash is a sequence prefix.

`VfsCore` has one action per public call. `mounts` is the list with the newest mount
first, each with its tree (names -> inode), whether it has a backend, and what that
backend has opened since it was mounted; `fhs` are the slots in use, `orphans` the live
dentries without a parent, `disk` the host's files. `Resolve` stands for lookup, mkdir
and the permission check, whose only effect is the auto-creation; `Stat` and `Readdir` add
that the backend is asked first. `OpenCreat` and `OpenTree` are the two halves of
`vfs_open`. Calls that fail without an effect are stuttering. `ub` records that a freed
dentry was read, after which nothing more is said.

A backend's host directory is reduced to the regular files directly in it: `NamesFile` says
when a relative path, slashes and dots before the name included, names one of them, and a
file is known by the mountpoint and its last segment (`HostFile`). `OpenTree` covers the
open of a file in a tree that has no backend handle yet (`NeedsBackend`), which no run
reaches: a tree under a backend has files only below a mountpoint that is written with a
trailing slash or the like (see `IoOfOnlyBackendAlways`), and the proofs cover it.

`Tidy` separates callers who close their files before they unmount or shut down from
those who do not. The run `core` lets them not do so, up to the first read of a freed
dentry.

### TreeWalks

`VfsCore` runs each call in one step; `TreeWalks` takes the calls that change mounts and
trees apart. `list` and `mount` are the mount list and the mounts that are allocated,
`node` the dentries, each with its children in the order of the code's list and its inode
number. `WalkFind`, `WalkRoot`, `WalkLookup`, `InoLoad`, `InoStore` and `WalkAdd` are
`vfs_resolve_path`, from `find_best_mount` to the unlocked increment of `g_next_ino`, which
is a load and a store; `VfsInit`, `Link` and `SampleAdd` are `vfs_init`, which builds its
tree while walks are already let in; `Mount`, `Link` and `Attach` are `vfs_mount_backend`,
whose backend may fail; `Unmount`, `Unlink` and `Destroy` are `vfs_unmount_backend`, and the
last two are also how a failed mount ends. `Sample` stands for the entries that `vfs_init`
adds; the run has a directory with a file in it, in place of the code's five entries.

What frees memory is the limit of what can be said: callers unmount and shut down while
nothing else runs, because the code is undefined otherwise (a walk keeps its mount across
the unlock). A mount that fails is destroyed by the code itself whoever is on it; `raced`
records that, and a use of freed memory sends every thread to `undefined`. `names`, `root`
and `maker` of a dentry, and `calls`, `lapped` and `raced`, are histories for the properties.

What the properties say is as much about what the code does not promise: siblings of one
name do occur, but each from a different thread (`TwinsOfDifferentCalls`); inode numbers are repeated, but only after two threads were
inside the increment at once (`InodeNumbersDiffer`); memory is used after it was freed, but
only after a mount has failed (`NoUseAfterFree`).

### PosixBackend

`up` is `backends[]`; `cap` and `entry` are a backend's `handle_cap` and `handles`; `host` is
the process's descriptor table, where every open gets the lowest free number. A step is one
critical section of `b->lock` or one call of the host. `OpenHost`, `CreateHandle` and `DropFd`
are `posix_open`, with a table that cannot grow and a host that has no descriptor left;
`CloseLookup`, `CloseHost` and `FreeHandle` are `posix_close`; `IoLookup` and `IoHost` are
`posix_read` and `posix_write`. Reads and writes of one handle run side by side, and its close
may begin while they do; then they find no entry, or the descriptor's next file, and
`file`, which says what a call in progress can count on, is `NoFile` for them. Callers close a
handle once, and do not shut a backend down under a call. `CloseHost` may fail: the
descriptor has gone, and the entry stays in use with its number. `failures` counts that,
since from then on the entry names whatever the host opens next, and a shutdown of its
backend closes that too; the close that then finds its descriptor gone gets `EBADF`, and
leaves its own entry in use in turn. `FdsAccounted` holds even so.

### WorkingSetCache

`entry` is the hash table without the order of its chains, which only decides between entries
that tie in phase two; `AccessTimesDiffer` shows that none do. `Update` and `Insert` are the
two halves of `cache_insert`, `Evictions` is `cache_evict_if_needed` with its two phases
`Sweep` and `Colder`. Each allocation may fail, after what was freed and evicted before it. The
logical clock `now` ticks where the code calls `ws_current_time`. There is no lock in the
code, so calls are atomic.

## The runs

| run | instance | checks |
|---|---|---|
| `handles` | 2 threads, 2 slots, 1 orphan, 1 tree file, all calls, writes that end at 1 or 2, `Private` | `TypeOK`, `HandleIntegrity`, `NoUseAfterFree`, `OnlyRacesLoseSize`, `RefinesHandleTable`, `CallsReturn` |
| `handles_shared` | 3 threads, 2 slots, 2 orphans, open, create and close of any number | `OneKeeper`, `NoStray`, `SlotConsistent`, `IInv`, `RefinesHandleTable` |
| `paths` | all paths of 5 segments over `"" . .. a b`, 2 mounts out of 9 mountpoints | `NormalizeKeepsSurvivors`, `NormalizeComposes`, `BestMountIsDeepestNewest`, `WalkReachesPath`, `BackendAndTreeAgree` |
| `core` | sample file and one file under `/m`, 2 mounts, 2 slots, 2 orphans, 2 backend handles; unmount and shutdown under open files | `TypeOK`, `HandlesLive`, `OrphansOwned`, `NothingWithoutHandle`, `TreesOnlyGrow` |
| `mounts` | 2 mounts at a time at `/` and `/m` in any order, two files below `/m` and one outside it, 2 orphans and 2 handles of a backend, tidy | `IoOfOnlyBackend`, `MountLocality` |
| `trees` | 2 threads, 4 calls, 2 paths below a mountpoint `/d` and a sample directory of that name, 4 mounts, 10 dentries | `TypeOK`, `NoUseAfterFree`, `WalkEndsRight`, `TreeSound`, `TwinsOfDifferentCalls`, `InodeNumbersDiffer`, `SampleBuiltOnce` |
| `backend` | 2 threads, 2 backends, tables of 1 growing to 2, 2 descriptors, 2 files, 1 failing close | `TypeOK`, `HandleKeepsFile`, `DescriptorStillValid`, `FdsAccounted`, `IInv` |
| `cache` | 4 blocks, two of one bucket, capacity 3, window 3, 7 ticks | `TypeOK`, `SizeExact`, `AccessTimesDiffer`, `EvictionPolicy`, `NeverStale` |
| `handles_size`, `shutdown`, `reopen`, `dispatch` | the smallest instances that show them | one finding each |

Why the bounds are enough: two threads race for a slot, and a third lets two closes of
one handle meet an open that reuses its slot. Two slots make a scan lose one and go on,
and with three threads or three opens the table is full, so the `-EMFILE` path runs. Two
orphans, in `handles_shared`, are enough for one to take the other's slot; a freed orphan is
not allocated again, so a dangling reference is never masked by reuse of memory. In
`handles`, the orphan and the tree's file are two dentries for one slot, two opens of the
file are two handles of one dentry, and two ends let a smaller one be stored after a larger.
In `paths`, five
segments hold two names, two `..` that undo them and a doubled slash. In `core`, two
slots are filled by two opens and refused to a third. In `mounts`, each of two mounts is
made and removed first and last, one lies below the other or on it, the outside file tells
where a change should not be felt, and two files that one backend has open at a time have
two handle numbers to mistake; a third mount with these files takes longer than is useful,
and `MountLocalityAlways` covers any number. In `trees`, four
calls let two walks race below a tree that an init is building, on a mount that fails, or
after an unmount; the ids are as many as four calls can allocate. In `backend`, a table
that starts with one entry grows once and is then refused, and with two descriptors for
four entries the host runs out, and hands a closed number to another backend. In `cache`,
a fourth block finds the cache full, seven ticks let entries leave a window of three
together, and two blocks of one bucket let a sweep take two where one would do.
`MaxEnd`, `MaxSize`, `MaxOpened`, `MaxOrphans`, `MaxMounts`, `MaxPath`, `MaxCalls`, `MaxTime`,
`MaxCap`, `MaxFailures` and the ids of `TreeWalks` are bounds of the model only; `MaxFH`,
`MaxBackends`, `InitialCap`, `Capacity` and `Tau` are the code's, and `MaxFd` is the host's.

Deadlock is checked except in `paths`, where an input may not grow any further, in `core`
and the violation runs of `VfsCore`, where nothing is said once a freed dentry has been
read, and in `trees`, which stops there too and when its calls are used up.

Fairness: `FairSpec` asks that each thread inside a call is scheduled and that the host
answers it (weak fairness of the thread's own steps), and nothing of the locks. One lock is
waited for while another is held, `b->lock` under `g_vfs_lock`, and never the other way round;
each way out of a call gives back what it has taken, and the scans are bounded, so
`CallsReturn` holds: once callers stop making new calls, every call returns.

### Findings

- `handles_size`: `vfs_write` updates `inode->size` outside the lock that
  `vfs_core.h:58` says protects it; of two overlapping writes the smaller end can win.
- `shutdown`: `vfs_shutdown` releases the dentries of open files after it has freed them
  with their trees.
- `reopen`: a file that exists in the backend is auto-created as a directory and refused
  when it is opened without `O_CREAT`.
- `dispatch`: with two backends mounted, I/O goes to the newest one, whichever backend
  opened the file. `IoOfOnlyBackend` states what remains true of callers who close their
  files before they unmount: with one backend mounted at the moment of the call, the right
  file is reached. A handle that outlives its mount is looked up in the next backend.

## The proofs

`FileHandlesProofs` proves, for any set of threads, any table size, any supply of
dentries and any set of calls, with the assumptions named in `FileHandles` (sizes are
natural numbers, the sentinels are not members of the sets):

- `Invariance`: `IInv` holds of every behaviour. It is built in layers, each inductive
  given those before it: `TypeOK` and `LocalsInv` (what a thread's step says of its
  locals); `LockInv` (a slot's lock is owned by exactly the thread in its critical
  section); `SlotInv` (what the owner has done to the slot so far); `OneKeeper` and
  `NoStray` (each live orphan has one keeper: a slot, a thread between table and heap, or
  the list of leaked ones). `OneKeeper` alone is not inductive: to know that `FreeClear`
  moves a dentry from slot to thread one needs that the slot still holds what the thread
  read, hence `SlotInv`, and that no other thread is in the section, hence `LockInv`.
- `TypeCorrect`, `OneKeeperAlways`, `NoStrayAlways`, `SlotConsistentAlways` follow. They
  hold whatever handle numbers callers pass.
- `HandleIntegrityAlways` and `NoUseAfterFreeAlways`: for callers that pass only their own
  open handles (`Private`), by a second invariant, `CallerInv`, on top of `IInv`.
- `OnlyRacesLoseSizeAlways`, of any callers and any files, by a third, `WritesInv`: of a file
  that is not in `raced`, one write at most has found the size too small and is yet to store
  (`Storing`), and the size is too small until it does. A second write that comes to the same
  test either finds the size large enough or is recorded. `handles_size` shows what happens
  to a file that is raced for.
- `Refinement`: the table implements `HandleTable`, with `dentry` as the abstract table and
  the freed orphans as reclaimed. `AllocFill` is a grant, `FreeClear` a revocation,
  `Release` a reclamation, every other step a stutter.

`VfsPathsProofs` holds the lemmas about the operators of `VfsPaths`, and `MCVfsPathsProofs`
concludes the five properties that the run `paths` checks, for paths of any length and any
mount table:

- `BestMountIsDeepestNewestAlways`: the answer of `find_best_mount` is in the table
  (`BestInTable`), and by `FoundNext` and `BestMount` it is the longest mountpoint above the
  path and the newest of those.
- `NormalizeComposesAlways`: by `StackOfConcat` the stack that two paths leave together is the
  one that the second leaves on top of the first's, and a normalised path leaves itself.
- `NormalizeKeepsSurvivorsAlways`: the reference, `Surviving`, counts for every segment the
  names and the `..` behind it; `StackIsSurviving` shows that the stack holds at each height
  the last name that reached it and that nothing behind goes below it.
- `WalkReachesPathAlways`: the names of a path are those of its mountpoint and those of the
  rest (`NamesOfConcat`); a mountpoint that ends in slashes is covered too.
- `BackendAndTreeAgreeAlways`: without dots, normalising is leaving out the empty segments, so
  the path as given and the normalised one have the same names, and so have the rests that
  `get_relpath_for_mount` and `vfs_resolve_path` cut off (`SlashesCut`).

Each of these folds over a path or a list is written as a recursive function, of which the
prover knows nothing until it is shown to exist (`PassDefined` and its likes); that, and what
it computes, is shown by looking at the first place at which it would fail (`LeastNatural`),
since the library's induction theorems are out of the prover's reach.

`VfsCoreProofs` proves, for any paths, mountpoints and table sizes, tidy callers or not unless
it is said:

- `OrphansOwnedAlways`, from `KeepersInv`: each orphan that is not lost has a handle, each
  handle of an orphan names one that is there, and no two name one.
- `CoreInvariance`: `KeepersInv` with `MountsInv` and `FilesInv`. That a handle of a tree's file
  keeps naming a file needs that no mount is mistaken for another, hence that ids of mounts
  differ, and that a new mount does not get an id which a handle of a mount that is gone still
  has: `FreshId` counts that there is always such an id. Every step either adds a mount, takes
  one away or makes the trees grow (`Grows`), which `NewMountStep`, `UnmountSafe` and
  `GrowsStep` each show to be safe once.
- `HandlesLiveAlways` and `TreesOnlyGrowAlways` follow.
- `ShapeInvariance`: `ShapeInv`, on top of `CoreInv`: mounts, dentries and orphans have the
  shape of what `Mount`, `Resolve` and `Open` make, and every tree has a root. `TypeOKAlways`
  follows. `ShapeInv` says more than `TypeOK`, because the proofs need each of these values to
  be a record or a sequence before they can say what an update of it leaves alone.
- `NothingWithoutHandleAlways`: a step adds nothing to a tree but directories (`TreeKeeps`, part
  of `Grows`), and otherwise leaves orphans, disk and backends' files as they were, or takes
  away, or is an open that fills a slot or finds none (`StepIsAccounted`). A failed open does
  leave the directories it has auto-created. One that finds no slot leaves the backend handle
  that it has opened, and its new dentry (`Abandoned`); that it leaves no more is what
  `OpenCreatAccounted` and `OpenTreeAccounted` show.
- `MountLocalityAlways`: if mount `i` does not serve a path, the list without it serves the path
  as before (`WithoutServes`), since what `BestMount` says of the answer does not depend on a
  mount that is not it; a mount is an unmount read backwards. `WithoutCounts` says which
  mountpoint's count has changed.
- `IoOfOnlyBackendAlways`, of tidy callers with plain mountpoints (`PlainMountpoints`: `/`, or
  names without `.`, `..` and doubled or trailing slashes), from `BackendFilesInv`: a live
  orphan's handle is the number under which its mount's backend opened its file, and no
  inode of a tree has a backend handle. With one backend, the mount that is dispatched to
  is then the orphan's. That no inode of a tree gets a handle needs that no regular file is
  ever found behind a backend (`NoFileBehindTree`): only `vfs_init` makes files in trees, below
  a root mount without a backend, and with plain mountpoints that mount serves the normalised
  path wherever there is such a file, while a path that a backend serves is walked below the
  backend's mountpoint (`BestServes`).

`PlainMountpoints` is needed, and is what a run on another instance shows. When a mount was
made at `/dir1/dir2/`, written with the slash, an open of `/dir1/dir2//file` asks that mount's
backend and walks the root mount's tree, since normalisation removes the doubled slash; so
`vfs_open` stores the backend's handle in the inode of the sample tree's file. After an unmount
and a new mount at the same place the inode still has the handle, which the new backend has
never given out: reads and writes through a new open fail, or reach another file. It takes
eight states. Nothing in the core removes the slash from a mountpoint.

`PosixBackendProofs` proves, for any number of threads, backends, entries, descriptors and
failures:

- `Invariance`: `IInv`, which is `TypeOK`; `LocalsInv` (what a thread's step says of what it
  has in hand); `CallersInv` (a handle is open for callers, being closed by one of them, or
  neither); `OwnersInv` (until a close fails, each descriptor is in one entry or in one
  thread's hand, and open on its file: on that of its handle, if the handle is open or in a
  close that has not reached the host, `InUse`); `AccountedInv` (every open descriptor has an
  owner).
  `HandleKeepsFile` alone is not inductive: that another thread's `CloseHost` closes another
  descriptor needs that no two entries hold the same one, and that an entry whose descriptor
  has gone back to the host (`Gone`) no longer counts while `FreeHandle` is still to come.
- `TypeCorrect`, `HandleKeepsFileAlways`, `DescriptorStillValidAlways` and
  `FdsAccountedAlways` follow. The third is about closes, and about reads and writes as long as
  nobody closes their handle under them; the code promises nothing to one that is overtaken.

`TreeWalksProofs` proves, for any threads, paths, mountpoints and ids, and any sample tree
whose entries each lie below an earlier one and differ:

- `Invariance`: `IInv`, which `TreeSound`, `TwinsOfDifferentCalls` and `InodeNumbersDiffer`
  need in order to be inductive. `NumbersInv` follows a number from the load to the dentry:
  until two threads are inside the increment it is the counter's, one thread's or one
  dentry's. `PendingInv` says of a walk that has missed a name, and let go of the dentry's
  lock, that no child of this name is its own; others may have added one meanwhile.
  `BuildInv` says the same of an init: what it has made so far is the root and the first
  entries of the sample, each once. `ListInv`, `RootsInv` and `OwnersInv` say that the list
  holds allocated mounts, that each has a tree of its own, and that a thread that builds or
  is about to free a mount is alone with it: so a destroyed tree is nobody else's work.
- `TreeSoundAlways`, `TwinsOfDifferentCallsAlways` and `InodeNumbersDifferAlways` follow.
  The step that frees trees (`CutSound`) needs that a dentry and its parent have the same
  root, so that what is freed is closed under both directions of the links.

`TreeWalksWalkProofs` proves on top of it, under the same assumptions:

- `WalksInvariance`: `WInv`. `HandsInv` and `PlacesInv` type what threads have in hand;
  `NamesInv` says that the names down to a dentry are those down to its parent and its own;
  `WalkersInv` says that, until a mount fails, a walk's mount and dentry are allocated and the
  names behind it and before it make up its path (`OnItsWay`). The steps that free memory need
  `IInv`: an unmount runs alone, and only a failed mount, which is recorded, does not.
- `NoUseAfterFreeAlways`, `WalkEndsRightAlways` and `TypeCorrect` follow.
- `SampleBuiltOnceAlways`, for callers that mount elsewhere than at `/`, from `SampleInv`:
  while an init runs there is no root mount before its `Link` and only its own afterwards, and
  every entry it has in hand is its own and has the names it should (`InitInv`); there is one
  init at a time, and nobody else is making or freeing a mount at `/` (`CallersInv`); a root
  mount is in the list as long as `g_vfs_inited` is set, so a shutdown, which frees what is in
  the list, leaves none for the next init to find (`RootListInv`). `BuildInv` and `OwnersInv`
  say that what it has built is on its mount. All other steps leave root mounts, and the
  dentries on them, as they are (`RootsStay`), or are adding to them. A caller that mounts at
  `/` makes a second root mount, and the property does not hold.

`TreeWalks` and `VfsCore` each assume, by name (`PathsAssumption`), that paths and mountpoints
are sequences of strings and not empty: they begin with a slash, and there is a segment behind
each slash. `vfs_resolve_path` refuses any other path. `vfs_open` with `O_CREAT`, `vfs_stat` and
`vfs_readdir` hand it to a root mount's backend, and `vfs_mount_backend` takes any mountpoint:
that callers pass absolute ones is assumed.

`WorkingSetCacheProofs` proves, for any blocks, capacity and window:

- `Invariance`: `TypeOK`, `SizeExact`, `AccessTimesDiffer` and `DataLatest` together. That the
  size stays within the capacity needs that phase two finds an entry to take, hence that the
  size is exact and a coldest entry exists; that the sweep takes from the front of the table
  needs a least bucket, which the natural numbers being well-founded gives.
- `TypeCorrect`, `SizeExactAlways`, `AccessTimesDifferAlways`; `EvictionPolicyAlways`, for
  every step; and `Refinement`, that the cache implements `ForgetfulMap` with the entries
  that have data as what is known.

Only model-checked: `CallsReturn`, since liveness under fairness is out of the prover's reach.
The runs that expect a violation are answered by their counterexamples.

## Not modelled

- Allocation failures in the core, timestamps, file contents, and host errors other than
  those a path decides, a descriptor table that is full and a close that fails.
- Host directory trees below the files directly in a backend's root, and the backend's
  operations that hand a path to the host and keep no state: stat, readdir, unlink, rename,
  mkdir.
- The permission check, a pure function that the core asks as uid 0, and the registry beyond
  its one entry.
- The FUSE glue: it keeps no state and forwards each callback, through the prototypes of
  `vfs_fuse.h`, which differ from the definitions in `vfs_core.c` (`vfs_open` is given a
  `fuse_file_info` where the core takes flags, `vfs_read` and `vfs_write` a path where it takes a
  handle), so
  what a call through it does is not defined.
- Two unmounts at a time, or an unmount under a call: the code is undefined there.
- The block files, which include a header that is not in the repository; the stub and
  `vfsctl`, which are not part of the program.

## Plan

Every safety and action property of the passing runs is proved. What is left is to widen the
model: the calls of `VfsCore` under concurrent callers, in place of one step each, as far as
TLC can follow.
