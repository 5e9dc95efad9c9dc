---------------------------- MODULE FileHandles ----------------------------
(***************************************************************************)
(* The file handle table of src/src/core/vfs_core.c under concurrent       *)
(* callers.  A thread runs one call at a time; a call is a sequence of     *)
(* steps, each reading or writing shared state once (the unlocked reads of *)
(* in_use, the lock of a slot, the stores made under it, the release of    *)
(* the dentry after it).  The resolution of the path is abstracted to one  *)
(* walk down the mount list under g_vfs_lock: an open takes a file of a    *)
(* tree that no backend serves, a creating open makes a new dentry without *)
(* a parent (an orphan, which only its handle keeps alive) for the file    *)
(* its backend has opened.  Reads and writes of such a file go to a        *)
(* backend, under g_vfs_lock and, for the look-up of the descriptor, the   *)
(* backend's own lock beneath it.                                          *)
(***************************************************************************)
EXTENDS Naturals, FiniteSets

CONSTANTS
  Threads,    \* the callers
  MaxFH,      \* VFS_MAX_FH
  Orphans,    \* the dentries creating opens may allocate: bounds their number
  TreeFiles,  \* files of a mount's tree; their dentries outlive every handle
  MaxEnd,     \* bound: a write ends at an offset of 1..MaxEnd
  Calls,      \* the calls the threads make, of "open","creat","close","read","write"
  Private,    \* TRUE: a thread passes only handles it opened and has not closed
  NoThread, NoDentry

Slots == 1..MaxFH
Handles == 0..(MaxFH + 1)  \* the numbers a caller may pass, valid or not
Ends == 0..MaxEnd
Dentries == Orphans \cup TreeFiles

ASSUME SlotsAssumption == MaxFH \in Nat /\ MaxEnd \in Nat
ASSUME DentriesAssumption == /\ Orphans \cap TreeFiles = {}
                             /\ NoDentry \notin Dentries
ASSUME ThreadsAssumption == NoThread \notin Threads
ASSUME CallersAssumption == /\ Calls \subseteq {"open", "creat", "close", "read", "write"}
                            /\ Private \in BOOLEAN

VARIABLES
  inUse, dentry, lock,  \* g_fh_table[i]: in_use, dentry, and the owner of lock
  vfsLock, backendLock, \* the owners of g_vfs_lock and of b->lock of the backend
  heap,                 \* orphan -> "unborn", "live" or "freed"
  size,                 \* dentry -> inode->size
  pc, fh, d, end,       \* thread -> its step, the slot or handle, dentry, end of write in hand
  held,                 \* history, if Private: thread -> pairs <<handle, dentry>> it has open
  leaked,               \* history: orphans dropped by an open that failed with EMFILE
  written,              \* history: dentry -> largest end of a write that has returned
  raced                 \* history: dentries that two writes found too small at a time

table == <<inUse, dentry, lock>>
globals == <<vfsLock, backendLock>>
sizes == <<size, written, raced>>
locals == <<pc, fh, d, end>>
vars == <<inUse, dentry, lock, vfsLock, backendLock, heap, size, pc, fh, d, end,
          held, leaked, written, raced>>

Init ==
  /\ inUse = [s \in Slots |-> FALSE]
  /\ dentry = [s \in Slots |-> NoDentry]
  /\ lock = [s \in Slots |-> NoThread]
  /\ vfsLock = NoThread /\ backendLock = NoThread
  /\ heap = [o \in Orphans |-> "unborn"]
  /\ size = [x \in Dentries |-> 0]
  /\ pc = [t \in Threads |-> "idle"]
  /\ fh = [t \in Threads |-> 0]
  /\ d = [t \in Threads |-> NoDentry]
  /\ end = [t \in Threads |-> 0]
  /\ held = [t \in Threads |-> {}]
  /\ leaked = {}
  /\ written = [x \in Dentries |-> 0]
  /\ raced = {}

Goto(t, label) == pc' = [pc EXCEPT ![t] = label]

\* The call returns; what the thread had in hand is forgotten.
Return(t) ==
  /\ Goto(t, "idle")
  /\ fh' = [fh EXCEPT ![t] = 0]
  /\ d' = [d EXCEPT ![t] = NoDentry]
  /\ end' = [end EXCEPT ![t] = 0]

\* The dentry's memory may be read: a tree keeps it, or it has not been freed.
Alive(x) == x \in TreeFiles \/ (x \in Orphans /\ heap[x] = "live")

\* The handles the caller t may pass. fh_get rejects those outside the table.
Passable(t) == IF Private THEN {g[1] : g \in held[t]} ELSE Handles

----------------------------------------------------------------------------
\* g_vfs_lock and b->lock: each is taken by the calls that wait for it at these steps.

VfsLock(t) ==
  /\ pc[t] \in {"open_lock", "io_lock"} /\ vfsLock = NoThread
  /\ vfsLock' = t
  /\ Goto(t, IF pc[t] = "open_lock" THEN "open_find" ELSE "io_find")
  /\ UNCHANGED <<table, backendLock, heap, sizes, fh, d, end, held, leaked>>

BackendLock(t) ==
  /\ pc[t] \in {"creat_lock", "lookup_lock"} /\ backendLock = NoThread
  /\ backendLock' = t
  /\ Goto(t, IF pc[t] = "creat_lock" THEN "creat_handle" ELSE "lookup")
  /\ UNCHANGED <<table, vfsLock, heap, sizes, fh, d, end, held, leaked>>

----------------------------------------------------------------------------
\* vfs_open: a file of a tree, or a new one, whose dentry is yet to be made.

OpenTree(t, f) ==
  /\ pc[t] = "idle" /\ "open" \in Calls
  /\ Goto(t, "open_lock")
  /\ d' = [d EXCEPT ![t] = f]
  /\ UNCHANGED <<table, globals, heap, sizes, fh, end, held, leaked>>

OpenCreat(t) ==
  /\ pc[t] = "idle" /\ "creat" \in Calls
  /\ Goto(t, "open_lock")
  /\ UNCHANGED <<table, globals, heap, sizes, fh, d, end, held, leaked>>

\* find_best_mount's walk down the mount list. What the call does with the mount needs
\* g_vfs_lock no more: it goes on, or fails (no mount, no such file, not permitted).
OpenFind(t) ==
  /\ pc[t] = "open_find"
  /\ vfsLock' = NoThread
  /\ \/ Return(t)
     \/ d[t] = NoDentry /\ Goto(t, "creat_lock") /\ UNCHANGED <<fh, d, end>>
     \/ /\ d[t] # NoDentry /\ Goto(t, "scan")
        /\ fh' = [fh EXCEPT ![t] = 1]
        /\ UNCHANGED <<d, end>>
  /\ UNCHANGED <<table, backendLock, heap, sizes, held, leaked>>

\* The backend's create_handle stores the descriptor of the new file, or its open has
\* failed; then the dentry is made, not yet in the table.
CreatHandle(t) ==
  /\ pc[t] = "creat_handle"
  /\ backendLock' = NoThread
  /\ \/ Return(t) /\ UNCHANGED heap
     \/ \E o \in Orphans :
          /\ heap[o] = "unborn"
          /\ heap' = [heap EXCEPT ![o] = "live"]
          /\ Goto(t, "scan")
          /\ fh' = [fh EXCEPT ![t] = 1]
          /\ d' = [d EXCEPT ![t] = o]
          /\ UNCHANGED end
  /\ UNCHANGED <<table, vfsLock, sizes, held, leaked>>

\* fh_alloc's loop: in_use of one slot is read without its lock.
AllocScan(t) ==
  /\ pc[t] = "scan" /\ fh[t] \in Slots
  /\ IF inUse[fh[t]]
     THEN fh' = [fh EXCEPT ![t] = fh[t] + 1] /\ UNCHANGED pc
     ELSE Goto(t, "alloc_lock") /\ UNCHANGED fh
  /\ UNCHANGED <<table, globals, heap, sizes, d, end, held, leaked>>

\* The loop ends without a slot: -EMFILE. vfs_open returns it as it is, so an
\* orphan it has just made is referenced by nothing.
AllocFull(t) ==
  /\ pc[t] = "scan" /\ fh[t] \notin Slots
  /\ leaked' = leaked \cup ({d[t]} \cap Orphans)
  /\ Return(t)
  /\ UNCHANGED <<table, globals, heap, sizes, held>>

AllocLock(t) ==
  /\ pc[t] = "alloc_lock" /\ lock[fh[t]] = NoThread
  /\ lock' = [lock EXCEPT ![fh[t]] = t]
  /\ Goto(t, "alloc_check")
  /\ UNCHANGED <<globals, inUse, dentry, heap, sizes, fh, d, end, held, leaked>>

\* Mutant: in_use is not read again.
AllocCheckBlind(t) ==
  /\ pc[t] = "alloc_check"
  /\ inUse' = [inUse EXCEPT ![fh[t]] = TRUE]
  /\ Goto(t, "alloc_fill")
  /\ UNCHANGED <<globals, lock, fh, dentry, heap, sizes, d, end, held, leaked>>

\* in_use is read again under the lock: the slot is claimed, or the scan goes on.
AllocCheck(t) ==
  /\ pc[t] = "alloc_check"
  /\ \/ /\ inUse[fh[t]]
        /\ lock' = [lock EXCEPT ![fh[t]] = NoThread]
        /\ fh' = [fh EXCEPT ![t] = fh[t] + 1]
        /\ Goto(t, "scan")
        /\ UNCHANGED inUse
     \/ /\ ~inUse[fh[t]]
        /\ inUse' = [inUse EXCEPT ![fh[t]] = TRUE]
        /\ Goto(t, "alloc_fill")
        /\ UNCHANGED <<lock, fh>>
  /\ UNCHANGED <<globals, dentry, heap, sizes, d, end, held, leaked>>

\* The dentry is stored, the lock released, and the handle returned.
AllocFill(t) ==
  /\ pc[t] = "alloc_fill"
  /\ dentry' = [dentry EXCEPT ![fh[t]] = d[t]]
  /\ lock' = [lock EXCEPT ![fh[t]] = NoThread]
  /\ held' = IF Private THEN [held EXCEPT ![t] = @ \cup {<<fh[t], d[t]>>}] ELSE held
  /\ Return(t)
  /\ UNCHANGED <<globals, inUse, heap, sizes, leaked>>

----------------------------------------------------------------------------
\* vfs_close and fh_free.

Close(t, h) ==
  /\ pc[t] = "idle" /\ "close" \in Calls
  /\ h \in Passable(t)
  /\ held' = [held EXCEPT ![t] = {g \in @ : g[1] # h}]
  /\ fh' = [fh EXCEPT ![t] = h]
  /\ Goto(t, "close_get")
  /\ UNCHANGED <<table, globals, heap, sizes, d, end, leaked>>

\* fh_get, without the lock: -EBADF unless the slot is in use.
Found(t) == fh[t] \in Slots /\ inUse[fh[t]]

CloseGet(t) ==
  /\ pc[t] = "close_get"
  /\ IF Found(t) THEN Goto(t, "free_get") /\ UNCHANGED <<fh, d, end>> ELSE Return(t)
  /\ UNCHANGED <<table, globals, heap, sizes, held, leaked>>

\* fh_free looks the handle up a second time.
FreeGet(t) ==
  /\ pc[t] = "free_get"
  /\ IF Found(t) THEN Goto(t, "free_lock") /\ UNCHANGED <<fh, d, end>> ELSE Return(t)
  /\ UNCHANGED <<table, globals, heap, sizes, held, leaked>>

FreeLock(t) ==
  /\ pc[t] = "free_lock" /\ lock[fh[t]] = NoThread
  /\ lock' = [lock EXCEPT ![fh[t]] = t]
  /\ Goto(t, "free_mark")
  /\ UNCHANGED <<globals, inUse, dentry, heap, sizes, fh, d, end, held, leaked>>

\* Mutants: in_use stays set; the orphan is freed before the slot is cleared.
FreeMarkKeepsInUse(t) ==
  /\ pc[t] = "free_mark"
  /\ d' = [d EXCEPT ![t] = dentry[fh[t]]]
  /\ Goto(t, "free_clear")
  /\ UNCHANGED <<globals, inUse, dentry, lock, heap, sizes, fh, end, held, leaked>>

FreeMarkFreesFirst(t) ==
  /\ pc[t] = "free_mark"
  /\ d' = [d EXCEPT ![t] = dentry[fh[t]]]
  /\ heap' = [o \in Orphans |-> IF o = dentry[fh[t]] THEN "freed" ELSE heap[o]]
  /\ inUse' = [inUse EXCEPT ![fh[t]] = FALSE]
  /\ Goto(t, "free_clear")
  /\ UNCHANGED <<globals, dentry, lock, sizes, fh, end, held, leaked>>

\* The dentry is taken in hand and in_use cleared; dentry is not cleared yet.
FreeMark(t) ==
  /\ pc[t] = "free_mark"
  /\ d' = [d EXCEPT ![t] = dentry[fh[t]]]
  /\ inUse' = [inUse EXCEPT ![fh[t]] = FALSE]
  /\ Goto(t, "free_clear")
  /\ UNCHANGED <<globals, dentry, lock, heap, sizes, fh, end, held, leaked>>

\* Mutants: the slot keeps its dentry; the dentry is never released.
FreeClearKeepsDentry(t) ==
  /\ pc[t] = "free_clear"
  /\ lock' = [lock EXCEPT ![fh[t]] = NoThread]
  /\ IF d[t] = NoDentry THEN Return(t) ELSE Goto(t, "release") /\ UNCHANGED <<fh, d, end>>
  /\ UNCHANGED <<globals, inUse, dentry, heap, sizes, held, leaked>>

FreeClearForgets(t) ==
  /\ pc[t] = "free_clear"
  /\ dentry' = [dentry EXCEPT ![fh[t]] = NoDentry]
  /\ lock' = [lock EXCEPT ![fh[t]] = NoThread]
  /\ Return(t)
  /\ UNCHANGED <<globals, inUse, heap, sizes, held, leaked>>

FreeClear(t) ==
  /\ pc[t] = "free_clear"
  /\ dentry' = [dentry EXCEPT ![fh[t]] = NoDentry]
  /\ lock' = [lock EXCEPT ![fh[t]] = NoThread]
  /\ IF d[t] = NoDentry THEN Return(t) ELSE Goto(t, "release") /\ UNCHANGED <<fh, d, end>>
  /\ UNCHANGED <<globals, inUse, heap, sizes, held, leaked>>

\* vfs_dentry_release: an orphan is freed, and its inode with the size; a dentry with a
\* parent is left alone.
Release(t) ==
  /\ pc[t] = "release"
  /\ IF d[t] \in Orphans
     THEN /\ heap' = [heap EXCEPT ![d[t]] = "freed"]
          /\ size' = [size EXCEPT ![d[t]] = 0]
          /\ written' = [written EXCEPT ![d[t]] = 0]
     ELSE UNCHANGED <<heap, size, written>>
  /\ Return(t)
  /\ UNCHANGED <<table, globals, held, leaked, raced>>

----------------------------------------------------------------------------
\* vfs_read and vfs_write: no lock of the slot or the dentry is held while *d is used.

Read(t, h) ==
  /\ pc[t] = "idle" /\ "read" \in Calls
  /\ h \in Passable(t)
  /\ fh' = [fh EXCEPT ![t] = h]
  /\ Goto(t, "io_get")
  /\ UNCHANGED <<table, globals, heap, sizes, d, end, held, leaked>>

\* e is what the write's offset + count comes to; a read has end 0.
Write(t, h, e) ==
  /\ pc[t] = "idle" /\ "write" \in Calls
  /\ h \in Passable(t)
  /\ fh' = [fh EXCEPT ![t] = h]
  /\ end' = [end EXCEPT ![t] = e]
  /\ Goto(t, "io_get")
  /\ UNCHANGED <<table, globals, heap, sizes, d, held, leaked>>

IoGet(t) ==
  /\ pc[t] = "io_get"
  /\ IF Found(t) THEN Goto(t, "io_dentry") /\ UNCHANGED <<fh, d, end>> ELSE Return(t)
  /\ UNCHANGED <<table, globals, heap, sizes, held, leaked>>

\* Without a backend, or none that answers: a read of zeroes, a write of the size alone.
Fallback(t) == IF end[t] = 0 THEN "read_use" ELSE "write_test"

\* d = e->dentry; -ENOENT if the slot has been emptied since. The inode of a creating
\* open has a backend_handle, that of a tree's file has none.
IoDentry(t) ==
  /\ pc[t] = "io_dentry"
  /\ IF dentry[fh[t]] = NoDentry
     THEN Return(t)
     ELSE /\ d' = [d EXCEPT ![t] = dentry[fh[t]]]
          /\ Goto(t, IF dentry[fh[t]] \in Orphans THEN "io_lock" ELSE Fallback(t))
          /\ UNCHANGED <<fh, end>>
  /\ UNCHANGED <<table, globals, heap, sizes, held, leaked>>

\* The steps marked Alive read or write *d; what they do once it is freed is undefined,
\* and they are not taken then (NoUseAfterFree says that this never happens).

\* A mount with a backend is in the list, and its read or write is called with g_vfs_lock
\* held; or it has been unmounted, the lock is released, and the call falls back.
IoFind(t) ==
  /\ pc[t] = "io_find" /\ Alive(d[t])
  /\ \/ Goto(t, "lookup_lock") /\ UNCHANGED vfsLock
     \/ Goto(t, Fallback(t)) /\ vfsLock' = NoThread
  /\ UNCHANGED <<table, backendLock, heap, sizes, fh, d, end, held, leaked>>

\* lookup_fd releases b->lock with a descriptor or with -EBADF.
Lookup(t) ==
  /\ pc[t] = "lookup"
  /\ backendLock' = NoThread
  /\ Goto(t, "io_host")
  /\ UNCHANGED <<table, vfsLock, heap, sizes, fh, d, end, held, leaked>>

\* Mutant: the call returns from the loop over the mounts with g_vfs_lock held.
IoHostKeepsLock(t) ==
  /\ pc[t] = "io_host"
  /\ \/ Return(t)
     \/ \E e \in 1..end[t] : Goto(t, "write_test") /\ end' = [end EXCEPT ![t] = e] /\ UNCHANGED <<fh, d>>
  /\ UNCHANGED <<table, globals, heap, sizes, held, leaked>>

\* The host has answered (pread, pwrite, or no descriptor) and g_vfs_lock is released. A
\* read returns the answer, a write too if it failed; one that wrote something goes on
\* to the size, with the end it has reached.
IoHost(t) ==
  /\ pc[t] = "io_host"
  /\ vfsLock' = NoThread
  /\ \/ Return(t)
     \/ \E e \in 1..end[t] :
          /\ end' = [end EXCEPT ![t] = e]
          /\ Goto(t, "write_test")
          /\ UNCHANGED <<fh, d>>
  /\ UNCHANGED <<table, backendLock, heap, sizes, held, leaked>>

ReadUse(t) ==
  /\ pc[t] = "read_use" /\ Alive(d[t])
  /\ Return(t)
  /\ UNCHANGED <<table, globals, heap, sizes, held, leaked>>

\* What a write that returns promises: the file reaches at least to its end.
Wrote(t) == written' = [written EXCEPT ![d[t]] = IF end[t] > @ THEN end[t] ELSE @]

\* The test of a write that found the file too small, with that of another yet to store.
Race(t) ==
  raced' = IF \E u \in Threads \ {t} : pc[u] = "write_size" /\ d[u] = d[t]
           THEN raced \cup {d[t]} ELSE raced

\* Mutants: the comparison is reversed; the size grows by the end of the write.
WriteTestReversed(t) ==
  /\ pc[t] = "write_test" /\ Alive(d[t])
  /\ IF end[t] < size[d[t]]
     THEN Race(t) /\ Goto(t, "write_size") /\ UNCHANGED <<fh, d, end, written>>
     ELSE Wrote(t) /\ Return(t) /\ UNCHANGED raced
  /\ UNCHANGED <<table, globals, heap, size, held, leaked>>

WriteSizeAdds(t) ==
  /\ pc[t] = "write_size" /\ Alive(d[t])
  /\ size' = [size EXCEPT ![d[t]] = @ + end[t]]
  /\ Wrote(t)
  /\ Return(t)
  /\ UNCHANGED <<table, globals, heap, held, leaked, raced>>

\* if (end > inode->size), with the store a step later.
WriteTest(t) ==
  /\ pc[t] = "write_test" /\ Alive(d[t])
  /\ \/ /\ end[t] > size[d[t]]
        /\ Race(t)
        /\ Goto(t, "write_size")
        /\ UNCHANGED <<fh, d, end, written>>
     \/ /\ end[t] <= size[d[t]]
        /\ Wrote(t)
        /\ Return(t)
        /\ UNCHANGED raced
  /\ UNCHANGED <<table, globals, heap, size, held, leaked>>

WriteSize(t) ==
  /\ pc[t] = "write_size" /\ Alive(d[t])
  /\ size' = [size EXCEPT ![d[t]] = end[t]]
  /\ Wrote(t)
  /\ Return(t)
  /\ UNCHANGED <<table, globals, heap, held, leaked, raced>>

----------------------------------------------------------------------------
\* What a caller starts, and what a thread inside a call does next.

Start(t) ==
  \/ \E f \in TreeFiles : OpenTree(t, f)
  \/ OpenCreat(t)
  \/ \E h \in Handles : Close(t, h)
  \/ \E h \in Handles : Read(t, h)
  \/ \E h \in Handles, e \in Ends \ {0} : Write(t, h, e)

Step(t) ==
  \/ VfsLock(t) \/ BackendLock(t) \/ OpenFind(t) \/ CreatHandle(t)
  \/ AllocScan(t) \/ AllocFull(t) \/ AllocLock(t) \/ AllocCheck(t) \/ AllocFill(t)
  \/ CloseGet(t) \/ FreeGet(t) \/ FreeLock(t) \/ FreeMark(t) \/ FreeClear(t) \/ Release(t)
  \/ IoGet(t) \/ IoDentry(t) \/ IoFind(t) \/ Lookup(t) \/ IoHost(t)
  \/ ReadUse(t) \/ WriteTest(t) \/ WriteSize(t)

Next == \E t \in Threads : Start(t) \/ Step(t)

Spec == Init /\ [][Next]_vars

\* Every thread inside a call is scheduled as long as it can run, and the host answers
\* the calls it is given. A thread waiting for a lock can run only while the lock is
\* free, and no more is assumed of it.
FairSpec == Spec /\ \A t \in Threads : WF_vars(Step(t))
----------------------------------------------------------------------------
\* Properties.

Labels == {"idle", "open_lock", "open_find", "creat_lock", "creat_handle",
           "scan", "alloc_lock", "alloc_check", "alloc_fill",
           "close_get", "free_get", "free_lock", "free_mark", "free_clear", "release",
           "io_get", "io_dentry", "io_lock", "io_find", "lookup_lock", "lookup", "io_host",
           "read_use", "write_test", "write_size"}

\* The type invariant of the table, the heap and the threads' locals.
TypeOK ==
  /\ inUse \in [Slots -> BOOLEAN]
  /\ dentry \in [Slots -> Dentries \cup {NoDentry}]
  /\ lock \in [Slots -> Threads \cup {NoThread}]
  /\ vfsLock \in Threads \cup {NoThread}
  /\ backendLock \in Threads \cup {NoThread}
  /\ heap \in [Orphans -> {"unborn", "live", "freed"}]
  /\ size \in [Dentries -> Ends]
  /\ pc \in [Threads -> Labels]
  /\ fh \in [Threads -> Handles]
  /\ d \in [Threads -> Dentries \cup {NoDentry}]
  /\ end \in [Threads -> Ends]
  /\ held \in [Threads -> SUBSET (Slots \X Dentries)]
  /\ leaked \subseteq Orphans
  /\ written \in [Dentries -> Ends]
  /\ raced \subseteq Dentries

\* Thread t alone references d[t]: its open has not stored it in a slot yet, or
\* its close has taken it out of one and not freed it yet.
InHand(t) == pc[t] \in {"scan", "alloc_lock", "alloc_check", "alloc_fill", "release"}

\* Of the slots, the threads and the leaked ones, at most one keeps an orphan, and
\* what is kept has not been freed: the free that ends a close is never a second
\* free, whatever two closes of one handle and an open reusing its slot interleave
\* to. (fh_alloc, fh_free, vfs_dentry_release.)
OneKeeper ==
  /\ \A o \in leaked : heap[o] = "live"
  /\ \A s \in Slots : dentry[s] \in Orphans =>
        /\ heap[dentry[s]] = "live"
        /\ dentry[s] \notin leaked
        /\ \A k \in Slots : k # s => dentry[k] # dentry[s]
  /\ \A t \in Threads : InHand(t) /\ d[t] \in Orphans =>
        /\ heap[d[t]] = "live"
        /\ d[t] \notin leaked
        /\ \A s \in Slots : dentry[s] # d[t]
        /\ \A u \in Threads : u # t /\ InHand(u) => d[u] # d[t]

\* No orphan is lost while a close races an open: allocated memory is kept by a
\* slot, or by the call that makes or frees it, unless it was dropped by an open
\* that returned -EMFILE. (The path of vfs_open that ends in fh_alloc failing.)
NoStray ==
  \A o \in Orphans : heap[o] = "live" =>
    \/ \E s \in Slots : dentry[s] = o
    \/ \E t \in Threads : InHand(t) /\ d[t] = o
    \/ o \in leaked

\* Between calls a slot is in use exactly when it names a dentry; only the owner of
\* its lock sees it otherwise, so no slot is ever lost to the table. (fh_alloc and
\* fh_free store in_use and dentry separately.)
SlotConsistent ==
  \A s \in Slots : lock[s] = NoThread => (inUse[s] <=> dentry[s] # NoDentry)

\* A handle names the dentry its open was given until the thread that opened it
\* closes it, and it is nobody else's, whatever other threads open and close.
HandleIntegrity ==
  \A t \in Threads : \A g \in held[t] :
    /\ inUse[g[1]] /\ dentry[g[1]] = g[2]
    /\ \A u \in Threads \ {t} : \A k \in held[u] : k[1] # g[1]

\* The steps of a read or write that have the dentry in hand, and use it until they return.
InUse(t) == pc[t] \in {"io_lock", "io_find", "lookup_lock", "lookup", "io_host",
                      "read_use", "write_test", "write_size"}

\* vfs_read and vfs_write use e->dentry after the unlocked fh_get, before, under and after
\* g_vfs_lock: its memory is still there when they do.
NoUseAfterFree == \A t \in Threads : InUse(t) => Alive(d[t])

\* inode->size covers every write that has returned (test and store of the size are
\* separate and unlocked in vfs_write).
SizeCoversWrites == \A x \in Dentries : size[x] >= written[x]

\* A returned write is lost from inode->size only by the overlap of vfs_write's test and
\* store with those of another write that found the same file too small: until two have
\* done so at once, in whatever order writes of any lengths come, through one handle or
\* several, fall back or are cut short by the backend, the size covers them.
OnlyRacesLoseSize == \A x \in Dentries \ raced : size[x] >= written[x]

\* The locked, step by step table implements the table of HandleTable: grants and
\* revocations are atomic to it, and an orphan is reclaimed only when unnamed.
Abstract == INSTANCE HandleTable
              WITH table <- dentry, reclaimed <- {o \in Orphans : heap[o] = "freed"}
RefinesHandleTable == Abstract!Spec

\* No lock is left held, of a slot, of the mount table or of the backend, on any way out
\* of a call, no two calls wait for each other's locks, and no scan goes round for ever:
\* once callers make no new calls, every call in progress returns.
NewCall == \E t \in Threads : Start(t)
CallsReturn == []<><<NewCall>>_vars \/ <>[](\A t \in Threads : pc[t] = "idle")
----------------------------------------------------------------------------
\* The inductive invariant behind the safety properties above.

\* The steps at which a thread owns the lock of the slot it has in hand.
Locking == {"alloc_check", "alloc_fill", "free_mark", "free_clear"}

\* What a thread's step says of its locals.
LocalsInv ==
  \A t \in Threads :
    /\ pc[t] \in Locking \cup {"alloc_lock", "free_get", "free_lock", "io_dentry"} => fh[t] \in Slots
    /\ pc[t] = "idle" => d[t] = NoDentry
    /\ pc[t] \in {"open_lock", "open_find"} => d[t] \in TreeFiles \cup {NoDentry}
    /\ InHand(t) \/ InUse(t) => d[t] \in Dentries

\* A lock is owned by the one thread inside its critical section; b->lock is taken inside
\* that of g_vfs_lock, and never the other way round.
LockInv ==
  /\ \A s \in Slots, t \in Threads : lock[s] = t <=> pc[t] \in Locking /\ fh[t] = s
  /\ \A t \in Threads :
       vfsLock = t <=> pc[t] \in {"open_find", "io_find", "lookup_lock", "lookup", "io_host"}
  /\ \A t \in Threads : backendLock = t <=> pc[t] \in {"creat_handle", "lookup"}

\* What the owner of a lock has done to its slot so far.
SlotInv ==
  /\ SlotConsistent
  /\ \A t \in Threads :
       /\ pc[t] \in {"alloc_check", "free_mark"} => (inUse[fh[t]] <=> dentry[fh[t]] # NoDentry)
       /\ pc[t] = "alloc_fill" => inUse[fh[t]] /\ dentry[fh[t]] = NoDentry
       /\ pc[t] = "free_clear" => ~inUse[fh[t]] /\ dentry[fh[t]] = d[t]

\* The inductive invariant, whatever handles the callers pass: it implies OneKeeper,
\* NoStray and SlotConsistent of every interleaving of opens, closes, reads and writes.
IInv ==
  TypeOK /\ LocalsInv /\ LockInv /\ SlotInv /\ OneKeeper /\ NoStray

\* What callers who keep their handles to themselves add: a handle being closed is
\* open and nobody's any more, a handle being read or written is its user's.
Closing(t) == pc[t] \in {"close_get", "free_get", "free_lock", "free_mark"}
Using(t) == pc[t] \in {"io_get", "io_dentry"} \/ InUse(t)

CallerInv ==
  /\ HandleIntegrity
  /\ \A t \in Threads : Closing(t) =>
       /\ fh[t] \in Slots /\ inUse[fh[t]] /\ dentry[fh[t]] # NoDentry
       /\ \A u \in Threads : \A g \in held[u] : g[1] # fh[t]
       /\ \A u \in Threads \ {t} : Closing(u) => fh[u] # fh[t]
  /\ \A t \in Threads : Using(t) => \E g \in held[t] : g[1] = fh[t]
  /\ \A t \in Threads : InUse(t) => <<fh[t], d[t]>> \in held[t]

\* And about the sizes: of a file that has seen no race, at most one write is about to
\* store, and what it has found too small is so until it does.
Storing(t) == pc[t] = "write_size" /\ d[t] \notin raced

WritesInv ==
  /\ OnlyRacesLoseSize
  /\ \A t \in Threads : Storing(t) => end[t] > size[d[t]]
  /\ \A t, u \in Threads : t # u /\ Storing(t) /\ Storing(u) => d[t] # d[u]
============================================================================
