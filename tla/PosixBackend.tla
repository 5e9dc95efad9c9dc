---------------------------- MODULE PosixBackend ----------------------------
(***************************************************************************)
(* The handles and descriptors of src/src/backends/backend_posix.c under   *)
(* concurrent callers.  A handle is an index into its backend's table, a   *)
(* table entry holds a descriptor of the host, and the host gives every    *)
(* open the lowest descriptor that is free, whichever backend asks.        *)
(*                                                                         *)
(* A step is one critical section of b->lock, which guards every use of a  *)
(* table, or one call of the host: lookup_fd, close and free_handle of one *)
(* posix_close are three steps, with those of other threads in between.    *)
(*                                                                         *)
(* Callers start reads, writes and one close of a handle after its open    *)
(* has returned and before its close begins; the close may begin while     *)
(* reads and writes are under way.  They shut a backend down when no call  *)
(* on it is in progress.  The operations that pass a path on to the host   *)
(* and leave the tables alone are left out.                                *)
(***************************************************************************)
EXTENDS Naturals

CONSTANTS
  Threads,       \* the callers
  MaxBackends,   \* MAX_BACKENDS
  InitialCap,    \* INITIAL_HANDLE_CAP
  MaxCap,        \* bound: realloc grants a table no more entries than this
  MaxFd,         \* the descriptors the host lets the process have
  MaxFailures,   \* bound: closes of the host that answer with an error
  Files,         \* the files below the backends' roots
  NoFile

ASSUME SizesAssumption == /\ MaxBackends \in Nat /\ MaxFd \in Nat /\ MaxCap \in Nat
                          /\ MaxFailures \in Nat
                          /\ InitialCap \in Nat \ {0}
ASSUME FilesAssumption == NoFile \notin Files

Backends == 1..MaxBackends
Handles == 1..MaxCap
Fds == 1..MaxFd
NoFd == 0  \* -1 in the code: in_use = 0 and fd = -1 are always stored together

VARIABLES
  up,           \* backend id -> backends[id - 1] is not NULL
  cap, entry,   \* backend id -> handle_cap; and handle -> the descriptor, or NoFd
  host,         \* descriptor -> the file it is open on, or NoFile
  pc, be, hd, fd,  \* thread -> its step, backend, handle and descriptor in hand
  file,         \* thread -> the file that its open asked for, or (history) that the handle
                \* of its close, read or write was opened for; NoFile for a read or write
                \* whose handle has been closed under it
  held,         \* history: the <<backend, handle, file>> that callers have open
  failures      \* history: how often a close of the host has answered with an error

tables == <<up, cap, entry>>
locals == <<pc, be, hd, fd, file>>
vars == <<up, cap, entry, host, pc, be, hd, fd, file, held, failures>>

Init ==
  /\ up = [b \in Backends |-> FALSE]
  /\ cap = [b \in Backends |-> 0]
  /\ entry = [b \in Backends |-> [h \in Handles |-> NoFd]]
  /\ host = [n \in Fds |-> NoFile]
  /\ pc = [t \in Threads |-> "idle"]
  /\ be = [t \in Threads |-> 0] /\ hd = [t \in Threads |-> 0]
  /\ fd = [t \in Threads |-> NoFd] /\ file = [t \in Threads |-> NoFile]
  /\ held = {} /\ failures = 0

Goto(t, label) == pc' = [pc EXCEPT ![t] = label]

\* The call returns; what the thread had in hand is forgotten.
Return(t) ==
  /\ Goto(t, "idle")
  /\ be' = [be EXCEPT ![t] = 0] /\ hd' = [hd EXCEPT ![t] = 0]
  /\ fd' = [fd EXCEPT ![t] = NoFd] /\ file' = [file EXCEPT ![t] = NoFile]

OnBackend(t, b) == pc[t] # "idle" /\ be[t] = b
Named(t) == <<be[t], hd[t], file[t]>>
Using(t, g) == pc[t] \in {"io_lookup", "io_host"} /\ Named(t) = g

----------------------------------------------------------------------------
\* posix_backend_init and posix_backend_shutdown.

\* The first free slot of backends[] (allocate_backend_slot) gets an empty table.
BackendInit(b) ==
  /\ ~up[b] /\ \A c \in Backends : ~up[c] => b <= c
  /\ up' = [up EXCEPT ![b] = TRUE]
  /\ cap' = [cap EXCEPT ![b] = 0]
  /\ UNCHANGED <<entry, host, locals, held, failures>>

InTable(b, n) == \E h \in Handles : entry[b][h] = n

\* Every descriptor in the table is closed, then the backend goes.
BackendShutdown(b) ==
  /\ up[b] /\ \A t \in Threads : ~OnBackend(t, b)
  /\ host' = [n \in Fds |-> IF InTable(b, n) THEN NoFile ELSE host[n]]
  /\ entry' = [entry EXCEPT ![b] = [h \in Handles |-> NoFd]]
  /\ up' = [up EXCEPT ![b] = FALSE]
  /\ cap' = [cap EXCEPT ![b] = 0]
  /\ held' = {g \in held : g[1] # b}
  /\ UNCHANGED <<locals, failures>>

----------------------------------------------------------------------------
\* posix_open and posix_create.

Open(t, b, f) ==
  /\ pc[t] = "idle" /\ up[b]
  /\ Goto(t, "open_host")
  /\ be' = [be EXCEPT ![t] = b]
  /\ file' = [file EXCEPT ![t] = f]
  /\ UNCHANGED <<tables, host, hd, fd, held, failures>>

\* The host opens the file on its lowest free descriptor, or has none left.
OpenHost(t) ==
  /\ pc[t] = "open_host"
  /\ \/ /\ \A n \in Fds : host[n] # NoFile
        /\ Return(t) /\ UNCHANGED host
     \/ \E n \in Fds :
          /\ host[n] = NoFile /\ \A k \in Fds : host[k] = NoFile => n <= k
          /\ host' = [host EXCEPT ![n] = file[t]]
          /\ fd' = [fd EXCEPT ![t] = n]
          /\ Goto(t, "create")
          /\ UNCHANGED <<be, hd, file>>
  /\ UNCHANGED <<tables, held, failures>>

\* The handle is stored and returned to the caller.
Grant(t, b, h) ==
  /\ entry' = [entry EXCEPT ![b][h] = fd[t]]
  /\ held' = held \cup {<<b, h, file[t]>>}
  /\ Return(t)

\* Mutant: the scan goes one entry too far.
FreeInAndNext(b) == {h \in Handles : h <= cap[b] + 1 /\ entry[b][h] = NoFd}

FreeIn(b) == {h \in Handles : h <= cap[b] /\ entry[b][h] = NoFd}
GrownCap(c) == IF c = 0 THEN InitialCap ELSE 2 * c

\* Mutant: a full table hands its last entry out again.
CreateHandleReuses(t) ==
  /\ pc[t] = "create"
  /\ \/ \E h \in FreeIn(be[t]) : Grant(t, be[t], h) /\ UNCHANGED cap
     \/ FreeIn(be[t]) = {} /\ cap[be[t]] # 0 /\ Grant(t, be[t], cap[be[t]]) /\ UNCHANGED cap
     \/ FreeIn(be[t]) = {} /\ cap[be[t]] = 0 /\ Grant(t, be[t], 1)
        /\ cap' = [cap EXCEPT ![be[t]] = InitialCap]
  /\ UNCHANGED <<up, host, failures>>

\* create_handle: the first free entry; or the first new one of a table that
\* ensure_handle_capacity has doubled; or -ENOMEM, when realloc fails.
CreateHandle(t) ==
  /\ pc[t] = "create"
  /\ \/ \E h \in FreeIn(be[t]) :
          /\ \A k \in FreeIn(be[t]) : h <= k
          /\ Grant(t, be[t], h)
          /\ UNCHANGED cap
     \/ /\ FreeIn(be[t]) = {} /\ GrownCap(cap[be[t]]) <= MaxCap
        /\ cap' = [cap EXCEPT ![be[t]] = GrownCap(@)]
        /\ Grant(t, be[t], cap[be[t]] + 1)
     \/ /\ FreeIn(be[t]) = {}
        /\ Goto(t, "drop")
        /\ UNCHANGED <<cap, entry, held, be, hd, fd, file>>
  /\ UNCHANGED <<up, host, failures>>

\* Mutant: the call returns without closing what it has opened.
DropFdForgets(t) ==
  /\ pc[t] = "drop"
  /\ Return(t)
  /\ UNCHANGED <<tables, host, held, failures>>

\* No handle for it: the descriptor is closed again.
DropFd(t) ==
  /\ pc[t] = "drop"
  /\ host' = [host EXCEPT ![fd[t]] = NoFile]
  /\ Return(t)
  /\ UNCHANGED <<tables, held, failures>>

----------------------------------------------------------------------------
\* posix_close.

\* Reads and writes of the handle that are under way can count on their file no longer.
Close(t, g) ==
  /\ pc[t] = "idle" /\ g \in held
  /\ held' = held \ {g}
  /\ Goto(t, "close_lookup")
  /\ be' = [be EXCEPT ![t] = g[1]] /\ hd' = [hd EXCEPT ![t] = g[2]]
  /\ file' = [u \in Threads |-> IF u = t THEN g[3] ELSE IF Using(u, g) THEN NoFile ELSE file[u]]
  /\ UNCHANGED <<tables, host, fd, failures>>

\* Mutant: the handle is taken for the index of its entry, one too high.
LookupNext(t, from, to) ==
  LET h == IF hd[t] < cap[be[t]] THEN hd[t] + 1 ELSE hd[t]
  IN  /\ pc[t] = from
      /\ IF entry[be[t]][h] = NoFd
         THEN Return(t)
         ELSE /\ fd' = [fd EXCEPT ![t] = entry[be[t]][h]]
              /\ Goto(t, to)
              /\ UNCHANGED <<be, hd, file>>
      /\ UNCHANGED <<tables, host, held, failures>>

\* lookup_fd: -EBADF, or the descriptor is in hand and the lock is released.
Lookup(t, from, to) ==
  /\ pc[t] = from
  /\ IF hd[t] > cap[be[t]] \/ entry[be[t]][hd[t]] = NoFd
     THEN Return(t)
     ELSE /\ fd' = [fd EXCEPT ![t] = entry[be[t]][hd[t]]]
          /\ Goto(t, to)
          /\ UNCHANGED <<be, hd, file>>
  /\ UNCHANGED <<tables, host, held, failures>>

CloseLookup(t) == Lookup(t, "close_lookup", "close_host")

\* The host closes the descriptor. It answers with an error if the descriptor is not open
\* (EBADF), and may do so when it is, though it is gone then (close(2): EIO, EINTR); on
\* an error posix_close returns and leaves the entry in use.
CloseHost(t) ==
  /\ pc[t] = "close_host"
  /\ host' = [host EXCEPT ![fd[t]] = NoFile]
  /\ \/ host[fd[t]] # NoFile /\ Goto(t, "free_handle") /\ UNCHANGED <<be, hd, fd, file, failures>>
     \/ host[fd[t]] # NoFile /\ failures < MaxFailures /\ Return(t) /\ failures' = failures + 1
     \/ host[fd[t]] = NoFile /\ Return(t) /\ UNCHANGED failures
  /\ UNCHANGED <<tables, held>>

FreeHandle(t) ==
  /\ pc[t] = "free_handle"
  /\ entry' = [entry EXCEPT ![be[t]][hd[t]] = NoFd]
  /\ Return(t)
  /\ UNCHANGED <<up, cap, host, held, failures>>

----------------------------------------------------------------------------
\* posix_read and posix_write.

Io(t, g) ==
  /\ pc[t] = "idle" /\ g \in held
  /\ Goto(t, "io_lookup")
  /\ be' = [be EXCEPT ![t] = g[1]] /\ hd' = [hd EXCEPT ![t] = g[2]]
  /\ file' = [file EXCEPT ![t] = g[3]]
  /\ UNCHANGED <<tables, host, fd, held, failures>>

IoLookup(t) == Lookup(t, "io_lookup", "io_host")

\* pread or pwrite on the descriptor, whatever it is open on by now.
IoHost(t) ==
  /\ pc[t] = "io_host"
  /\ Return(t)
  /\ UNCHANGED <<tables, host, held, failures>>

----------------------------------------------------------------------------

Next ==
  \/ \E b \in Backends : BackendInit(b) \/ BackendShutdown(b)
  \/ \E t \in Threads, b \in Backends, f \in Files : Open(t, b, f)
  \/ \E t \in Threads : \E g \in held : Close(t, g) \/ Io(t, g)
  \/ \E t \in Threads :
       \/ OpenHost(t) \/ CreateHandle(t) \/ DropFd(t)
       \/ CloseLookup(t) \/ CloseHost(t) \/ FreeHandle(t)
       \/ IoLookup(t) \/ IoHost(t)

Spec == Init /\ [][Next]_vars

----------------------------------------------------------------------------
\* Properties.

Labels == {"idle", "open_host", "create", "drop", "close_lookup", "close_host",
           "free_handle", "io_lookup", "io_host"}

TablesOK ==
  /\ up \in [Backends -> BOOLEAN]
  /\ cap \in [Backends -> 0..MaxCap]
  /\ entry \in [Backends -> [Handles -> Fds \cup {NoFd}]]
  /\ \A b \in Backends : ~up[b] => cap[b] = 0
  /\ \A b \in Backends, h \in Handles : h > cap[b] => entry[b][h] = NoFd

ThreadsOK ==
  /\ pc \in [Threads -> Labels]
  /\ be \in [Threads -> Backends \cup {0}]
  /\ hd \in [Threads -> Handles \cup {0}]
  /\ fd \in [Threads -> Fds \cup {NoFd}]
  /\ file \in [Threads -> Files \cup {NoFile}]

\* The type invariant of the tables, the host's descriptors and the threads' locals; no
\* entry above handle_cap is in use, and a backend that is down has no table.
TypeOK ==
  /\ TablesOK /\ ThreadsOK
  /\ host \in [Fds -> Files \cup {NoFile}]
  /\ held \subseteq Backends \X Handles \X Files
  /\ failures \in 0..MaxFailures

\* A handle keeps naming the file it was opened for until its close begins, while other
\* threads close theirs in three steps, the host gives their descriptors out again, and
\* the table grows; as long as no close of the host has failed.
HandleKeepsFile ==
  failures = 0 => \A g \in held : entry[g[1]][g[2]] \in Fds /\ host[entry[g[1]][g[2]]] = g[3]

\* A close uses its descriptor after it has released the lock, and so does a read or
\* write: unless the handle of the read or write has been closed under it, what the host
\* gets is a descriptor open on the file that the handle was opened for, whichever other
\* handles are opened and closed meanwhile; as long as no close of the host has failed.
DescriptorStillValid ==
  failures = 0 => \A t \in Threads :
    pc[t] = "close_host" \/ (pc[t] = "io_host" /\ file[t] # NoFile) => host[fd[t]] = file[t]

\* No descriptor is lost: each one that is open is in the table of a backend, where a
\* shutdown will find it, or in the hand of the open that is making a handle for it;
\* after failed opens and failed closes too.
FdsAccounted ==
  \A n \in Fds : host[n] # NoFile =>
    \/ \E b \in Backends : up[b] /\ InTable(b, n)
    \/ \E t \in Threads : pc[t] \in {"create", "drop"} /\ fd[t] = n
----------------------------------------------------------------------------
\* The inductive invariant behind the properties above.

Closing(t) == pc[t] \in {"close_lookup", "close_host", "free_handle"}
Reading(t) == pc[t] \in {"io_lookup", "io_host"} /\ file[t] # NoFile
InHand(t) == pc[t] \in {"create", "drop"}

\* The close has not reached the host yet.
Ending(t) == pc[t] \in {"close_lookup", "close_host"}

\* The handles that name their file: open for callers, or in a close that has only begun.
InUse == held \cup {Named(t) : t \in {u \in Threads : Ending(u)}}

\* The entry is in use, but its descriptor has been given back to the host.
Gone(b, h) == \E t \in Threads : pc[t] = "free_handle" /\ be[t] = b /\ hd[t] = h

\* What a thread's step says of what it has in hand.
LocalsInv ==
  \A t \in Threads :
    /\ pc[t] # "idle" => be[t] \in Backends /\ up[be[t]]
    /\ pc[t] = "open_host" \/ InHand(t) \/ Ending(t) => file[t] \in Files
    /\ InHand(t) => fd[t] \in Fds
    /\ Closing(t) \/ pc[t] \in {"io_lookup", "io_host"} => hd[t] \in Handles
    /\ Closing(t) \/ Reading(t) => entry[be[t]][hd[t]] # NoFd
    /\ pc[t] \in {"close_host", "free_handle"} \/ (pc[t] = "io_host" /\ Reading(t)) =>
         fd[t] = entry[be[t]][hd[t]]

\* Each handle in use is open for callers, or being closed by one of them, or neither.
CallersInv ==
  /\ \A g \in held : /\ up[g[1]] /\ entry[g[1]][g[2]] # NoFd
                     /\ \A t \in Threads : Closing(t) => ~(be[t] = g[1] /\ hd[t] = g[2])
                     /\ \A k \in held : k[1] = g[1] /\ k[2] = g[2] => k = g
  /\ \A t \in Threads : Reading(t) => Named(t) \in held
  /\ \A t, u \in Threads :
       t # u /\ Closing(t) /\ Closing(u) => be[t] # be[u] \/ hd[t] # hd[u]

\* The entry holds a descriptor that the host still has open for it.
Live(b, h) == entry[b][h] # NoFd /\ ~Gone(b, h)

EntriesOwn ==
  \A b \in Backends, h \in Handles : Live(b, h) =>
    /\ host[entry[b][h]] # NoFile
    /\ \A c \in Backends, k \in Handles :
         Live(c, k) /\ entry[c][k] = entry[b][h] => b = c /\ h = k
    /\ \A t \in Threads : InHand(t) => fd[t] # entry[b][h]

HandsOwn ==
  \A t \in Threads : InHand(t) =>
    /\ host[fd[t]] = file[t]
    /\ \A u \in Threads : InHand(u) /\ fd[u] = fd[t] => u = t

\* Who has which descriptor: each one is in at most one entry or in one thread's hand,
\* and open there; until a close of the host has failed.
OwnersInv ==
  failures = 0 =>
    /\ EntriesOwn /\ HandsOwn
    /\ \A g \in InUse : host[entry[g[1]][g[2]]] = g[3]

\* Every open descriptor has an owner.
AccountedInv ==
  \A n \in Fds : host[n] # NoFile =>
    \/ \E b \in Backends, h \in Handles : Live(b, h) /\ entry[b][h] = n
    \/ \E t \in Threads : InHand(t) /\ fd[t] = n

IInv == TypeOK /\ LocalsInv /\ CallersInv /\ OwnersInv /\ AccountedInv
=============================================================================
