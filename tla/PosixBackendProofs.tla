-------------------------- MODULE PosixBackendProofs --------------------------
(***************************************************************************)
(* Proofs about PosixBackend, for any callers, any number of backends, any *)
(* supply of descriptors and any growth of the tables.  The invariant IInv *)
(* is inductive layer by layer: what each thread has in hand, then who may *)
(* use a handle, then who has a descriptor.                                *)
(***************************************************************************)
EXTENDS PosixBackend, TLAPS

USE FilesAssumption

\* What the rest needs of numbers: 0 is nobody's backend, handle or descriptor.
LEMMA Domains == /\ 0 \notin Backends /\ 0 \notin Handles /\ NoFd \notin Fds
                 /\ 0 \in 0..MaxCap /\ 0 \in 0..MaxFailures
BY SizesAssumption DEF Backends, Handles, Fds, NoFd

\* A table only grows, and its first new entry is one of the handles.
LEMMA Grows == ASSUME NEW c \in 0..MaxCap, GrownCap(c) <= MaxCap
               PROVE  GrownCap(c) \in 0..MaxCap /\ GrownCap(c) >= c + 1 /\ c + 1 \in Handles
BY SizesAssumption DEF GrownCap, Handles


\* A lookup takes the descriptor of its entry, or returns when the entry is not in use.
LEMMA LookupEffect ==
  ASSUME TypeOK, LocalsInv, NEW t \in Threads, NEW from, NEW to, Lookup(t, from, to),
         from \in {"close_lookup", "io_lookup"}
  PROVE  /\ be[t] \in Backends /\ hd[t] \in Handles
         /\ pc[t] = from
         /\ UNCHANGED <<tables, host, held, failures>>
         /\ \/ entry[be[t]][hd[t]] = NoFd /\ Return(t)
            \/ /\ entry[be[t]][hd[t]] \in Fds
               /\ Goto(t, to)
               /\ fd' = [fd EXCEPT ![t] = entry[be[t]][hd[t]]]
               /\ UNCHANGED <<be, hd, file>>
<1>1. be[t] \in Backends /\ hd[t] \in Handles
  BY Domains DEF LocalsInv, Closing, Lookup
<1>2. hd[t] > cap[be[t]] => entry[be[t]][hd[t]] = NoFd
  BY <1>1 DEF TypeOK, TablesOK
<1>3. entry[be[t]][hd[t]] # NoFd => entry[be[t]][hd[t]] \in Fds
  BY <1>1 DEF TypeOK, TablesOK
<1> QED BY <1>1, <1>2, <1>3 DEF Lookup

\* The lookup of a close finds the descriptor.
LEMMA LookupFinds ==
  ASSUME TypeOK, LocalsInv, NEW t \in Threads, CloseLookup(t)
  PROVE  /\ be[t] \in Backends /\ hd[t] \in Handles /\ entry[be[t]][hd[t]] \in Fds
         /\ pc[t] = "close_lookup" /\ Goto(t, "close_host")
         /\ fd' = [fd EXCEPT ![t] = entry[be[t]][hd[t]]]
         /\ UNCHANGED <<tables, be, hd, file, host, held, failures>>
<1>1. pc[t] = "close_lookup"
  BY DEF CloseLookup, Lookup
<1>2. entry[be[t]][hd[t]] # NoFd
  BY <1>1 DEF LocalsInv, Closing
<1> QED BY <1>1, <1>2, LookupEffect DEF CloseLookup

\* That of a read or write finds the descriptor of its entry, or there is none any more.
LEMMA IoLookupEffect ==
  ASSUME TypeOK, LocalsInv, NEW t \in Threads, IoLookup(t)
  PROVE  /\ pc[t] = "io_lookup" /\ be[t] \in Backends /\ hd[t] \in Handles
         /\ UNCHANGED <<tables, host, held, failures>>
         /\ \/ Return(t)
            \/ /\ Goto(t, "io_host") /\ entry[be[t]][hd[t]] \in Fds
               /\ fd' = [fd EXCEPT ![t] = entry[be[t]][hd[t]]]
               /\ UNCHANGED <<be, hd, file>>
BY LookupEffect DEF IoLookup

\* A close takes the handle away from the callers; a read or write of it is told so.
LEMMA CloseEffect ==
  ASSUME TypeOK, LocalsInv, CallersInv, NEW t \in Threads, NEW g \in held, Close(t, g)
  PROVE  /\ g[1] \in Backends /\ g[2] \in Handles /\ g[3] \in Files
         /\ up[g[1]] /\ entry[g[1]][g[2]] # NoFd
         /\ pc[t] = "idle" /\ held' = held \ {g}
         /\ UNCHANGED <<tables, host, fd, failures>>
         /\ pc'[t] = "close_lookup" /\ Named(t)' = g
         /\ be'[t] = g[1] /\ hd'[t] = g[2] /\ file'[t] = g[3]
         /\ \A u \in Threads : u # t =>
              /\ pc'[u] = pc[u] /\ be'[u] = be[u] /\ hd'[u] = hd[u]
              /\ file'[u] = IF Using(u, g) THEN NoFile ELSE file[u]
         /\ \A u \in Threads : u # t /\ Reading(u)' => Reading(u) /\ file'[u] = file[u] /\ Named(u) # g
<1>1. g[1] \in Backends /\ g[2] \in Handles /\ g[3] \in Files /\ g = <<g[1], g[2], g[3]>>
  BY DEF TypeOK
<1>2. up[g[1]] /\ entry[g[1]][g[2]] # NoFd
  BY DEF CallersInv
<1>3. /\ pc[t] = "idle" /\ held' = held \ {g} /\ UNCHANGED <<tables, host, fd, failures>>
      /\ pc'[t] = "close_lookup" /\ be'[t] = g[1] /\ hd'[t] = g[2] /\ file'[t] = g[3]
      /\ \A u \in Threads : u # t =>
           /\ pc'[u] = pc[u] /\ be'[u] = be[u] /\ hd'[u] = hd[u]
           /\ file'[u] = IF Using(u, g) THEN NoFile ELSE file[u]
  BY DEF Close, Goto, TypeOK, ThreadsOK
<1>4. ASSUME NEW u \in Threads, u # t, Reading(u)' PROVE Reading(u) /\ file'[u] = file[u] /\ Named(u) # g
  BY <1>3, <1>4 DEF Reading, Using
<1> QED BY <1>1, <1>2, <1>3, <1>4 DEF Named

\* The host gives a descriptor that is not open, or none.
LEMMA OpenHostEffect ==
  ASSUME NEW t \in Threads, OpenHost(t)
  PROVE  /\ pc[t] = "open_host" /\ UNCHANGED <<tables, held, failures>>
         /\ \/ Return(t) /\ UNCHANGED host
            \/ \E n \in Fds :
                 /\ host[n] = NoFile
                 /\ host' = [host EXCEPT ![n] = file[t]]
                 /\ fd' = [fd EXCEPT ![t] = n]
                 /\ Goto(t, "create")
                 /\ UNCHANGED <<be, hd, file>>
BY DEF OpenHost

\* create_handle takes an entry that is not in use, or gives up.
LEMMA CreateEffect ==
  ASSUME TypeOK, LocalsInv, NEW t \in Threads, CreateHandle(t)
  PROVE  /\ pc[t] = "create" /\ be[t] \in Backends /\ up[be[t]]
         /\ UNCHANGED <<up, host, failures>>
         /\ cap' \in [Backends -> 0..MaxCap]
         /\ \A b \in Backends : cap'[b] >= cap[b] /\ (b # be[t] => cap'[b] = cap[b])
         /\ \/ \E h \in Handles : /\ entry[be[t]][h] = NoFd /\ ~(h > cap'[be[t]])
                                  /\ Grant(t, be[t], h)
            \/ Goto(t, "drop") /\ UNCHANGED <<cap, entry, held, be, hd, fd, file>>
<1>1. pc[t] = "create" /\ be[t] \in Backends /\ up[be[t]] /\ UNCHANGED <<up, host, failures>>
  BY DEF CreateHandle, LocalsInv
<1>2. cap \in [Backends -> 0..MaxCap] /\ \A b \in Backends : cap[b] >= cap[b]
  BY SizesAssumption DEF TypeOK, TablesOK
<1>3. CASE \E h \in FreeIn(be[t]) : Grant(t, be[t], h) /\ UNCHANGED cap
  BY <1>1, <1>2, <1>3, SizesAssumption DEF FreeIn, Handles
<1>4. CASE /\ GrownCap(cap[be[t]]) <= MaxCap
           /\ cap' = [cap EXCEPT ![be[t]] = GrownCap(@)]
           /\ Grant(t, be[t], cap[be[t]] + 1)
  <2>1. cap[be[t]] \in 0..MaxCap
    BY <1>1, <1>2
  <2>2. /\ GrownCap(cap[be[t]]) \in 0..MaxCap /\ cap[be[t]] + 1 \in Handles
        /\ GrownCap(cap[be[t]]) >= cap[be[t]] + 1
    BY <1>4, <2>1, Grows
  <2>3. entry[be[t]][cap[be[t]] + 1] = NoFd
    BY <1>1, <2>1, <2>2 DEF TypeOK, TablesOK
  <2>4. /\ cap' \in [Backends -> 0..MaxCap] /\ cap'[be[t]] = GrownCap(cap[be[t]])
        /\ \A b \in Backends : b # be[t] => cap'[b] = cap[b]
    BY <1>1, <1>2, <1>4, <2>2
  <2>5. \A b \in Backends : cap'[b] >= cap[b]
    BY <1>2, <2>1, <2>2, <2>4, SizesAssumption
  <2>6. ~(cap[be[t]] + 1 > cap'[be[t]])
    BY <2>1, <2>2, <2>4, SizesAssumption
  <2> QED BY <1>1, <1>4, <2>2, <2>3, <2>4, <2>5, <2>6
<1>5. CASE Goto(t, "drop") /\ UNCHANGED <<cap, entry, held, be, hd, fd, file>>
  BY <1>1, <1>2, <1>5
<1> QED BY <1>3, <1>4, <1>5 DEF CreateHandle

----------------------------------------------------------------------------
\* Layer 1: types and locals.

\* The initial state is well typed.
LEMMA TypeInit == Init => TypeOK /\ LocalsInv
BY Domains DEF Init, TypeOK, TablesOK, ThreadsOK, LocalsInv, Closing, Reading, Ending, InHand, Labels

\* Every step keeps the types of the locals.
LEMMA ThreadsStep == TypeOK /\ LocalsInv /\ [Next]_vars => ThreadsOK'
<1> SUFFICES ASSUME TypeOK, LocalsInv, [Next]_vars PROVE ThreadsOK'
  OBVIOUS
<1> USE Domains DEF TypeOK, TablesOK, ThreadsOK, Labels, Goto, Return, tables, locals
<1>1. ASSUME NEW b \in Backends, BackendInit(b) PROVE ThreadsOK'
  BY <1>1 DEF BackendInit
<1>2. ASSUME NEW b \in Backends, BackendShutdown(b) PROVE ThreadsOK'
  BY <1>2 DEF BackendShutdown, OnBackend
<1>3. ASSUME NEW t \in Threads, NEW b \in Backends, NEW f \in Files, Open(t, b, f) PROVE ThreadsOK'
  BY <1>3 DEF Open
<1>4. ASSUME NEW t \in Threads, NEW g \in held, Close(t, g) PROVE ThreadsOK'
  <2>1. g[1] \in Backends /\ g[2] \in Handles /\ g[3] \in Files
    OBVIOUS
  <2>2. file' \in [Threads -> Files \cup {NoFile}]
    BY <1>4, <2>1 DEF Close
  <2> QED BY <1>4, <2>1, <2>2 DEF Close
<1>5. ASSUME NEW t \in Threads, NEW g \in held, Io(t, g) PROVE ThreadsOK'
  BY <1>5 DEF Io
<1>6. ASSUME NEW t \in Threads, OpenHost(t) PROVE ThreadsOK'
  <2>1. CASE Return(t)
    BY <2>1
  <2>2. CASE \E n \in Fds : fd' = [fd EXCEPT ![t] = n] /\ Goto(t, "create") /\ UNCHANGED <<be, hd, file>>
    BY <2>2
  <2> QED BY <1>6, <2>1, <2>2 DEF OpenHost
<1>7. ASSUME NEW t \in Threads, CreateHandle(t) PROVE ThreadsOK'
  <2>1. CASE Return(t)
    BY <2>1
  <2>2. CASE Goto(t, "drop") /\ UNCHANGED <<be, hd, fd, file>>
    BY <2>2
  <2> QED BY <1>7, <2>1, <2>2 DEF CreateHandle, Grant
<1>8. ASSUME NEW t \in Threads, DropFd(t) PROVE ThreadsOK'
  BY <1>8 DEF DropFd
<1>9. ASSUME NEW t \in Threads, CloseLookup(t) PROVE ThreadsOK'
  <2>1. \E n \in Fds : fd' = [fd EXCEPT ![t] = n] /\ Goto(t, "close_host") /\ UNCHANGED <<be, hd, file>>
    BY <1>9, LookupFinds
  <2> QED BY <2>1
<1>10. ASSUME NEW t \in Threads, CloseHost(t) PROVE ThreadsOK'
  BY <1>10 DEF CloseHost
<1>11. ASSUME NEW t \in Threads, FreeHandle(t) PROVE ThreadsOK'
  BY <1>11 DEF FreeHandle
<1>12. ASSUME NEW t \in Threads, IoLookup(t) PROVE ThreadsOK'
  <2>1. CASE Return(t)
    BY <2>1
  <2>2. CASE \E n \in Fds : fd' = [fd EXCEPT ![t] = n] /\ Goto(t, "io_host") /\ UNCHANGED <<be, hd, file>>
    BY <2>2
  <2> QED BY <1>12, <2>1, <2>2, IoLookupEffect
<1>13. ASSUME NEW t \in Threads, IoHost(t) PROVE ThreadsOK'
  BY <1>13 DEF IoHost
<1>14. CASE UNCHANGED vars
  BY <1>14 DEF vars
<1> QED
  BY <1>1, <1>2, <1>3, <1>4, <1>5, <1>6, <1>7, <1>8, <1>9, <1>10, <1>11, <1>12, <1>13, <1>14 DEF Next

\* Every step keeps the types of the tables, and entries below their capacity.
LEMMA TablesStep == TypeOK /\ LocalsInv /\ [Next]_vars => TablesOK'
<1> SUFFICES ASSUME TypeOK, LocalsInv, [Next]_vars PROVE TablesOK'
  OBVIOUS
<1> USE Domains DEF TypeOK, TablesOK, tables, NoFd
<1>1. ASSUME NEW b \in Backends, BackendInit(b) PROVE TablesOK'
  BY <1>1 DEF BackendInit
<1>2. ASSUME NEW b \in Backends, BackendShutdown(b) PROVE TablesOK'
  BY <1>2 DEF BackendShutdown, OnBackend
<1>3. ASSUME NEW t \in Threads, NEW b \in Backends, NEW f \in Files, Open(t, b, f) PROVE TablesOK'
  BY <1>3 DEF Open
<1>4. ASSUME NEW t \in Threads, NEW g \in held, Close(t, g) PROVE TablesOK'
  BY <1>4 DEF Close
<1>5. ASSUME NEW t \in Threads, NEW g \in held, Io(t, g) PROVE TablesOK'
  BY <1>5 DEF Io
<1>6. ASSUME NEW t \in Threads, OpenHost(t) PROVE TablesOK'
  BY <1>6, OpenHostEffect
<1>7. ASSUME NEW t \in Threads, CreateHandle(t) PROVE TablesOK'
  <2>1. CASE Goto(t, "drop") /\ UNCHANGED <<cap, entry, held, be, hd, fd, file>>
    BY <1>7, <2>1, CreateEffect
  <2>2. ASSUME NEW h \in Handles, entry[be[t]][h] = NoFd, ~(h > cap'[be[t]]), Grant(t, be[t], h)
        PROVE  TablesOK'
    <3>1. be[t] \in Backends /\ up[be[t]] /\ fd[t] \in Fds
      BY <1>7, CreateEffect DEF LocalsInv, InHand
    <3>2. entry' \in [Backends -> [Handles -> Fds \cup {NoFd}]]
      BY <2>2, <3>1 DEF Grant
    <3>3. \A b \in Backends : ~up'[b] => cap'[b] = 0
      BY <1>7, <3>1, CreateEffect
    <3>4. ASSUME NEW b \in Backends, NEW k \in Handles, k > cap'[b] PROVE entry'[b][k] = NoFd
      <4>1. k > cap[b]
        BY <3>4, <1>7, CreateEffect, SizesAssumption DEF Handles
      <4>2. entry[b][k] = NoFd /\ ~(b = be[t] /\ k = h)
        BY <2>2, <3>4, <4>1
      <4> QED BY <2>2, <3>1, <4>2 DEF Grant
    <3> QED BY <1>7, <3>2, <3>3, <3>4, CreateEffect
  <2> QED BY <1>7, <2>1, <2>2, CreateEffect
<1>8. ASSUME NEW t \in Threads, DropFd(t) PROVE TablesOK'
  BY <1>8 DEF DropFd
<1>9. ASSUME NEW t \in Threads, CloseLookup(t) PROVE TablesOK'
  BY <1>9, LookupFinds
<1>10. ASSUME NEW t \in Threads, CloseHost(t) PROVE TablesOK'
  BY <1>10 DEF CloseHost
<1>11. ASSUME NEW t \in Threads, FreeHandle(t) PROVE TablesOK'
  BY <1>11 DEF FreeHandle
<1>12. ASSUME NEW t \in Threads, IoLookup(t) PROVE TablesOK'
  BY <1>12, IoLookupEffect
<1>13. ASSUME NEW t \in Threads, IoHost(t) PROVE TablesOK'
  BY <1>13 DEF IoHost
<1>14. CASE UNCHANGED vars
  BY <1>14 DEF vars
<1> QED
  BY <1>1, <1>2, <1>3, <1>4, <1>5, <1>6, <1>7, <1>8, <1>9, <1>10, <1>11, <1>12, <1>13, <1>14 DEF Next

\* Every step keeps all types.
LEMMA TypeStep == TypeOK /\ LocalsInv /\ [Next]_vars => TypeOK'
<1> SUFFICES ASSUME TypeOK, LocalsInv, [Next]_vars PROVE TypeOK'
  OBVIOUS
<1> USE Domains, ThreadsStep, TablesStep DEF TypeOK, ThreadsOK
<1>1. ASSUME NEW b \in Backends, BackendInit(b) PROVE TypeOK'
  BY <1>1 DEF BackendInit
<1>2. ASSUME NEW b \in Backends, BackendShutdown(b) PROVE TypeOK'
  BY <1>2 DEF BackendShutdown, OnBackend
<1>3. ASSUME NEW t \in Threads, NEW b \in Backends, NEW f \in Files, Open(t, b, f) PROVE TypeOK'
  BY <1>3 DEF Open
<1>4. ASSUME NEW t \in Threads, NEW g \in held, Close(t, g) PROVE TypeOK'
  BY <1>4 DEF Close
<1>5. ASSUME NEW t \in Threads, NEW g \in held, Io(t, g) PROVE TypeOK'
  BY <1>5 DEF Io
<1>6. ASSUME NEW t \in Threads, OpenHost(t) PROVE TypeOK'
  BY <1>6, OpenHostEffect DEF LocalsInv
<1>7. ASSUME NEW t \in Threads, CreateHandle(t) PROVE TypeOK'
  BY <1>7, CreateEffect DEF Grant, LocalsInv, InHand
<1>8. ASSUME NEW t \in Threads, DropFd(t) PROVE TypeOK'
  BY <1>8 DEF DropFd
<1>9. ASSUME NEW t \in Threads, CloseLookup(t) PROVE TypeOK'
  BY <1>9, LookupFinds
<1>10. ASSUME NEW t \in Threads, CloseHost(t) PROVE TypeOK'
  <2>1. failures' \in 0..MaxFailures
    BY <1>10, SizesAssumption DEF CloseHost
  <2>2. host' \in [Fds -> Files \cup {NoFile}] /\ held' \subseteq Backends \X Handles \X Files
    BY <1>10 DEF CloseHost
  <2> QED BY <2>1, <2>2
<1>11. ASSUME NEW t \in Threads, FreeHandle(t) PROVE TypeOK'
  BY <1>11 DEF FreeHandle
<1>12. ASSUME NEW t \in Threads, IoLookup(t) PROVE TypeOK'
  BY <1>12, IoLookupEffect
<1>13. ASSUME NEW t \in Threads, IoHost(t) PROVE TypeOK'
  BY <1>13 DEF IoHost
<1>14. CASE UNCHANGED vars
  BY <1>14 DEF vars
<1> QED
  BY <1>1, <1>2, <1>3, <1>4, <1>5, <1>6, <1>7, <1>8, <1>9, <1>10, <1>11, <1>12, <1>13, <1>14 DEF Next

\* Every step leaves each thread with what its own next step needs.
LEMMA LocalsStep == TypeOK /\ LocalsInv /\ CallersInv /\ [Next]_vars => LocalsInv'
<1> SUFFICES ASSUME TypeOK, LocalsInv, CallersInv, [Next]_vars PROVE LocalsInv'
  OBVIOUS
<1> USE Domains DEF TypeOK, TablesOK, ThreadsOK, Labels, LocalsInv, CallersInv, Closing, Reading, Ending, Named, InHand, Goto, Return, tables, locals
<1>1. ASSUME NEW b \in Backends, BackendInit(b) PROVE LocalsInv'
  BY <1>1 DEF BackendInit
<1>2. ASSUME NEW b \in Backends, BackendShutdown(b) PROVE LocalsInv'
  BY <1>2 DEF BackendShutdown, OnBackend
<1>3. ASSUME NEW t \in Threads, NEW b \in Backends, NEW f \in Files, Open(t, b, f) PROVE LocalsInv'
  <2>1. ASSUME NEW u \in Threads, u # t PROVE pc'[u] = pc[u] /\ be'[u] = be[u] /\ hd'[u] = hd[u] /\ fd'[u] = fd[u] /\ file'[u] = file[u]
    BY <1>3, <2>1 DEF Open
  <2>2. pc'[t] = "open_host" /\ be'[t] = b /\ hd'[t] = hd[t] /\ file'[t] = f
    BY <1>3 DEF Open
  <2>3. UNCHANGED <<up, entry>> /\ up[b]
    BY <1>3 DEF Open
  <2> HIDE DEF TypeOK, TablesOK, ThreadsOK, CallersInv, Goto, Return
  <2> QED BY <2>1, <2>2, <2>3
<1>4. ASSUME NEW t \in Threads, NEW g \in held, Close(t, g) PROVE LocalsInv'
  <2> HIDE DEF TypeOK, TablesOK, ThreadsOK, CallersInv, Goto, Return
  <2>1. /\ UNCHANGED <<up, cap, entry, fd>>
        /\ pc'[t] = "close_lookup" /\ be'[t] = g[1] /\ hd'[t] = g[2] /\ file'[t] = g[3]
        /\ g[1] \in Backends /\ g[2] \in Handles /\ g[3] \in Files
        /\ up[g[1]] /\ entry[g[1]][g[2]] # NoFd
    BY <1>4, CloseEffect DEF tables
  <2>2. ASSUME NEW u \in Threads, u # t
        PROVE  /\ pc'[u] = pc[u] /\ be'[u] = be[u] /\ hd'[u] = hd[u]
               /\ pc[u] \in {"io_lookup", "io_host"} \/ file'[u] = file[u]
               /\ Reading(u)' => Reading(u)
    BY <1>4, <2>2, CloseEffect DEF Using
  <2> QED BY <2>1, <2>2
<1>5. ASSUME NEW t \in Threads, NEW g \in held, Io(t, g) PROVE LocalsInv'
  BY <1>5 DEF Io
<1>6. ASSUME NEW t \in Threads, OpenHost(t) PROVE LocalsInv'
  BY <1>6, OpenHostEffect
<1>7. ASSUME NEW t \in Threads, CreateHandle(t) PROVE LocalsInv'
  <2>1. CASE Goto(t, "drop") /\ UNCHANGED <<cap, entry, held, be, hd, fd, file>>
    BY <1>7, <2>1, CreateEffect
  <2>2. ASSUME NEW h \in Handles, entry[be[t]][h] = NoFd, Grant(t, be[t], h) PROVE LocalsInv'
    <3>1. \A c \in Backends, k \in Handles : entry[c][k] # NoFd => entry'[c][k] = entry[c][k]
      BY <2>2 DEF Grant
    <3>2. pc'[t] = "idle" /\ \A u \in Threads : u # t =>
            pc'[u] = pc[u] /\ be'[u] = be[u] /\ hd'[u] = hd[u] /\ fd'[u] = fd[u] /\ file'[u] = file[u]
      BY <2>2 DEF Grant
    <3>3. up' = up
      BY <1>7, CreateEffect
    <3> HIDE DEF Return, Goto
    <3> QED BY <3>1, <3>2, <3>3
  <2> QED BY <1>7, <2>1, <2>2, CreateEffect
<1>8. ASSUME NEW t \in Threads, DropFd(t) PROVE LocalsInv'
  BY <1>8 DEF DropFd
<1>9. ASSUME NEW t \in Threads, CloseLookup(t) PROVE LocalsInv'
  BY <1>9, LookupFinds
<1>10. ASSUME NEW t \in Threads, CloseHost(t) PROVE LocalsInv'
  BY <1>10 DEF CloseHost
<1>11. ASSUME NEW t \in Threads, FreeHandle(t) PROVE LocalsInv'
  <2>1. ASSUME NEW u \in Threads, u # t, Closing(u) \/ Reading(u) PROVE be[u] # be[t] \/ hd[u] # hd[t]
    <3> HIDE DEF TypeOK, TablesOK, ThreadsOK, LocalsInv, Goto, Return
    <3>1. Closing(t)
      BY <1>11 DEF FreeHandle
    <3>2. CASE Closing(u)
      BY <2>1, <3>1, <3>2
    <3>3. CASE Reading(u)
      <4>1. <<be[u], hd[u], file[u]>> \in held
        BY <3>3
      <4> QED BY <3>1, <4>1
    <3> QED BY <2>1, <3>2, <3>3
  <2>2. \A u \in Threads : u # t /\ (Closing(u) \/ Reading(u)) =>
           entry'[be[u]][hd[u]] = entry[be[u]][hd[u]]
    BY <1>11, <2>1 DEF FreeHandle
  <2> QED BY <1>11, <2>2 DEF FreeHandle
<1>12. ASSUME NEW t \in Threads, IoLookup(t) PROVE LocalsInv'
  <2>1. /\ UNCHANGED <<up, entry, held>> /\ pc[t] = "io_lookup" /\ be[t] \in Backends /\ hd[t] \in Handles
        /\ \A u \in Threads : u # t =>
             pc'[u] = pc[u] /\ be'[u] = be[u] /\ hd'[u] = hd[u] /\ fd'[u] = fd[u] /\ file'[u] = file[u]
        /\ \/ pc'[t] = "idle"
           \/ /\ pc'[t] = "io_host" /\ be'[t] = be[t] /\ hd'[t] = hd[t] /\ file'[t] = file[t]
              /\ fd'[t] = entry[be[t]][hd[t]]
    <3> HIDE DEF LocalsInv, CallersInv, TablesOK, Closing, Reading
    <3>1. CASE Return(t)
      BY <1>12, <3>1, IoLookupEffect
    <3>2. CASE Goto(t, "io_host") /\ fd' = [fd EXCEPT ![t] = entry[be[t]][hd[t]]] /\ UNCHANGED <<be, hd, file>>
      BY <1>12, <3>2, IoLookupEffect
    <3> QED BY <1>12, <3>1, <3>2, IoLookupEffect
  <2> HIDE DEF TypeOK, TablesOK, ThreadsOK, CallersInv, Goto, Return
  <2> QED BY <2>1
<1>13. ASSUME NEW t \in Threads, IoHost(t) PROVE LocalsInv'
  BY <1>13 DEF IoHost
<1>14. CASE UNCHANGED vars
  BY <1>14 DEF vars
<1> QED
  BY <1>1, <1>2, <1>3, <1>4, <1>5, <1>6, <1>7, <1>8, <1>9, <1>10, <1>11, <1>12, <1>13, <1>14 DEF Next

----------------------------------------------------------------------------
\* Layer 2: who may use a handle.

\* At first no handle is open.
LEMMA CallersInit == Init => CallersInv
BY DEF Init, CallersInv, Closing, Reading

\* A handle is open to callers, or closed by one thread, or neither, after every step.
LEMMA CallersStep == TypeOK /\ LocalsInv /\ CallersInv /\ [Next]_vars => CallersInv'
<1> SUFFICES ASSUME TypeOK, LocalsInv, CallersInv, [Next]_vars PROVE CallersInv'
  OBVIOUS
<1> USE Domains DEF TypeOK, TablesOK, ThreadsOK, Labels, LocalsInv, CallersInv, Closing, Reading, Named, InHand, Goto, Return, tables, locals
<1>1. ASSUME NEW b \in Backends, BackendInit(b) PROVE CallersInv'
  BY <1>1 DEF BackendInit
<1>2. ASSUME NEW b \in Backends, BackendShutdown(b) PROVE CallersInv'
  BY <1>2 DEF BackendShutdown, OnBackend
<1>3. ASSUME NEW t \in Threads, NEW b \in Backends, NEW f \in Files, Open(t, b, f) PROVE CallersInv'
  BY <1>3 DEF Open
<1>4. ASSUME NEW t \in Threads, NEW g \in held, Close(t, g) PROVE CallersInv'
  <2> HIDE DEF TypeOK, TablesOK, ThreadsOK, LocalsInv, Goto, Return, Closing, Reading, Named
  <2>1. /\ UNCHANGED <<up, entry>> /\ held' = held \ {g}
        /\ be'[t] = g[1] /\ hd'[t] = g[2] /\ ~Reading(t)' /\ Closing(t)'
        /\ \A u \in Threads : u # t =>
             be'[u] = be[u] /\ hd'[u] = hd[u] /\ (Closing(u)' <=> Closing(u))
    BY <1>4, CloseEffect DEF tables, Closing, Reading
  <2>2. ASSUME NEW u \in Threads, Reading(u)' PROVE Named(u)' \in held'
    <3>1. u # t
      BY <2>1, <2>2
    <3>2. Reading(u) /\ Named(u)' = Named(u) /\ Named(u) # g
      BY <1>4, <2>2, <3>1, CloseEffect DEF Named
    <3> QED BY <2>1, <3>2
  <2>3. \A k \in held' : ~(k[1] = g[1] /\ k[2] = g[2])
    BY <2>1
  <2>4. \A u \in Threads : Closing(u) => ~(be[u] = g[1] /\ hd[u] = g[2])
    OBVIOUS
  <2> QED BY <2>1, <2>2, <2>3, <2>4
<1>5. ASSUME NEW t \in Threads, NEW g \in held, Io(t, g) PROVE CallersInv'
  <2>1. \A u \in Threads : Closing(u)' <=> Closing(u)
    BY <1>5 DEF Io
  <2>2. \A u \in Threads : u # t => pc'[u] = pc[u] /\ be'[u] = be[u] /\ hd'[u] = hd[u] /\ file'[u] = file[u]
    BY <1>5 DEF Io
  <2>3. <<be'[t], hd'[t], file'[t]>> = g
    BY <1>5 DEF Io
  <2>4. UNCHANGED <<up, entry, held>>
    BY <1>5 DEF Io
  <2>5. \A u \in Threads : Closing(u) => u # t /\ be'[u] = be[u] /\ hd'[u] = hd[u]
    BY <1>5, <2>2 DEF Io
  <2>6. \A u \in Threads : Reading(u)' => u = t \/ Reading(u)
    BY <2>2
  <2> HIDE DEF TypeOK, TablesOK, ThreadsOK, LocalsInv, Goto, Return, Closing, Reading
  <2>7. \A u \in Threads : Reading(u)' => <<be'[u], hd'[u], file'[u]>> \in held'
    BY <2>2, <2>3, <2>4, <2>6
  <2> QED BY <2>1, <2>4, <2>5, <2>7
<1>6. ASSUME NEW t \in Threads, OpenHost(t) PROVE CallersInv'
  <2>1. /\ UNCHANGED <<up, entry, held>>
        /\ \A u \in Threads : u # t => pc'[u] = pc[u] /\ be'[u] = be[u] /\ hd'[u] = hd[u] /\ file'[u] = file[u]
        /\ pc'[t] \in {"idle", "create"}
    BY <1>6, OpenHostEffect
  <2> HIDE DEF TypeOK, TablesOK, ThreadsOK, LocalsInv, Goto, Return
  <2> QED BY <2>1
<1>7. ASSUME NEW t \in Threads, CreateHandle(t) PROVE CallersInv'
  <2>1. CASE Goto(t, "drop") /\ UNCHANGED <<cap, entry, held, be, hd, fd, file>>
    BY <1>7, <2>1, CreateEffect
  <2>2. ASSUME NEW h \in Handles, entry[be[t]][h] = NoFd, Grant(t, be[t], h) PROVE CallersInv'
    <3>1. \A c \in Backends, k \in Handles :
            entry'[c][k] = IF c = be[t] /\ k = h THEN fd[t] ELSE entry[c][k]
      BY <2>2 DEF Grant
    <3>2. pc'[t] = "idle" /\ \A u \in Threads : u # t =>
            pc'[u] = pc[u] /\ be'[u] = be[u] /\ hd'[u] = hd[u] /\ file'[u] = file[u]
      BY <2>2 DEF Grant
    <3>3. up' = up /\ up[be[t]] /\ be[t] \in Backends /\ fd[t] \in Fds
      BY <1>7, CreateEffect
    <3>4. held' = held \cup {<<be[t], h, file[t]>>}
      BY <2>2 DEF Grant
    <3>5. \A g \in held : g[1] \in Backends /\ g[2] \in Handles /\ ~(g[1] = be[t] /\ g[2] = h)
      BY <2>2
    <3>6. \A u \in Threads : Closing(u) => ~(be[u] = be[t] /\ hd[u] = h)
      BY <2>2
    <3> HIDE DEF Return, Goto, TypeOK, TablesOK, ThreadsOK, LocalsInv
    <3>7. ASSUME NEW g \in held'
          PROVE  /\ up'[g[1]] /\ entry'[g[1]][g[2]] # NoFd
                 /\ \A u \in Threads : Closing(u)' => ~(be'[u] = g[1] /\ hd'[u] = g[2])
                 /\ \A k \in held' : k[1] = g[1] /\ k[2] = g[2] => k = g
      <4>1. CASE g \in held
        BY <4>1, <2>2, <3>1, <3>2, <3>3, <3>4, <3>5, Domains
      <4>2. CASE g = <<be[t], h, file[t]>>
        BY <4>2, <2>2, <3>1, <3>2, <3>3, <3>4, <3>5, <3>6, Domains
      <4> QED BY <3>4, <4>1, <4>2
    <3>8. \A u \in Threads : Reading(u)' => <<be'[u], hd'[u], file'[u]>> \in held'
      BY <3>2, <3>4
    <3>9. \A u, v \in Threads : u # v /\ Closing(u)' /\ Closing(v)' => be'[u] # be'[v] \/ hd'[u] # hd'[v]
      BY <3>2
    <3> QED BY <3>7, <3>8, <3>9
  <2> HIDE DEF TypeOK, TablesOK, ThreadsOK, LocalsInv, CallersInv, Goto, Return
  <2> QED BY <1>7, <2>1, <2>2, CreateEffect
<1>8. ASSUME NEW t \in Threads, DropFd(t) PROVE CallersInv'
  BY <1>8 DEF DropFd
<1>9. ASSUME NEW t \in Threads, CloseLookup(t) PROVE CallersInv'
  BY <1>9, LookupFinds
<1>10. ASSUME NEW t \in Threads, CloseHost(t) PROVE CallersInv'
  <2>1. /\ UNCHANGED <<up, entry, held>>
        /\ \A u \in Threads : u # t => pc'[u] = pc[u] /\ be'[u] = be[u] /\ hd'[u] = hd[u] /\ file'[u] = file[u]
        /\ pc[t] = "close_host"
        /\ \/ pc'[t] = "idle"
           \/ pc'[t] = "free_handle" /\ be'[t] = be[t] /\ hd'[t] = hd[t]
    <3> HIDE DEF TablesOK, LocalsInv, CallersInv, Closing, Reading
    <3>1. CASE Return(t)
      BY <1>10, <3>1 DEF CloseHost
    <3>2. CASE Goto(t, "free_handle") /\ UNCHANGED <<be, hd, fd, file>>
      BY <1>10, <3>2 DEF CloseHost
    <3> QED BY <1>10, <3>1, <3>2 DEF CloseHost
  <2> HIDE DEF TypeOK, TablesOK, ThreadsOK, LocalsInv, Goto, Return
  <2> QED BY <2>1
<1>11. ASSUME NEW t \in Threads, FreeHandle(t) PROVE CallersInv'
  BY <1>11 DEF FreeHandle
<1>12. ASSUME NEW t \in Threads, IoLookup(t) PROVE CallersInv'
  <2>1. /\ UNCHANGED <<up, entry, held>> /\ pc[t] = "io_lookup" /\ be[t] \in Backends /\ hd[t] \in Handles
        /\ \A u \in Threads : u # t =>
             pc'[u] = pc[u] /\ be'[u] = be[u] /\ hd'[u] = hd[u] /\ fd'[u] = fd[u] /\ file'[u] = file[u]
        /\ \/ pc'[t] = "idle"
           \/ /\ pc'[t] = "io_host" /\ be'[t] = be[t] /\ hd'[t] = hd[t] /\ file'[t] = file[t]
              /\ fd'[t] = entry[be[t]][hd[t]]
    <3> HIDE DEF LocalsInv, CallersInv, TablesOK, Closing, Reading
    <3>1. CASE Return(t)
      BY <1>12, <3>1, IoLookupEffect
    <3>2. CASE Goto(t, "io_host") /\ fd' = [fd EXCEPT ![t] = entry[be[t]][hd[t]]] /\ UNCHANGED <<be, hd, file>>
      BY <1>12, <3>2, IoLookupEffect
    <3> QED BY <1>12, <3>1, <3>2, IoLookupEffect
  <2> HIDE DEF TypeOK, TablesOK, ThreadsOK, LocalsInv, Goto, Return
  <2> QED BY <2>1
<1>13. ASSUME NEW t \in Threads, IoHost(t) PROVE CallersInv'
  BY <1>13 DEF IoHost
<1>14. CASE UNCHANGED vars
  BY <1>14 DEF vars
<1> QED
  BY <1>1, <1>2, <1>3, <1>4, <1>5, <1>6, <1>7, <1>8, <1>9, <1>10, <1>11, <1>12, <1>13, <1>14 DEF Next

----------------------------------------------------------------------------
\* Layer 3: who has a descriptor.

\* At first no descriptor is open.
LEMMA OwnersInit == Init => OwnersInv /\ AccountedInv
BY DEF Init, OwnersInv, EntriesOwn, HandsOwn, AccountedInv, InUse, Ending, InHand, Live

\* An entry in use by a handle that still names its file is live; one that is not in
\* use is not being given back either.
LEMMA LiveEntries ==
  ASSUME TypeOK, LocalsInv, CallersInv
  PROVE  /\ \A g \in InUse : g[1] \in Backends /\ g[2] \in Handles /\ g[3] \in Files /\ Live(g[1], g[2])
         /\ \A t \in Threads : pc[t] = "close_host" =>
              /\ be[t] \in Backends /\ hd[t] \in Handles
              /\ fd[t] = entry[be[t]][hd[t]] /\ Live(be[t], hd[t])
         /\ \A b \in Backends, h \in Handles : Gone(b, h) => entry[b][h] # NoFd
<1>1. \A g \in held : g[1] \in Backends /\ g[2] \in Handles /\ g[3] \in Files
  BY DEF TypeOK
<1>2. \A g \in held : Live(g[1], g[2])
  BY DEF CallersInv, Live, Gone, Closing
<1>3. ASSUME NEW t \in Threads, Ending(t)
      PROVE  be[t] \in Backends /\ hd[t] \in Handles /\ file[t] \in Files /\ Live(be[t], hd[t])
  <2>1. be[t] \in Backends /\ hd[t] \in Handles /\ file[t] \in Files /\ entry[be[t]][hd[t]] # NoFd
    BY <1>3 DEF LocalsInv, Closing, Ending
  <2>2. ~Gone(be[t], hd[t])
    BY <1>3 DEF CallersInv, Closing, Ending, Gone
  <2> QED BY <2>1, <2>2 DEF Live
<1>4. ASSUME NEW g \in InUse
      PROVE  g[1] \in Backends /\ g[2] \in Handles /\ g[3] \in Files /\ Live(g[1], g[2])
  <2>1. CASE g \in held
    BY <1>1, <1>2, <2>1
  <2>2. ASSUME NEW t \in Threads, Ending(t), g = <<be[t], hd[t], file[t]>>
        PROVE  g[1] \in Backends /\ g[2] \in Handles /\ g[3] \in Files /\ Live(g[1], g[2])
    BY <1>3, <2>2
  <2> QED BY <2>1, <2>2 DEF InUse, Named
<1>5. \A t \in Threads : pc[t] = "close_host" =>
        be[t] \in Backends /\ hd[t] \in Handles /\ fd[t] = entry[be[t]][hd[t]] /\ Live(be[t], hd[t])
  BY <1>3 DEF LocalsInv, Ending
<1>6. \A b \in Backends, h \in Handles : Gone(b, h) => entry[b][h] # NoFd
  BY DEF Gone, LocalsInv, Closing
<1> QED BY <1>4, <1>5, <1>6

\* A step that leaves the tables and the host alone, and gives no thread a handle or a
\* descriptor that was not open or in its hand before.
Aside ==
  /\ UNCHANGED <<entry, host, failures>> /\ held' \subseteq held
  /\ \A u \in Threads : Ending(u)' => Named(u)' \in held \/ (Ending(u) /\ Named(u)' = Named(u))
  /\ \A u \in Threads : InHand(u)' <=> InHand(u)
  /\ \A u \in Threads : InHand(u) => fd'[u] = fd[u] /\ file'[u] = file[u]
  /\ \A b \in Backends, h \in Handles : Gone(b, h)' <=> Gone(b, h)

\* The handles that name their file are those of before, and those that callers get.
LEMMA InUseGrows ==
  ASSUME NEW S, held' \subseteq held \cup S,
         \A u \in Threads : Ending(u)' => Named(u)' \in held \/ (Ending(u) /\ Named(u)' = Named(u))
  PROVE  InUse' \subseteq InUse \cup S
<1> SUFFICES ASSUME NEW g \in InUse' PROVE g \in InUse \cup S
  OBVIOUS
<1>1. CASE g \in held'
  BY <1>1 DEF InUse
<1>2. ASSUME NEW u \in Threads, Ending(u)', g = Named(u)' PROVE g \in InUse
  BY <1>2 DEF InUse
<1> QED BY <1>1, <1>2 DEF InUse

\* Such a step leaves every descriptor with its owner.
LEMMA Bystanders ==
  ASSUME Aside
  PROVE  (OwnersInv => OwnersInv') /\ (AccountedInv => AccountedInv')
<1>1. \A b \in Backends, h \in Handles : Live(b, h)' <=> Live(b, h)
  BY DEF Live, Aside
<1>2. InUse' \subseteq InUse \cup {}
  BY InUseGrows DEF Aside
<1>3. ASSUME OwnersInv PROVE OwnersInv'
  BY <1>1, <1>2, <1>3 DEF OwnersInv, EntriesOwn, HandsOwn, Aside
<1>4. ASSUME AccountedInv PROVE AccountedInv'
  BY <1>1, <1>4 DEF AccountedInv, Aside
<1> QED BY <1>3, <1>4

\* As long as no close of the host has failed, a descriptor stays with one owner; and
\* an open descriptor has an owner in any case.
LEMMA OwnersStep ==
  TypeOK /\ LocalsInv /\ CallersInv /\ OwnersInv /\ AccountedInv /\ [Next]_vars =>
    OwnersInv' /\ AccountedInv'
<1> SUFFICES ASSUME TypeOK, LocalsInv, CallersInv, OwnersInv, AccountedInv, [Next]_vars
             PROVE  OwnersInv' /\ AccountedInv'
  OBVIOUS
<1>1. ASSUME NEW b \in Backends, BackendInit(b) PROVE OwnersInv' /\ AccountedInv'
  <2>1. Aside
    BY <1>1 DEF Aside, Ending, Named, BackendInit, InHand, Gone, TypeOK, ThreadsOK, Goto, Return, tables, locals
  <2> QED BY <2>1, Bystanders
<1>2. ASSUME NEW b \in Backends, BackendShutdown(b) PROVE OwnersInv' /\ AccountedInv'
  <2>1. \A c \in Backends, h \in Handles : Gone(c, h)' <=> Gone(c, h)
    BY <1>2 DEF BackendShutdown, Gone, locals
  <2>2. \A h \in Handles : ~Gone(b, h)
    BY <1>2 DEF BackendShutdown, Gone, OnBackend
  <2>3. \A c \in Backends, h \in Handles :
          entry'[c][h] = IF c = b THEN NoFd ELSE entry[c][h]
    BY <1>2 DEF BackendShutdown, TypeOK, TablesOK
  <2>4. \A c \in Backends, h \in Handles : Live(c, h)' <=> c # b /\ Live(c, h)
    BY <2>1, <2>3 DEF Live
  <2>5. \A n \in Fds : /\ InTable(b, n) => host'[n] = NoFile
                       /\ ~InTable(b, n) => host'[n] = host[n]
    BY <1>2 DEF BackendShutdown
  <2>6. \A u \in Threads : (InHand(u)' <=> InHand(u)) /\ fd'[u] = fd[u] /\ file'[u] = file[u]
    BY <1>2 DEF BackendShutdown, locals, InHand
  <2>7. ASSUME failures' = 0 PROVE OwnersInv'
    <3>1. EntriesOwn /\ HandsOwn /\ \A g \in InUse : host[entry[g[1]][g[2]]] = g[3]
      BY <1>2, <2>7 DEF OwnersInv, BackendShutdown
    <3>2. \A c \in Backends, h \in Handles : c # b /\ Live(c, h) => entry[c][h] \in Fds /\ ~InTable(b, entry[c][h])
      BY <3>1, <2>2, Domains DEF EntriesOwn, InTable, Live, TypeOK, TablesOK
    <3>3. \A u \in Threads : InHand(u) => fd[u] \in Fds /\ ~InTable(b, fd[u])
      BY <3>1, <2>2, Domains DEF EntriesOwn, InTable, Live, LocalsInv
    <3>4. EntriesOwn'
      BY <3>1, <3>2, <2>3, <2>4, <2>5, <2>6 DEF EntriesOwn
    <3>5. HandsOwn'
      BY <3>1, <3>3, <2>5, <2>6 DEF HandsOwn
    <3>6. ASSUME NEW g \in InUse' PROVE host'[entry'[g[1]][g[2]]] = g[3]
      <4>1. g \in InUse /\ g[1] # b
        <5>1. CASE g \in held'
          BY <1>2, <5>1 DEF BackendShutdown, InUse
        <5>2. ASSUME NEW u \in Threads, Ending(u)', g = Named(u)' PROVE g \in InUse /\ g[1] # b
          BY <1>2, <5>2 DEF BackendShutdown, OnBackend, locals, InUse, Ending, Named
        <5> QED BY <5>1, <5>2 DEF InUse
      <4> QED BY <3>1, <3>2, <2>3, <2>5, <4>1, LiveEntries
    <3> QED BY <3>4, <3>5, <3>6 DEF OwnersInv
  <2>8. AccountedInv'
    <3> SUFFICES ASSUME NEW n \in Fds, host'[n] # NoFile
                 PROVE  \/ \E c \in Backends, h \in Handles : Live(c, h)' /\ entry'[c][h] = n
                        \/ \E u \in Threads : InHand(u)' /\ fd'[u] = n
      BY DEF AccountedInv
    <3>1. host[n] # NoFile /\ ~InTable(b, n)
      BY <2>5
    <3> QED BY <3>1, <2>3, <2>4, <2>6 DEF AccountedInv, InTable
  <2> QED BY <2>7, <2>8 DEF OwnersInv
<1>3. ASSUME NEW t \in Threads, NEW b \in Backends, NEW f \in Files, Open(t, b, f) PROVE OwnersInv' /\ AccountedInv'
  <2>1. Aside
    BY <1>3 DEF Aside, Ending, Named, Open, InHand, Gone, TypeOK, ThreadsOK, Goto, Return, tables, locals
  <2> QED BY <2>1, Bystanders
<1>4. ASSUME NEW t \in Threads, NEW g \in held, Close(t, g) PROVE OwnersInv' /\ AccountedInv'
  <2>1. Aside
    BY <1>4, CloseEffect DEF Aside, Ending, Named, Using, InHand, Gone, tables
  <2> QED BY <2>1, Bystanders
<1>5. ASSUME NEW t \in Threads, NEW g \in held, Io(t, g) PROVE OwnersInv' /\ AccountedInv'
  <2>1. Aside
    BY <1>5 DEF Aside, Ending, Named, Io, InHand, Gone, TypeOK, ThreadsOK, Goto, Return, tables, locals
  <2> QED BY <2>1, Bystanders
<1>6. ASSUME NEW t \in Threads, OpenHost(t) PROVE OwnersInv' /\ AccountedInv'
  <2>1. CASE Return(t) /\ UNCHANGED host
    <3>1. Aside
      BY <1>6, <2>1, OpenHostEffect DEF Aside, Ending, Named, InHand, Gone, TypeOK, ThreadsOK, Goto, Return, tables
    <3> QED BY <3>1, Bystanders
  <2>2. ASSUME NEW n \in Fds, host[n] = NoFile, host' = [host EXCEPT ![n] = file[t]],
               fd' = [fd EXCEPT ![t] = n], Goto(t, "create"), UNCHANGED <<be, hd, file>>
        PROVE  OwnersInv' /\ AccountedInv'
    <3>1. UNCHANGED <<entry, held, failures>> /\ pc[t] = "open_host" /\ file[t] \in Files
      BY <1>6, OpenHostEffect DEF tables, LocalsInv
    <3>2. /\ \A u \in Threads : u # t => fd'[u] = fd[u] /\ (InHand(u)' <=> InHand(u))
          /\ fd'[t] = n /\ InHand(t)' /\ ~InHand(t)
      BY <2>2, <3>1 DEF InHand, Goto, TypeOK, ThreadsOK
    <3>3. \A b \in Backends, h \in Handles : Gone(b, h)' <=> Gone(b, h)
      BY <2>2, <3>1 DEF Gone, Goto, TypeOK, ThreadsOK
    <3>4. \A b \in Backends, h \in Handles : Live(b, h)' <=> Live(b, h)
      BY <3>1, <3>3 DEF Live
    <3>5. host'[n] = file[t] /\ host'[n] # NoFile /\ \A m \in Fds : m # n => host'[m] = host[m]
      BY <2>2, <3>1 DEF TypeOK
    <3>6. \A b \in Backends, h \in Handles : Live(b, h) => entry[b][h] \in Fds
      BY DEF Live, TypeOK, TablesOK
    <3>7. ASSUME failures' = 0 PROVE OwnersInv'
      <4>1. EntriesOwn /\ HandsOwn /\ \A g \in InUse : host[entry[g[1]][g[2]]] = g[3]
        BY <3>1, <3>7 DEF OwnersInv
      <4>2. EntriesOwn'
        BY <4>1, <2>2, <3>1, <3>2, <3>4, <3>5, <3>6 DEF EntriesOwn
      <4>3. \A u \in Threads : InHand(u) => fd[u] \in Fds /\ fd[u] # n
        BY <4>1, <2>2 DEF HandsOwn, LocalsInv
      <4>4. HandsOwn'
        BY <4>1, <4>3, <2>2, <3>2, <3>5 DEF HandsOwn
      <4>5. \A g \in InUse' : host'[entry'[g[1]][g[2]]] = g[3]
        <5>1. \A u \in Threads : Ending(u)' => Ending(u) /\ Named(u)' = Named(u)
          BY <2>2 DEF Ending, Named, Goto, TypeOK, ThreadsOK
        <5>2. InUse' \subseteq InUse \cup {}
          BY <3>1, <5>1, InUseGrows
        <5> QED BY <4>1, <5>2, <2>2, <3>1, <3>5, <3>6, LiveEntries
      <4> QED BY <3>1, <4>2, <4>4, <4>5 DEF OwnersInv
    <3>8. AccountedInv'
      BY <2>2, <3>1, <3>2, <3>4, <3>5 DEF AccountedInv
    <3> QED BY <3>7, <3>8 DEF OwnersInv
  <2> QED BY <1>6, <2>1, <2>2, OpenHostEffect
<1>7. ASSUME NEW t \in Threads, CreateHandle(t) PROVE OwnersInv' /\ AccountedInv'
  <2>1. CASE Goto(t, "drop") /\ UNCHANGED <<cap, entry, held, be, hd, fd, file>>
    <3>1. Aside
      BY <1>7, <2>1, CreateEffect DEF Aside, Ending, Named, InHand, Gone, TypeOK, ThreadsOK, Goto
    <3> QED BY <3>1, Bystanders
  <2>2. ASSUME NEW h \in Handles, entry[be[t]][h] = NoFd, Grant(t, be[t], h)
        PROVE  OwnersInv' /\ AccountedInv'
    <3>1. UNCHANGED <<host, failures>> /\ be[t] \in Backends /\ InHand(t) /\ fd[t] \in Fds
      BY <1>7, CreateEffect DEF LocalsInv, InHand
    <3>2. \A c \in Backends, k \in Handles :
            entry'[c][k] = IF c = be[t] /\ k = h THEN fd[t] ELSE entry[c][k]
      BY <2>2, <3>1 DEF Grant, TypeOK, TablesOK
    <3>3. /\ ~InHand(t)'
          /\ \A u \in Threads : u # t => fd'[u] = fd[u] /\ file'[u] = file[u] /\ (InHand(u)' <=> InHand(u))
      BY <2>2 DEF Grant, Return, Goto, InHand, TypeOK, ThreadsOK
    <3>4. \A c \in Backends, k \in Handles : Gone(c, k)' <=> Gone(c, k)
      BY <2>2, <3>1 DEF Grant, Return, Goto, Gone, InHand, TypeOK, ThreadsOK
    <3>5. ~Gone(be[t], h) /\ ~Live(be[t], h)
      BY <2>2, <3>1, LiveEntries DEF Live
    <3>6. \A c \in Backends, k \in Handles : Live(c, k)' <=> Live(c, k) \/ (c = be[t] /\ k = h)
      <4>1. fd[t] # NoFd
        BY <3>1, Domains
      <4>2. \A c \in Backends, k \in Handles : ~(c = be[t] /\ k = h) => (Live(c, k)' <=> Live(c, k))
        BY <3>2, <3>4 DEF Live
      <4>3. ASSUME NEW c \in Backends, NEW k \in Handles, c = be[t], k = h PROVE Live(c, k)'
        <5>1. entry'[c][k] # NoFd
          BY <3>2, <4>1, <4>3
        <5>2. ~Gone(c, k)'
          BY <3>4, <3>5, <4>3
        <5> QED BY <5>1, <5>2 DEF Live
      <4> QED BY <4>2, <4>3
    <3>7. ASSUME failures' = 0 PROVE OwnersInv'
      <4>1. EntriesOwn /\ HandsOwn /\ \A g \in InUse : host[entry[g[1]][g[2]]] = g[3]
        BY <3>1, <3>7 DEF OwnersInv
      <4>2. host[fd[t]] = file[t] /\ file[t] \in Files /\ file[t] # NoFile
        BY <4>1, <3>1 DEF HandsOwn, LocalsInv
      <4>3. ASSUME NEW c \in Backends, NEW k \in Handles, Live(c, k)'
            PROVE  /\ host'[entry'[c][k]] # NoFile
                   /\ \A d \in Backends, l \in Handles :
                        Live(d, l)' /\ entry'[d][l] = entry'[c][k] => c = d /\ k = l
                   /\ \A u \in Threads : InHand(u)' => fd'[u] # entry'[c][k]
        <5>1. CASE c = be[t] /\ k = h
          <6>1. entry'[c][k] = fd[t]
            BY <5>1, <3>2
          <6>2. ASSUME NEW d \in Backends, NEW l \in Handles, Live(d, l), ~(d = be[t] /\ l = h)
                PROVE  entry'[d][l] # fd[t]
            BY <6>2, <4>1, <3>1, <3>2 DEF EntriesOwn
          <6>3. \A u \in Threads : InHand(u)' => fd'[u] # fd[t]
            BY <4>1, <3>1, <3>3 DEF HandsOwn
          <6> QED BY <5>1, <6>1, <6>2, <6>3, <4>2, <3>1, <3>6
        <5>2. CASE ~(c = be[t] /\ k = h)
          <6>1. Live(c, k) /\ entry'[c][k] = entry[c][k]
            BY <4>3, <5>2, <3>2, <3>6
          <6>2. entry[c][k] # fd[t] /\ host[entry[c][k]] # NoFile
            BY <6>1, <4>1, <3>1 DEF EntriesOwn
          <6>3. ASSUME NEW d \in Backends, NEW l \in Handles, Live(d, l)', entry'[d][l] = entry[c][k]
                PROVE  c = d /\ k = l
            <7>1. ~(d = be[t] /\ l = h) /\ Live(d, l) /\ entry[d][l] = entry[c][k]
              BY <6>2, <6>3, <3>2, <3>6
            <7> QED BY <7>1, <6>1, <4>1 DEF EntriesOwn
          <6>4. \A u \in Threads : InHand(u)' => fd'[u] # entry[c][k]
            BY <6>1, <4>1, <3>3 DEF EntriesOwn
          <6> QED BY <6>1, <6>2, <6>3, <6>4, <3>1
        <5> QED BY <5>1, <5>2
      <4>4. EntriesOwn'
        BY <4>3 DEF EntriesOwn
      <4>5. HandsOwn'
        BY <4>1, <3>1, <3>3 DEF HandsOwn
      <4>6. ASSUME NEW g \in InUse' PROVE host'[entry'[g[1]][g[2]]] = g[3]
        <5>1. CASE g \in InUse
          <6>1. g[1] \in Backends /\ g[2] \in Handles /\ Live(g[1], g[2])
            BY <5>1, LiveEntries
          <6>2. entry'[g[1]][g[2]] = entry[g[1]][g[2]]
            BY <6>1, <3>2, <3>5
          <6> QED BY <5>1, <6>2, <4>1, <3>1
        <5>2. CASE g = <<be[t], h, file[t]>>
          BY <5>2, <4>2, <3>1, <3>2
        <5>3. \A u \in Threads : Ending(u)' => Ending(u) /\ Named(u)' = Named(u)
          BY <2>2 DEF Grant, Return, Goto, Ending, Named, TypeOK, ThreadsOK
        <5>4. held' \subseteq held \cup {<<be[t], h, file[t]>>}
          BY <2>2 DEF Grant
        <5>5. InUse' \subseteq InUse \cup {<<be[t], h, file[t]>>}
          BY <5>3, <5>4, InUseGrows
        <5> QED BY <5>1, <5>2, <5>5
      <4> QED BY <4>4, <4>5, <4>6 DEF OwnersInv
    <3>8. AccountedInv'
      <4> SUFFICES ASSUME NEW n \in Fds, host[n] # NoFile
                   PROVE  \/ \E c \in Backends, k \in Handles : Live(c, k)' /\ entry'[c][k] = n
                          \/ \E u \in Threads : InHand(u)' /\ fd'[u] = n
        BY <3>1 DEF AccountedInv
      <4>1. CASE \E c \in Backends, k \in Handles : Live(c, k) /\ entry[c][k] = n
        <5>1. PICK c \in Backends, k \in Handles : Live(c, k) /\ entry[c][k] = n
          BY <4>1
        <5>2. ~(c = be[t] /\ k = h)
          BY <5>1, <3>5
        <5>3. Live(c, k)' /\ entry'[c][k] = n
          BY <5>1, <5>2, <3>2, <3>6
        <5> QED BY <5>3
      <4>2. CASE fd[t] = n
        BY <4>2, <3>1, <3>2, <3>6
      <4>3. CASE \E u \in Threads : u # t /\ InHand(u) /\ fd[u] = n
        BY <4>3, <3>3
      <4> QED BY <4>1, <4>2, <4>3 DEF AccountedInv
    <3> QED BY <3>7, <3>8 DEF OwnersInv
  <2> QED BY <1>7, <2>1, <2>2, CreateEffect
<1>8. ASSUME NEW t \in Threads, DropFd(t) PROVE OwnersInv' /\ AccountedInv'
  <2>1. UNCHANGED <<entry, held, failures>> /\ InHand(t) /\ fd[t] \in Fds
    BY <1>8 DEF DropFd, tables, InHand, LocalsInv
  <2>2. /\ ~InHand(t)'
        /\ \A u \in Threads : u # t => fd'[u] = fd[u] /\ file'[u] = file[u] /\ (InHand(u)' <=> InHand(u))
    BY <1>8 DEF DropFd, Return, Goto, InHand, TypeOK, ThreadsOK
  <2>3. \A c \in Backends, k \in Handles : Gone(c, k)' <=> Gone(c, k)
    BY <1>8 DEF DropFd, Return, Goto, Gone, TypeOK, ThreadsOK
  <2>4. \A c \in Backends, k \in Handles : Live(c, k)' <=> Live(c, k)
    BY <2>1, <2>3 DEF Live
  <2>5. host'[fd[t]] = NoFile /\ \A m \in Fds : m # fd[t] => host'[m] = host[m]
    BY <1>8, <2>1 DEF DropFd, TypeOK
  <2>6. \A b \in Backends, h \in Handles : Live(b, h) => entry[b][h] \in Fds
    BY DEF Live, TypeOK, TablesOK
  <2>7. ASSUME failures' = 0 PROVE OwnersInv'
    <3>1. EntriesOwn /\ HandsOwn /\ \A g \in InUse : host[entry[g[1]][g[2]]] = g[3]
      BY <2>1, <2>7 DEF OwnersInv
    <3>2. EntriesOwn'
      BY <3>1, <2>1, <2>2, <2>4, <2>5, <2>6 DEF EntriesOwn
    <3>3. HandsOwn'
      BY <3>1, <2>1, <2>2, <2>5 DEF HandsOwn, LocalsInv
    <3>4. \A g \in InUse' : host'[entry'[g[1]][g[2]]] = g[3]
      <4>1. \A u \in Threads : Ending(u)' => Ending(u) /\ Named(u)' = Named(u)
        BY <1>8 DEF DropFd, Return, Goto, Ending, Named, TypeOK, ThreadsOK
      <4>2. InUse' \subseteq InUse \cup {}
        BY <2>1, <4>1, InUseGrows
      <4> QED BY <4>2, <3>1, <2>1, <2>5, <2>6, LiveEntries DEF EntriesOwn
    <3> QED BY <2>1, <3>2, <3>3, <3>4 DEF OwnersInv
  <2>8. AccountedInv'
    BY <2>1, <2>2, <2>4, <2>5 DEF AccountedInv
  <2> QED BY <2>7, <2>8 DEF OwnersInv
<1>9. ASSUME NEW t \in Threads, CloseLookup(t) PROVE OwnersInv' /\ AccountedInv'
  <2>1. Aside
    BY <1>9, LookupFinds DEF Aside, Ending, Named, InHand, Gone, TypeOK, ThreadsOK, Goto, Return, tables, locals
  <2> QED BY <2>1, Bystanders
<1>10. ASSUME NEW t \in Threads, CloseHost(t) PROVE OwnersInv' /\ AccountedInv'
  <2>1. UNCHANGED <<entry, held>> /\ pc[t] = "close_host"
    BY <1>10 DEF CloseHost, tables
  <2>2. /\ be[t] \in Backends /\ hd[t] \in Handles /\ Live(be[t], hd[t])
        /\ fd[t] = entry[be[t]][hd[t]] /\ fd[t] \in Fds
    BY <2>1, LiveEntries DEF Live, TypeOK, TablesOK
  <2>3. \A u \in Threads : InHand(u) => u # t
    BY <2>1 DEF InHand
  <2>4. \A u \in Threads : (InHand(u)' <=> InHand(u)) /\ (InHand(u) => fd'[u] = fd[u] /\ file'[u] = file[u])
    BY <1>10, <2>1 DEF CloseHost, Return, Goto, InHand, TypeOK, ThreadsOK
  <2>5. host'[fd[t]] = NoFile /\ \A m \in Fds : m # fd[t] => host'[m] = host[m]
    BY <1>10, <2>2 DEF CloseHost, TypeOK
  <2>6. \A b \in Backends, h \in Handles : Live(b, h) => entry[b][h] \in Fds
    BY DEF Live, TypeOK, TablesOK
  <2>7. ASSUME NEW c \in Backends, NEW k \in Handles, ~(c = be[t] /\ k = hd[t]) PROVE Live(c, k)' <=> Live(c, k)
    <3>1. Gone(c, k)' <=> Gone(c, k)
      BY <1>10, <2>1, <2>7 DEF CloseHost, Return, Goto, Gone, TypeOK, ThreadsOK
    <3> QED BY <2>1, <3>1 DEF Live
  <2>8. ASSUME failures' = 0 PROVE OwnersInv'
    <3>0. failures = 0 /\ host[fd[t]] # NoFile
      <4>1. failures = 0
        BY <1>10, <2>8, SizesAssumption DEF CloseHost, TypeOK
      <4> QED BY <4>1, <2>2 DEF OwnersInv, EntriesOwn
    <3>1. failures = 0 /\ Goto(t, "free_handle") /\ UNCHANGED <<be, hd, fd, file>>
      BY <1>10, <2>8, <3>0, SizesAssumption DEF CloseHost, TypeOK
    <3>2. EntriesOwn /\ HandsOwn /\ \A g \in InUse : host[entry[g[1]][g[2]]] = g[3]
      BY <3>1 DEF OwnersInv
    <3>3. ~Live(be[t], hd[t])'
      BY <3>1 DEF Live, Gone, Goto, TypeOK, ThreadsOK
    <3>4. ASSUME NEW c \in Backends, NEW k \in Handles, Live(c, k)'
          PROVE  Live(c, k) /\ entry[c][k] \in Fds /\ entry[c][k] # fd[t]
      <4>1. Live(c, k) /\ ~(c = be[t] /\ k = hd[t])
        BY <2>7, <3>1, <3>3, <3>4
      <4> QED BY <4>1, <2>2, <2>6, <3>2 DEF EntriesOwn
    <3>5. EntriesOwn'
      BY <3>2, <3>4, <2>1, <2>4, <2>5 DEF EntriesOwn
    <3>6. \A u \in Threads : InHand(u) => fd[u] \in Fds /\ fd[u] # fd[t]
      BY <3>2, <2>2 DEF EntriesOwn, LocalsInv
    <3>7. HandsOwn'
      BY <3>2, <3>6, <2>4, <2>5 DEF HandsOwn
    <3>8. ASSUME NEW g \in InUse' PROVE host'[entry'[g[1]][g[2]]] = g[3]
      <4>1. g \in InUse /\ ~(g[1] = be[t] /\ g[2] = hd[t])
        <5>1. CASE g \in held'
          BY <5>1, <2>1 DEF InUse, CallersInv, Closing
        <5>2. ASSUME NEW u \in Threads, Ending(u)', g = Named(u)' PROVE g \in InUse /\ ~(g[1] = be[t] /\ g[2] = hd[t])
          <6>1. u # t /\ Ending(u) /\ g = <<be[u], hd[u], file[u]>>
            BY <3>1, <5>2 DEF Ending, Named, Goto, TypeOK, ThreadsOK
          <6>2. be[u] # be[t] \/ hd[u] # hd[t]
            BY <2>1, <6>1 DEF CallersInv, Closing, Ending
          <6> QED BY <6>1, <6>2 DEF InUse, Named
        <5> QED BY <5>1, <5>2 DEF InUse
      <4>2. g[1] \in Backends /\ g[2] \in Handles /\ Live(g[1], g[2])
        BY <4>1, LiveEntries
      <4> QED BY <4>1, <4>2, <2>1, <2>2, <2>5, <2>6, <3>2 DEF EntriesOwn
    <3> QED BY <2>1, <3>5, <3>7, <3>8 DEF OwnersInv
  <2>9. AccountedInv'
    <3> SUFFICES ASSUME NEW n \in Fds, host'[n] # NoFile
                 PROVE  \/ \E c \in Backends, k \in Handles : Live(c, k)' /\ entry'[c][k] = n
                        \/ \E u \in Threads : InHand(u)' /\ fd'[u] = n
      BY DEF AccountedInv
    <3>1. host[n] # NoFile /\ n # fd[t]
      BY <2>5
    <3>2. CASE \E c \in Backends, k \in Handles : Live(c, k) /\ entry[c][k] = n
      BY <3>1, <3>2, <2>1, <2>2, <2>7
    <3>3. CASE \E u \in Threads : InHand(u) /\ fd[u] = n
      BY <3>3, <2>4
    <3> QED BY <3>1, <3>2, <3>3 DEF AccountedInv
  <2> QED BY <2>8, <2>9 DEF OwnersInv
<1>11. ASSUME NEW t \in Threads, FreeHandle(t) PROVE OwnersInv' /\ AccountedInv'
  <2>1. UNCHANGED <<host, held, failures>> /\ pc[t] = "free_handle" /\ be[t] \in Backends /\ hd[t] \in Handles
    BY <1>11 DEF FreeHandle, LocalsInv, Closing
  <2>2. \A c \in Backends, k \in Handles :
          entry'[c][k] = IF c = be[t] /\ k = hd[t] THEN NoFd ELSE entry[c][k]
    BY <1>11, <2>1 DEF FreeHandle, TypeOK, TablesOK
  <2>3. \A u \in Threads : (InHand(u)' <=> InHand(u)) /\ (InHand(u) => fd'[u] = fd[u] /\ file'[u] = file[u])
    BY <1>11, <2>1 DEF FreeHandle, Return, Goto, InHand, TypeOK, ThreadsOK
  <2>4. ASSUME NEW c \in Backends, NEW k \in Handles PROVE Live(c, k)' <=> Live(c, k)
    <3>1. CASE c = be[t] /\ k = hd[t]
      BY <3>1, <2>1, <2>2 DEF Live, Gone
    <3>2. CASE ~(c = be[t] /\ k = hd[t])
      <4>1. Gone(c, k)' <=> Gone(c, k)
        BY <1>11, <2>1, <3>2 DEF FreeHandle, Return, Goto, Gone, TypeOK, ThreadsOK
      <4> QED BY <3>2, <4>1, <2>2 DEF Live
    <3> QED BY <3>1, <3>2
  <2>5. ~Live(be[t], hd[t])
    BY <2>1 DEF Live, Gone
  <2>6. \A c \in Backends, k \in Handles : Live(c, k) => entry'[c][k] = entry[c][k]
    BY <2>2, <2>5
  <2>7. OwnersInv'
    <3>1. \A u \in Threads : Ending(u)' => Ending(u) /\ Named(u)' = Named(u)
      BY <1>11, <2>1 DEF FreeHandle, Return, Goto, Ending, Named, TypeOK, ThreadsOK
    <3>2. InUse' \subseteq InUse \cup {}
      BY <2>1, <3>1, InUseGrows
    <3> QED BY <3>2, <2>1, <2>3, <2>4, <2>6, LiveEntries DEF OwnersInv, EntriesOwn, HandsOwn
  <2>8. AccountedInv'
    BY <2>1, <2>3, <2>4, <2>6 DEF AccountedInv
  <2> QED BY <2>7, <2>8
<1>12. ASSUME NEW t \in Threads, IoLookup(t) PROVE OwnersInv' /\ AccountedInv'
  <2>1. Aside
    BY <1>12, IoLookupEffect DEF Aside, Ending, Named, InHand, Gone, TypeOK, ThreadsOK, Goto, Return, tables, locals
  <2> QED BY <2>1, Bystanders
<1>13. ASSUME NEW t \in Threads, IoHost(t) PROVE OwnersInv' /\ AccountedInv'
  <2>1. Aside
    BY <1>13 DEF Aside, Ending, Named, IoHost, InHand, Gone, TypeOK, ThreadsOK, Goto, Return, tables, locals
  <2> QED BY <2>1, Bystanders
<1>14. CASE UNCHANGED vars
  BY <1>14, Bystanders DEF Aside, vars, Ending, Named, InHand, Gone
<1> QED
  BY <1>1, <1>2, <1>3, <1>4, <1>5, <1>6, <1>7, <1>8, <1>9, <1>10, <1>11, <1>12, <1>13, <1>14 DEF Next

----------------------------------------------------------------------------
\* The theorems.

\* The inductive invariant holds at first and after every step.
THEOREM Invariance == Spec => []IInv
<1>1. Init => IInv
  BY TypeInit, CallersInit, OwnersInit DEF IInv
<1>2. IInv /\ [Next]_vars => IInv'
  BY TypeStep, LocalsStep, CallersStep, OwnersStep DEF IInv
<1> QED BY <1>1, <1>2, PTL DEF Spec

\* The type invariant holds, and no entry beyond handle_cap is ever in use.
THEOREM TypeCorrect == Spec => []TypeOK
<1>1. IInv => TypeOK
  BY DEF IInv
<1> QED BY <1>1, Invariance, PTL

\* A handle names the file it was opened for until its close begins, whatever other
\* threads open and close, on this backend and on others.
THEOREM HandleKeepsFileAlways == Spec => []HandleKeepsFile
<1>1. IInv => HandleKeepsFile
  BY LiveEntries DEF IInv, TypeOK, TablesOK, OwnersInv, HandleKeepsFile, Live, InUse
<1> QED BY <1>1, Invariance, PTL

\* The descriptor that a close took under the lock, and that of a read or write whose
\* handle nobody has closed since, is still open on the file of the handle when the host
\* gets it, without the lock.
THEOREM DescriptorStillValidAlways == Spec => []DescriptorStillValid
<1>1. IInv => DescriptorStillValid
  <2> SUFFICES ASSUME IInv, failures = 0, NEW t \in Threads,
                      pc[t] = "close_host" \/ (pc[t] = "io_host" /\ file[t] # NoFile)
               PROVE  host[fd[t]] = file[t]
    BY DEF DescriptorStillValid
  <2>1. fd[t] = entry[be[t]][hd[t]]
    BY DEF IInv, LocalsInv, Reading
  <2>2. Named(t) \in InUse
    <3>1. CASE pc[t] = "close_host"
      BY <3>1 DEF InUse, Ending
    <3>2. CASE pc[t] = "io_host" /\ file[t] # NoFile
      BY <3>2 DEF IInv, CallersInv, Reading, InUse
    <3> QED BY <3>1, <3>2
  <2> QED BY <2>1, <2>2 DEF IInv, OwnersInv, Named
<1> QED BY <1>1, Invariance, PTL

\* No descriptor is lost, whichever calls fail.
THEOREM FdsAccountedAlways == Spec => []FdsAccounted
<1>1. IInv => FdsAccounted
  <2> SUFFICES ASSUME IInv, NEW n \in Fds, host[n] # NoFile
               PROVE  \/ \E b \in Backends : up[b] /\ InTable(b, n)
                      \/ \E t \in Threads : pc[t] \in {"create", "drop"} /\ fd[t] = n
    BY DEF FdsAccounted
  <2>1. CASE \E t \in Threads : InHand(t) /\ fd[t] = n
    BY <2>1 DEF InHand
  <2>2. ASSUME NEW b \in Backends, NEW h \in Handles, Live(b, h), entry[b][h] = n
        PROVE  up[b] /\ InTable(b, n)
    <3>1. ~(h > cap[b])
      BY <2>2 DEF IInv, TypeOK, TablesOK, Live
    <3>2. up[b]
      BY <3>1, SizesAssumption DEF IInv, TypeOK, TablesOK, Handles
    <3> QED BY <2>2, <3>2 DEF InTable
  <2> QED BY <2>1, <2>2 DEF IInv, AccountedInv
<1> QED BY <1>1, Invariance, PTL
=====
