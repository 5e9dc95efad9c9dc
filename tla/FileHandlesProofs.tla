------------------------- MODULE FileHandlesProofs -------------------------
(***************************************************************************)
(* Proofs about FileHandles, for any set of threads, any table size, any   *)
(* supply of dentries and any use callers make of handles.  The invariant  *)
(* IInv is inductive layer by layer: the locals of each thread, then who   *)
(* owns each lock, then what the owner has done to its slot, then who      *)
(* keeps each orphan.                                                      *)
(***************************************************************************)
EXTENDS FileHandles, TLAPS

USE SlotsAssumption, DentriesAssumption, ThreadsAssumption

\* The arithmetic of handle numbers, so that no later step needs any.
LEMMA Ranges == /\ 0 \in Handles /\ 1 \in Handles /\ 0 \in Ends
                /\ \A s \in Slots : s \in Handles /\ s + 1 \in Handles
BY DEF Handles, Ends, Slots

----------------------------------------------------------------------------
\* Layer 1: types and locals.

\* The initial state is well typed.
LEMMA TypeInit == Init => TypeOK /\ LocalsInv
BY Ranges DEF Init, TypeOK, LocalsInv, InHand, InUse, Locking, Labels, Dentries

\* Every step of a thread keeps the types, and its locals to what its step needs.
LEMMA TypeStep == TypeOK /\ LocalsInv /\ [Next]_vars => TypeOK' /\ LocalsInv'
<1> SUFFICES ASSUME TypeOK, LocalsInv, [Next]_vars PROVE TypeOK' /\ LocalsInv'
  OBVIOUS
<1> USE Ranges DEF TypeOK, LocalsInv, InHand, Labels, Dentries, Locking, Goto, Return, table, globals, sizes, InUse
<1>1. ASSUME NEW t \in Threads, NEW f \in TreeFiles, OpenTree(t, f) PROVE TypeOK' /\ LocalsInv'
  BY <1>1 DEF OpenTree
<1>2. ASSUME NEW t \in Threads, OpenCreat(t) PROVE TypeOK' /\ LocalsInv'
  BY <1>2 DEF OpenCreat
<1>3. ASSUME NEW t \in Threads, NEW h \in Handles, Close(t, h) PROVE TypeOK' /\ LocalsInv'
  BY <1>3 DEF Close
<1>4. ASSUME NEW t \in Threads, NEW h \in Handles, Read(t, h) PROVE TypeOK' /\ LocalsInv'
  BY <1>4 DEF Read
<1>5. ASSUME NEW t \in Threads, NEW h \in Handles, NEW e \in Ends, Write(t, h, e) PROVE TypeOK' /\ LocalsInv'
  BY <1>5 DEF Write
<1>6. ASSUME NEW t \in Threads, AllocScan(t) PROVE TypeOK' /\ LocalsInv'
  BY <1>6 DEF AllocScan
<1>7. ASSUME NEW t \in Threads, AllocFull(t) PROVE TypeOK' /\ LocalsInv'
  BY <1>7 DEF AllocFull
<1>8. ASSUME NEW t \in Threads, AllocLock(t) PROVE TypeOK' /\ LocalsInv'
  BY <1>8 DEF AllocLock
<1>9. ASSUME NEW t \in Threads, AllocCheck(t) PROVE TypeOK' /\ LocalsInv'
  <2>1. CASE inUse[fh[t]] BY <1>9, <2>1, Ranges DEF AllocCheck
  <2>2. CASE ~inUse[fh[t]] BY <1>9, <2>2 DEF AllocCheck
  <2> QED BY <2>1, <2>2
<1>10. ASSUME NEW t \in Threads, AllocFill(t) PROVE TypeOK' /\ LocalsInv'
  BY <1>10 DEF AllocFill
<1>11. ASSUME NEW t \in Threads, CloseGet(t) PROVE TypeOK' /\ LocalsInv'
  BY <1>11 DEF CloseGet, Found
<1>12. ASSUME NEW t \in Threads, FreeGet(t) PROVE TypeOK' /\ LocalsInv'
  BY <1>12 DEF FreeGet, Found
<1>13. ASSUME NEW t \in Threads, FreeLock(t) PROVE TypeOK' /\ LocalsInv'
  BY <1>13 DEF FreeLock
<1>14. ASSUME NEW t \in Threads, FreeMark(t) PROVE TypeOK' /\ LocalsInv'
  BY <1>14 DEF FreeMark
<1>15. ASSUME NEW t \in Threads, FreeClear(t) PROVE TypeOK' /\ LocalsInv'
  BY <1>15 DEF FreeClear
<1>16. ASSUME NEW t \in Threads, Release(t) PROVE TypeOK' /\ LocalsInv'
  BY <1>16 DEF Release
<1>17. ASSUME NEW t \in Threads, IoGet(t) PROVE TypeOK' /\ LocalsInv'
  BY <1>17 DEF IoGet, Found
<1>18. ASSUME NEW t \in Threads, IoDentry(t) PROVE TypeOK' /\ LocalsInv'
  BY <1>18 DEF IoDentry, Fallback
<1>19. ASSUME NEW t \in Threads, ReadUse(t) PROVE TypeOK' /\ LocalsInv'
  BY <1>19 DEF ReadUse
<1>20. ASSUME NEW t \in Threads, WriteTest(t) PROVE TypeOK' /\ LocalsInv'
  BY <1>20 DEF WriteTest, Wrote, Race
<1>21. ASSUME NEW t \in Threads, WriteSize(t) PROVE TypeOK' /\ LocalsInv'
  BY <1>21 DEF WriteSize, Wrote
<1>23. ASSUME NEW t \in Threads, VfsLock(t) PROVE TypeOK' /\ LocalsInv'
  BY <1>23 DEF VfsLock
<1>24. ASSUME NEW t \in Threads, BackendLock(t) PROVE TypeOK' /\ LocalsInv'
  BY <1>24 DEF BackendLock
<1>25. ASSUME NEW t \in Threads, OpenFind(t) PROVE TypeOK' /\ LocalsInv'
  BY <1>25 DEF OpenFind
<1>26. ASSUME NEW t \in Threads, CreatHandle(t) PROVE TypeOK' /\ LocalsInv'
  BY <1>26 DEF CreatHandle
<1>27. ASSUME NEW t \in Threads, IoFind(t) PROVE TypeOK' /\ LocalsInv'
  BY <1>27 DEF IoFind, Fallback
<1>28. ASSUME NEW t \in Threads, Lookup(t) PROVE TypeOK' /\ LocalsInv'
  BY <1>28 DEF Lookup
<1>29. ASSUME NEW t \in Threads, IoHost(t) PROVE TypeOK' /\ LocalsInv'
  <2>1. \A e \in 1..end[t] : e \in Ends BY DEF Ends
  <2> QED BY <1>29, <2>1 DEF IoHost
<1>22. CASE UNCHANGED vars
  BY <1>22 DEF vars
<1> QED
  BY <1>1, <1>2, <1>3, <1>4, <1>5, <1>6, <1>7, <1>8, <1>9, <1>10, <1>11, <1>12, <1>13, <1>14,
     <1>15, <1>16, <1>17, <1>18, <1>19, <1>20, <1>21, <1>22,
     <1>23, <1>24, <1>25, <1>26, <1>27, <1>28, <1>29
  DEF Next, Start, Step

----------------------------------------------------------------------------
\* Layer 2: locks.

\* At first no lock is owned.
LEMMA LockInit == Init => LockInv
BY DEF Init, LockInv, Locking

\* Taking and releasing a slot's lock keeps its owner and the critical sections in step.
LEMMA LockStep == TypeOK /\ LocalsInv /\ LockInv /\ [Next]_vars => LockInv'
<1> SUFFICES ASSUME TypeOK, LocalsInv, LockInv, [Next]_vars PROVE LockInv'
  OBVIOUS
<1> USE DEF TypeOK, LocalsInv, LockInv, Labels, Locking, Goto, Return, table, globals, sizes, InUse
<1>1. ASSUME NEW t \in Threads, NEW f \in TreeFiles, OpenTree(t, f) PROVE LockInv'
  BY <1>1 DEF OpenTree
<1>2. ASSUME NEW t \in Threads, OpenCreat(t) PROVE LockInv'
  BY <1>2 DEF OpenCreat
<1>3. ASSUME NEW t \in Threads, NEW h \in Handles, Close(t, h) PROVE LockInv'
  BY <1>3 DEF Close
<1>4. ASSUME NEW t \in Threads, NEW h \in Handles, Read(t, h) PROVE LockInv'
  BY <1>4 DEF Read
<1>5. ASSUME NEW t \in Threads, NEW h \in Handles, NEW e \in Ends, Write(t, h, e) PROVE LockInv'
  BY <1>5 DEF Write
<1>6. ASSUME NEW t \in Threads, AllocScan(t) PROVE LockInv'
  BY <1>6 DEF AllocScan
<1>7. ASSUME NEW t \in Threads, AllocFull(t) PROVE LockInv'
  BY <1>7 DEF AllocFull
<1>8. ASSUME NEW t \in Threads, AllocLock(t) PROVE LockInv'
  BY <1>8 DEF AllocLock
<1>9. ASSUME NEW t \in Threads, AllocCheck(t) PROVE LockInv'
  BY <1>9 DEF AllocCheck
<1>10. ASSUME NEW t \in Threads, AllocFill(t) PROVE LockInv'
  BY <1>10 DEF AllocFill
<1>11. ASSUME NEW t \in Threads, CloseGet(t) PROVE LockInv'
  BY <1>11 DEF CloseGet, Found
<1>12. ASSUME NEW t \in Threads, FreeGet(t) PROVE LockInv'
  BY <1>12 DEF FreeGet, Found
<1>13. ASSUME NEW t \in Threads, FreeLock(t) PROVE LockInv'
  BY <1>13 DEF FreeLock
<1>14. ASSUME NEW t \in Threads, FreeMark(t) PROVE LockInv'
  BY <1>14 DEF FreeMark
<1>15. ASSUME NEW t \in Threads, FreeClear(t) PROVE LockInv'
  BY <1>15 DEF FreeClear
<1>16. ASSUME NEW t \in Threads, Release(t) PROVE LockInv'
  BY <1>16 DEF Release
<1>17. ASSUME NEW t \in Threads, IoGet(t) PROVE LockInv'
  BY <1>17 DEF IoGet, Found
<1>18. ASSUME NEW t \in Threads, IoDentry(t) PROVE LockInv'
  BY <1>18 DEF IoDentry, Fallback
<1>19. ASSUME NEW t \in Threads, ReadUse(t) PROVE LockInv'
  BY <1>19 DEF ReadUse
<1>20. ASSUME NEW t \in Threads, WriteTest(t) PROVE LockInv'
  BY <1>20 DEF WriteTest, Wrote, Race
<1>21. ASSUME NEW t \in Threads, WriteSize(t) PROVE LockInv'
  BY <1>21 DEF WriteSize, Wrote
<1>23. ASSUME NEW t \in Threads, VfsLock(t) PROVE LockInv'
  BY <1>23 DEF VfsLock
<1>24. ASSUME NEW t \in Threads, BackendLock(t) PROVE LockInv'
  BY <1>24 DEF BackendLock
<1>25. ASSUME NEW t \in Threads, OpenFind(t) PROVE LockInv'
  BY <1>25 DEF OpenFind
<1>26. ASSUME NEW t \in Threads, CreatHandle(t) PROVE LockInv'
  BY <1>26 DEF CreatHandle
<1>27. ASSUME NEW t \in Threads, IoFind(t) PROVE LockInv'
  BY <1>27 DEF IoFind, Fallback
<1>28. ASSUME NEW t \in Threads, Lookup(t) PROVE LockInv'
  BY <1>28 DEF Lookup
<1>29. ASSUME NEW t \in Threads, IoHost(t) PROVE LockInv'
  BY <1>29 DEF IoHost
<1>22. CASE UNCHANGED vars
  BY <1>22 DEF vars
<1> QED
  BY <1>1, <1>2, <1>3, <1>4, <1>5, <1>6, <1>7, <1>8, <1>9, <1>10, <1>11, <1>12, <1>13, <1>14,
     <1>15, <1>16, <1>17, <1>18, <1>19, <1>20, <1>21, <1>22,
     <1>23, <1>24, <1>25, <1>26, <1>27, <1>28, <1>29
  DEF Next, Start, Step

----------------------------------------------------------------------------
\* Layer 3: the slots.

\* At first every slot is free and empty.
LEMMA SlotInit == Init => SlotInv
BY DEF Init, SlotInv, SlotConsistent

\* in_use and dentry are stored apart, but only the owner of the slot's lock sees that.
LEMMA SlotStep == TypeOK /\ LocalsInv /\ LockInv /\ SlotInv /\ [Next]_vars => SlotInv'
<1> SUFFICES ASSUME TypeOK, LocalsInv, LockInv, SlotInv, [Next]_vars PROVE SlotInv'
  OBVIOUS
<1> USE DEF TypeOK, LocalsInv, LockInv, SlotInv, SlotConsistent, InHand, Labels, Dentries, Locking, Goto, Return, table, globals, sizes, InUse
<1>1. ASSUME NEW t \in Threads, NEW f \in TreeFiles, OpenTree(t, f) PROVE SlotInv'
  BY <1>1 DEF OpenTree
<1>2. ASSUME NEW t \in Threads, OpenCreat(t) PROVE SlotInv'
  BY <1>2 DEF OpenCreat
<1>3. ASSUME NEW t \in Threads, NEW h \in Handles, Close(t, h) PROVE SlotInv'
  BY <1>3 DEF Close
<1>4. ASSUME NEW t \in Threads, NEW h \in Handles, Read(t, h) PROVE SlotInv'
  BY <1>4 DEF Read
<1>5. ASSUME NEW t \in Threads, NEW h \in Handles, NEW e \in Ends, Write(t, h, e) PROVE SlotInv'
  BY <1>5 DEF Write
<1>6. ASSUME NEW t \in Threads, AllocScan(t) PROVE SlotInv'
  BY <1>6 DEF AllocScan
<1>7. ASSUME NEW t \in Threads, AllocFull(t) PROVE SlotInv'
  BY <1>7 DEF AllocFull
<1>8. ASSUME NEW t \in Threads, AllocLock(t) PROVE SlotInv'
  BY <1>8 DEF AllocLock
<1>9. ASSUME NEW t \in Threads, AllocCheck(t) PROVE SlotInv'
  BY <1>9 DEF AllocCheck
<1>10. ASSUME NEW t \in Threads, AllocFill(t) PROVE SlotInv'
  BY <1>10 DEF AllocFill
<1>11. ASSUME NEW t \in Threads, CloseGet(t) PROVE SlotInv'
  BY <1>11 DEF CloseGet, Found
<1>12. ASSUME NEW t \in Threads, FreeGet(t) PROVE SlotInv'
  BY <1>12 DEF FreeGet, Found
<1>13. ASSUME NEW t \in Threads, FreeLock(t) PROVE SlotInv'
  BY <1>13 DEF FreeLock
<1>14. ASSUME NEW t \in Threads, FreeMark(t) PROVE SlotInv'
  BY <1>14 DEF FreeMark
<1>15. ASSUME NEW t \in Threads, FreeClear(t) PROVE SlotInv'
  BY <1>15 DEF FreeClear
<1>16. ASSUME NEW t \in Threads, Release(t) PROVE SlotInv'
  BY <1>16 DEF Release
<1>17. ASSUME NEW t \in Threads, IoGet(t) PROVE SlotInv'
  BY <1>17 DEF IoGet, Found
<1>18. ASSUME NEW t \in Threads, IoDentry(t) PROVE SlotInv'
  BY <1>18 DEF IoDentry, Fallback
<1>19. ASSUME NEW t \in Threads, ReadUse(t) PROVE SlotInv'
  BY <1>19 DEF ReadUse
<1>20. ASSUME NEW t \in Threads, WriteTest(t) PROVE SlotInv'
  BY <1>20 DEF WriteTest, Wrote, Race
<1>21. ASSUME NEW t \in Threads, WriteSize(t) PROVE SlotInv'
  BY <1>21 DEF WriteSize, Wrote
<1>23. ASSUME NEW t \in Threads, VfsLock(t) PROVE SlotInv'
  BY <1>23 DEF VfsLock
<1>24. ASSUME NEW t \in Threads, BackendLock(t) PROVE SlotInv'
  BY <1>24 DEF BackendLock
<1>25. ASSUME NEW t \in Threads, OpenFind(t) PROVE SlotInv'
  BY <1>25 DEF OpenFind
<1>26. ASSUME NEW t \in Threads, CreatHandle(t) PROVE SlotInv'
  BY <1>26 DEF CreatHandle
<1>27. ASSUME NEW t \in Threads, IoFind(t) PROVE SlotInv'
  BY <1>27 DEF IoFind, Fallback
<1>28. ASSUME NEW t \in Threads, Lookup(t) PROVE SlotInv'
  BY <1>28 DEF Lookup
<1>29. ASSUME NEW t \in Threads, IoHost(t) PROVE SlotInv'
  BY <1>29 DEF IoHost
<1>22. CASE UNCHANGED vars
  BY <1>22 DEF vars
<1> QED
  BY <1>1, <1>2, <1>3, <1>4, <1>5, <1>6, <1>7, <1>8, <1>9, <1>10, <1>11, <1>12, <1>13, <1>14,
     <1>15, <1>16, <1>17, <1>18, <1>19, <1>20, <1>21, <1>22,
     <1>23, <1>24, <1>25, <1>26, <1>27, <1>28, <1>29
  DEF Next, Start, Step

----------------------------------------------------------------------------
\* Layer 4: who keeps each orphan.

\* At first there is no orphan to keep.
LEMMA KeeperInit == Init => OneKeeper /\ NoStray
BY DEF Init, OneKeeper, NoStray, InHand, Dentries

\* A step hands an orphan from its one keeper to the next, or frees it.
LEMMA OneKeeperStep == TypeOK /\ LocalsInv /\ LockInv /\ SlotInv /\ OneKeeper /\ [Next]_vars => OneKeeper'
<1> SUFFICES ASSUME TypeOK, LocalsInv, LockInv, SlotInv, OneKeeper, [Next]_vars PROVE OneKeeper'
  OBVIOUS
<1> USE DEF TypeOK, LocalsInv, LockInv, SlotInv, SlotConsistent, InHand, Labels, Dentries, Locking, Goto, Return, table, globals, sizes, InUse, OneKeeper
<1>1. ASSUME NEW t \in Threads, NEW f \in TreeFiles, OpenTree(t, f) PROVE OneKeeper'
  BY <1>1 DEF OpenTree
<1>2. ASSUME NEW t \in Threads, OpenCreat(t) PROVE OneKeeper'
  BY <1>2 DEF OpenCreat
<1>3. ASSUME NEW t \in Threads, NEW h \in Handles, Close(t, h) PROVE OneKeeper'
  BY <1>3 DEF Close
<1>4. ASSUME NEW t \in Threads, NEW h \in Handles, Read(t, h) PROVE OneKeeper'
  BY <1>4 DEF Read
<1>5. ASSUME NEW t \in Threads, NEW h \in Handles, NEW e \in Ends, Write(t, h, e) PROVE OneKeeper'
  BY <1>5 DEF Write
<1>6. ASSUME NEW t \in Threads, AllocScan(t) PROVE OneKeeper'
  BY <1>6 DEF AllocScan
<1>7. ASSUME NEW t \in Threads, AllocFull(t) PROVE OneKeeper'
  BY <1>7 DEF AllocFull
<1>8. ASSUME NEW t \in Threads, AllocLock(t) PROVE OneKeeper'
  BY <1>8 DEF AllocLock
<1>9. ASSUME NEW t \in Threads, AllocCheck(t) PROVE OneKeeper'
  BY <1>9 DEF AllocCheck
<1>10. ASSUME NEW t \in Threads, AllocFill(t) PROVE OneKeeper'
  BY <1>10 DEF AllocFill
<1>11. ASSUME NEW t \in Threads, CloseGet(t) PROVE OneKeeper'
  BY <1>11 DEF CloseGet, Found
<1>12. ASSUME NEW t \in Threads, FreeGet(t) PROVE OneKeeper'
  BY <1>12 DEF FreeGet, Found
<1>13. ASSUME NEW t \in Threads, FreeLock(t) PROVE OneKeeper'
  BY <1>13 DEF FreeLock
<1>14. ASSUME NEW t \in Threads, FreeMark(t) PROVE OneKeeper'
  BY <1>14 DEF FreeMark
<1>15. ASSUME NEW t \in Threads, FreeClear(t) PROVE OneKeeper'
  BY <1>15 DEF FreeClear
<1>16. ASSUME NEW t \in Threads, Release(t) PROVE OneKeeper'
  BY <1>16 DEF Release
<1>17. ASSUME NEW t \in Threads, IoGet(t) PROVE OneKeeper'
  BY <1>17 DEF IoGet, Found
<1>18. ASSUME NEW t \in Threads, IoDentry(t) PROVE OneKeeper'
  BY <1>18 DEF IoDentry, Fallback
<1>19. ASSUME NEW t \in Threads, ReadUse(t) PROVE OneKeeper'
  BY <1>19 DEF ReadUse
<1>20. ASSUME NEW t \in Threads, WriteTest(t) PROVE OneKeeper'
  BY <1>20 DEF WriteTest, Wrote, Race
<1>21. ASSUME NEW t \in Threads, WriteSize(t) PROVE OneKeeper'
  BY <1>21 DEF WriteSize, Wrote
<1>23. ASSUME NEW t \in Threads, VfsLock(t) PROVE OneKeeper'
  BY <1>23 DEF VfsLock
<1>24. ASSUME NEW t \in Threads, BackendLock(t) PROVE OneKeeper'
  BY <1>24 DEF BackendLock
<1>25. ASSUME NEW t \in Threads, OpenFind(t) PROVE OneKeeper'
  BY <1>25 DEF OpenFind
<1>26. ASSUME NEW t \in Threads, CreatHandle(t) PROVE OneKeeper'
  BY <1>26 DEF CreatHandle
<1>27. ASSUME NEW t \in Threads, IoFind(t) PROVE OneKeeper'
  BY <1>27 DEF IoFind, Fallback
<1>28. ASSUME NEW t \in Threads, Lookup(t) PROVE OneKeeper'
  BY <1>28 DEF Lookup
<1>29. ASSUME NEW t \in Threads, IoHost(t) PROVE OneKeeper'
  BY <1>29 DEF IoHost
<1>22. CASE UNCHANGED vars
  BY <1>22 DEF vars
<1> QED
  BY <1>1, <1>2, <1>3, <1>4, <1>5, <1>6, <1>7, <1>8, <1>9, <1>10, <1>11, <1>12, <1>13, <1>14,
     <1>15, <1>16, <1>17, <1>18, <1>19, <1>20, <1>21, <1>22,
     <1>23, <1>24, <1>25, <1>26, <1>27, <1>28, <1>29
  DEF Next, Start, Step

\* A step never drops an orphan but by a free or by -EMFILE.
LEMMA NoStrayStep == TypeOK /\ LocalsInv /\ LockInv /\ SlotInv /\ NoStray /\ [Next]_vars => NoStray'
<1> SUFFICES ASSUME TypeOK, LocalsInv, LockInv, SlotInv, NoStray, [Next]_vars PROVE NoStray'
  OBVIOUS
<1> USE DEF TypeOK, LocalsInv, LockInv, SlotInv, SlotConsistent, InHand, Labels, Dentries, Locking, Goto, Return, table, globals, sizes, InUse, NoStray
<1>1. ASSUME NEW t \in Threads, NEW f \in TreeFiles, OpenTree(t, f) PROVE NoStray'
  BY <1>1 DEF OpenTree
<1>2. ASSUME NEW t \in Threads, OpenCreat(t) PROVE NoStray'
  BY <1>2 DEF OpenCreat
<1>3. ASSUME NEW t \in Threads, NEW h \in Handles, Close(t, h) PROVE NoStray'
  BY <1>3 DEF Close
<1>4. ASSUME NEW t \in Threads, NEW h \in Handles, Read(t, h) PROVE NoStray'
  BY <1>4 DEF Read
<1>5. ASSUME NEW t \in Threads, NEW h \in Handles, NEW e \in Ends, Write(t, h, e) PROVE NoStray'
  BY <1>5 DEF Write
<1>6. ASSUME NEW t \in Threads, AllocScan(t) PROVE NoStray'
  BY <1>6 DEF AllocScan
<1>7. ASSUME NEW t \in Threads, AllocFull(t) PROVE NoStray'
  BY <1>7 DEF AllocFull
<1>8. ASSUME NEW t \in Threads, AllocLock(t) PROVE NoStray'
  BY <1>8 DEF AllocLock
<1>9. ASSUME NEW t \in Threads, AllocCheck(t) PROVE NoStray'
  BY <1>9 DEF AllocCheck
<1>10. ASSUME NEW t \in Threads, AllocFill(t) PROVE NoStray'
  BY <1>10 DEF AllocFill
<1>11. ASSUME NEW t \in Threads, CloseGet(t) PROVE NoStray'
  BY <1>11 DEF CloseGet, Found
<1>12. ASSUME NEW t \in Threads, FreeGet(t) PROVE NoStray'
  BY <1>12 DEF FreeGet, Found
<1>13. ASSUME NEW t \in Threads, FreeLock(t) PROVE NoStray'
  BY <1>13 DEF FreeLock
<1>14. ASSUME NEW t \in Threads, FreeMark(t) PROVE NoStray'
  BY <1>14 DEF FreeMark
<1>15. ASSUME NEW t \in Threads, FreeClear(t) PROVE NoStray'
  BY <1>15 DEF FreeClear
<1>16. ASSUME NEW t \in Threads, Release(t) PROVE NoStray'
  BY <1>16 DEF Release
<1>17. ASSUME NEW t \in Threads, IoGet(t) PROVE NoStray'
  BY <1>17 DEF IoGet, Found
<1>18. ASSUME NEW t \in Threads, IoDentry(t) PROVE NoStray'
  BY <1>18 DEF IoDentry, Fallback
<1>19. ASSUME NEW t \in Threads, ReadUse(t) PROVE NoStray'
  BY <1>19 DEF ReadUse
<1>20. ASSUME NEW t \in Threads, WriteTest(t) PROVE NoStray'
  BY <1>20 DEF WriteTest, Wrote, Race
<1>21. ASSUME NEW t \in Threads, WriteSize(t) PROVE NoStray'
  BY <1>21 DEF WriteSize, Wrote
<1>23. ASSUME NEW t \in Threads, VfsLock(t) PROVE NoStray'
  BY <1>23 DEF VfsLock
<1>24. ASSUME NEW t \in Threads, BackendLock(t) PROVE NoStray'
  BY <1>24 DEF BackendLock
<1>25. ASSUME NEW t \in Threads, OpenFind(t) PROVE NoStray'
  BY <1>25 DEF OpenFind
<1>26. ASSUME NEW t \in Threads, CreatHandle(t) PROVE NoStray'
  BY <1>26 DEF CreatHandle
<1>27. ASSUME NEW t \in Threads, IoFind(t) PROVE NoStray'
  BY <1>27 DEF IoFind, Fallback
<1>28. ASSUME NEW t \in Threads, Lookup(t) PROVE NoStray'
  BY <1>28 DEF Lookup
<1>29. ASSUME NEW t \in Threads, IoHost(t) PROVE NoStray'
  BY <1>29 DEF IoHost
<1>22. CASE UNCHANGED vars
  BY <1>22 DEF vars
<1> QED
  BY <1>1, <1>2, <1>3, <1>4, <1>5, <1>6, <1>7, <1>8, <1>9, <1>10, <1>11, <1>12, <1>13, <1>14,
     <1>15, <1>16, <1>17, <1>18, <1>19, <1>20, <1>21, <1>22,
     <1>23, <1>24, <1>25, <1>26, <1>27, <1>28, <1>29
  DEF Next, Start, Step

----------------------------------------------------------------------------
\* Layer 5: callers that pass only their own open handles.

\* At first no handle is held.
LEMMA CallerInit == Init => CallerInv
BY DEF Init, CallerInv, HandleIntegrity, Closing, Using, InUse

\* A caller that passes only its own open handles disturbs no other caller's.
LEMMA CallerStep == Private /\ TypeOK /\ LocalsInv /\ LockInv /\ SlotInv /\ CallerInv /\ [Next]_vars => CallerInv'
<1> SUFFICES ASSUME Private, TypeOK, LocalsInv, LockInv, SlotInv, CallerInv, [Next]_vars PROVE CallerInv'
  OBVIOUS
<1> USE DEF TypeOK, LocalsInv, LockInv, SlotInv, SlotConsistent, InHand, Labels,
           Dentries, Locking, Goto, Return, table, globals, sizes, InUse, CallerInv, HandleIntegrity, Closing, Using, Passable
<1>1. ASSUME NEW t \in Threads, NEW f \in TreeFiles, OpenTree(t, f) PROVE CallerInv'
  BY <1>1 DEF OpenTree
<1>2. ASSUME NEW t \in Threads, OpenCreat(t) PROVE CallerInv'
  BY <1>2 DEF OpenCreat
<1>3. ASSUME NEW t \in Threads, NEW h \in Handles, Close(t, h) PROVE CallerInv'
  BY <1>3 DEF Close
<1>4. ASSUME NEW t \in Threads, NEW h \in Handles, Read(t, h) PROVE CallerInv'
  BY <1>4 DEF Read
<1>5. ASSUME NEW t \in Threads, NEW h \in Handles, NEW e \in Ends, Write(t, h, e) PROVE CallerInv'
  BY <1>5 DEF Write
<1>6. ASSUME NEW t \in Threads, AllocScan(t) PROVE CallerInv'
  BY <1>6 DEF AllocScan
<1>7. ASSUME NEW t \in Threads, AllocFull(t) PROVE CallerInv'
  BY <1>7 DEF AllocFull
<1>8. ASSUME NEW t \in Threads, AllocLock(t) PROVE CallerInv'
  BY <1>8 DEF AllocLock
<1>9. ASSUME NEW t \in Threads, AllocCheck(t) PROVE CallerInv'
  BY <1>9 DEF AllocCheck
<1>10. ASSUME NEW t \in Threads, AllocFill(t) PROVE CallerInv'
  BY <1>10 DEF AllocFill
<1>11. ASSUME NEW t \in Threads, CloseGet(t) PROVE CallerInv'
  BY <1>11 DEF CloseGet, Found
<1>12. ASSUME NEW t \in Threads, FreeGet(t) PROVE CallerInv'
  BY <1>12 DEF FreeGet, Found
<1>13. ASSUME NEW t \in Threads, FreeLock(t) PROVE CallerInv'
  BY <1>13 DEF FreeLock
<1>14. ASSUME NEW t \in Threads, FreeMark(t) PROVE CallerInv'
  BY <1>14 DEF FreeMark
<1>15. ASSUME NEW t \in Threads, FreeClear(t) PROVE CallerInv'
  <2>1. /\ pc[t] = "free_clear" /\ fh[t] \in Slots /\ dentry' = [dentry EXCEPT ![fh[t]] = NoDentry]
        /\ UNCHANGED <<inUse, held>> /\ ~inUse[fh[t]]
        /\ \A u \in Threads \ {t} : pc'[u] = pc[u] /\ fh'[u] = fh[u] /\ d'[u] = d[u]
        /\ pc'[t] \in {"idle", "release"}
    BY <1>15 DEF FreeClear
  <2>2. HandleIntegrity'
    BY <2>1
  <2>3. \A u \in Threads : (Closing(u)' => Closing(u) /\ u # t) /\ (Using(u)' => Using(u) /\ u # t)
    BY <2>1
  <2>4. \A u \in Threads : InUse(u)' => InUse(u) /\ u # t
    BY <2>1
  <2> QED BY <2>1, <2>2, <2>3, <2>4
<1>16. ASSUME NEW t \in Threads, Release(t) PROVE CallerInv'
  BY <1>16 DEF Release
<1>17. ASSUME NEW t \in Threads, IoGet(t) PROVE CallerInv'
  BY <1>17 DEF IoGet, Found
<1>18. ASSUME NEW t \in Threads, IoDentry(t) PROVE CallerInv'
  <2>1. CASE dentry[fh[t]] = NoDentry BY <1>18, <2>1 DEF IoDentry
  <2>2. CASE dentry[fh[t]] # NoDentry
    <3>1. PICK g \in held[t] : g[1] = fh[t] BY <1>18 DEF IoDentry
    <3>2. g = <<fh[t], dentry[fh[t]]>> BY <3>1, <1>18
    <3>3. <<fh[t], dentry[fh[t]]>> \in held[t] BY <3>1, <3>2
    <3>4. /\ UNCHANGED <<inUse, dentry, held, fh>>
          /\ d' = [d EXCEPT ![t] = dentry[fh[t]]]
          /\ pc[t] = "io_dentry" /\ ~Closing(t)'
          /\ \A u \in Threads \ {t} : pc'[u] = pc[u]
      BY <1>18, <2>2 DEF IoDentry, Fallback
    <3>5. HandleIntegrity' BY <3>4
    <3>6. \A u \in Threads : Closing(u)' => Closing(u) BY <3>4
    <3>7. \A u \in Threads : Using(u)' => Using(u) BY <3>4
    <3>8. \A u \in Threads : InUse(u)' => <<fh'[u], d'[u]>> \in held'[u]
      BY <3>3, <3>4
    <3> QED BY <3>4, <3>5, <3>6, <3>7, <3>8
  <2> QED BY <2>1, <2>2
<1>19. ASSUME NEW t \in Threads, ReadUse(t) PROVE CallerInv'
  BY <1>19 DEF ReadUse
<1>20. ASSUME NEW t \in Threads, WriteTest(t) PROVE CallerInv'
  BY <1>20 DEF WriteTest, Wrote, Race
<1>21. ASSUME NEW t \in Threads, WriteSize(t) PROVE CallerInv'
  BY <1>21 DEF WriteSize, Wrote
<1>23. ASSUME NEW t \in Threads, VfsLock(t) PROVE CallerInv'
  BY <1>23 DEF VfsLock
<1>24. ASSUME NEW t \in Threads, BackendLock(t) PROVE CallerInv'
  BY <1>24 DEF BackendLock
<1>25. ASSUME NEW t \in Threads, OpenFind(t) PROVE CallerInv'
  <2>1. /\ pc[t] = "open_find" /\ UNCHANGED <<inUse, dentry, held>>
        /\ \A u \in Threads \ {t} : pc'[u] = pc[u] /\ fh'[u] = fh[u] /\ d'[u] = d[u]
        /\ pc'[t] \in {"idle", "creat_lock", "scan"}
    <3>1. CASE Return(t) BY <1>25, <3>1 DEF OpenFind
    <3>2. CASE ~Return(t) BY <1>25, <3>2 DEF OpenFind
    <3> QED BY <3>1, <3>2
  <2>2. HandleIntegrity'
    BY <2>1
  <2>3. \A u \in Threads : (Closing(u)' => Closing(u) /\ u # t) /\ (Using(u)' => Using(u) /\ u # t)
    BY <2>1
  <2>4. \A u \in Threads : InUse(u)' => InUse(u) /\ u # t
    BY <2>1
  <2> QED BY <2>1, <2>2, <2>3, <2>4
<1>26. ASSUME NEW t \in Threads, CreatHandle(t) PROVE CallerInv'
  <2>1. /\ pc[t] = "creat_handle" /\ UNCHANGED <<inUse, dentry, held>>
        /\ \A u \in Threads \ {t} : pc'[u] = pc[u] /\ fh'[u] = fh[u] /\ d'[u] = d[u]
        /\ pc'[t] \in {"idle", "scan"}
    <3>1. CASE Return(t) BY <1>26, <3>1 DEF CreatHandle
    <3>2. CASE ~Return(t) BY <1>26, <3>2 DEF CreatHandle
    <3> QED BY <3>1, <3>2
  <2>2. HandleIntegrity'
    BY <2>1
  <2>3. \A u \in Threads : (Closing(u)' => Closing(u) /\ u # t) /\ (Using(u)' => Using(u) /\ u # t)
    BY <2>1
  <2>4. \A u \in Threads : InUse(u)' => InUse(u) /\ u # t
    BY <2>1
  <2> QED BY <2>1, <2>2, <2>3, <2>4
<1>27. ASSUME NEW t \in Threads, IoFind(t) PROVE CallerInv'
  BY <1>27 DEF IoFind, Fallback
<1>28. ASSUME NEW t \in Threads, Lookup(t) PROVE CallerInv'
  BY <1>28 DEF Lookup
<1>29. ASSUME NEW t \in Threads, IoHost(t) PROVE CallerInv'
  BY <1>29 DEF IoHost
<1>22. CASE UNCHANGED vars
  BY <1>22 DEF vars
<1> QED
  BY <1>1, <1>2, <1>3, <1>4, <1>5, <1>6, <1>7, <1>8, <1>9, <1>10, <1>11, <1>12, <1>13, <1>14,
     <1>15, <1>16, <1>17, <1>18, <1>19, <1>20, <1>21, <1>22,
     <1>23, <1>24, <1>25, <1>26, <1>27, <1>28, <1>29
  DEF Next, Start, Step

----------------------------------------------------------------------------
\* Theorems.

\* The inductive invariant holds of every run of the table: types, the owners of the
\* locks, the state of each slot, and exactly one keeper for every live orphan.
\* (fh_alloc, fh_get, fh_free and vfs_dentry_release under any interleaving.)
THEOREM Invariance == Spec => []IInv
<1>1. Init => IInv
  BY TypeInit, LockInit, SlotInit, KeeperInit DEF IInv
<1>2. IInv /\ [Next]_vars => IInv'
  BY TypeStep, LockStep, SlotStep, OneKeeperStep, NoStrayStep DEF IInv
<1> QED BY <1>1, <1>2, PTL DEF Spec

\* Type correctness of the table, the heap and the threads' locals.
THEOREM TypeCorrect == Spec => []TypeOK
<1>1. IInv => TypeOK BY DEF IInv
<1> QED BY <1>1, Invariance, PTL

\* The free at the end of vfs_close never frees twice and never frees what another
\* slot or call still keeps, even when several threads close the same handle while
\* an open reuses its slot.
THEOREM OneKeeperAlways == Spec => []OneKeeper
<1>1. IInv => OneKeeper BY DEF IInv
<1> QED BY <1>1, Invariance, PTL

\* Memory allocated by a creating open stays reachable from a slot or a call until it
\* is freed, except when the open returned -EMFILE.
THEOREM NoStrayAlways == Spec => []NoStray
<1>1. IInv => NoStray BY DEF IInv
<1> QED BY <1>1, Invariance, PTL

\* No slot is lost to the table: outside a critical section a slot is in use exactly
\* when it names a dentry.
THEOREM SlotConsistentAlways == Spec => []SlotConsistent
<1>1. IInv => SlotConsistent BY DEF IInv, SlotInv
<1> QED BY <1>1, Invariance, PTL

\* What callers who keep their handles to themselves may rely on at any time.
LEMMA CallerInvariance == ASSUME Private PROVE Spec => []CallerInv
<1>1. Init => CallerInv
  BY CallerInit
<1>2. IInv /\ CallerInv /\ [Next]_vars => CallerInv'
  BY CallerStep DEF IInv
<1> QED BY <1>1, <1>2, Invariance, PTL DEF Spec

\* If callers pass only handles they opened and have not closed, a handle names its
\* own dentry until its owner closes it, whatever the other threads do.
THEOREM HandleIntegrityAlways == ASSUME Private PROVE Spec => []HandleIntegrity
<1>1. CallerInv => HandleIntegrity BY DEF CallerInv
<1> QED BY <1>1, CallerInvariance, PTL

\* Under the same discipline vfs_read and vfs_write never touch a freed dentry, though
\* they hold no lock of it, and no reference, while they use it.
THEOREM NoUseAfterFreeAlways == ASSUME Private PROVE Spec => []NoUseAfterFree
<1>1. IInv /\ CallerInv => NoUseAfterFree
  <2> SUFFICES ASSUME IInv, CallerInv, NEW t \in Threads,
                      InUse(t)
               PROVE Alive(d[t])
    BY DEF NoUseAfterFree
  <2>1. <<fh[t], d[t]>> \in held[t] BY DEF CallerInv
  <2>2. fh[t] \in Slots /\ dentry[fh[t]] = d[t]
    BY <2>1 DEF CallerInv, HandleIntegrity, IInv, TypeOK
  <2>3. d[t] \in Dentries BY DEF IInv, LocalsInv
  <2> QED BY <2>2, <2>3 DEF IInv, OneKeeper, Alive, Dentries
<1> QED BY <1>1, Invariance, CallerInvariance, PTL

\* Once both are past the test, two writes of one file have been seen to race. A step that
\* writes no size only shrinks the set of writes about to store.
LEMMA WritesStep == IInv /\ WritesInv /\ [Next]_vars => WritesInv'
<1> SUFFICES ASSUME IInv, WritesInv, [Next]_vars PROVE WritesInv'
  OBVIOUS
<1> USE DEF IInv, TypeOK, Goto, Return, Storing
<1>0. /\ \A x \in Dentries : size[x] \in Nat /\ written[x] \in Nat
      /\ \A t \in Threads : end[t] \in Nat
  BY SlotsAssumption DEF Ends
<1> DEFINE Same ==
      /\ UNCHANGED <<size, written, raced>>
      /\ \A u \in Threads : pc'[u] = "write_size" => pc[u] = "write_size" /\ d'[u] = d[u] /\ end'[u] = end[u]
<1>1. ASSUME Same PROVE WritesInv'
  BY <1>1 DEF WritesInv, OnlyRacesLoseSize
<1>2. ASSUME NEW t \in Threads, WriteTest(t) PROVE WritesInv'
  <2>1. CASE end[t] > size[d[t]]
    <3>1. /\ pc[t] = "write_test" /\ d[t] \in Dentries
          /\ UNCHANGED <<size, written, d, end>>
          /\ Race(t)
          /\ pc' = [pc EXCEPT ![t] = "write_size"]
      BY <1>0, <1>2, <2>1 DEF WriteTest, LocalsInv, InUse
    <3>2. raced \subseteq raced'
      BY <3>1 DEF Race
    <3>3. ASSUME NEW u \in Threads \ {t}, Storing(u)' PROVE Storing(u) /\ d[u] # d[t]
      BY <3>1, <3>2, <3>3 DEF Race
    <3>4. OnlyRacesLoseSize'
      BY <3>1, <3>2 DEF WritesInv, OnlyRacesLoseSize
    <3> QED BY <2>1, <3>1, <3>3, <3>4 DEF WritesInv
  <2>2. CASE end[t] <= size[d[t]]
    <3>1. /\ size' = size /\ raced' = raced /\ d[t] \in Dentries
          /\ written' = [written EXCEPT ![d[t]] = IF end[t] > @ THEN end[t] ELSE @]
          /\ \A u \in Threads : pc'[u] = "write_size" => pc[u] = "write_size" /\ d'[u] = d[u] /\ end'[u] = end[u]
      BY <1>0, <1>2, <2>2 DEF WriteTest, Wrote, LocalsInv, InUse
    <3>2. OnlyRacesLoseSize'
      BY <1>0, <2>2, <3>1 DEF WritesInv, OnlyRacesLoseSize
    <3> QED BY <3>1, <3>2 DEF WritesInv
  <2> QED BY <1>2, <2>1, <2>2 DEF WriteTest
<1>3. ASSUME NEW t \in Threads, WriteSize(t) PROVE WritesInv'
  <2>1. /\ pc[t] = "write_size" /\ d[t] \in Dentries /\ raced' = raced
        /\ size' = [size EXCEPT ![d[t]] = end[t]]
        /\ written' = [written EXCEPT ![d[t]] = IF end[t] > @ THEN end[t] ELSE @]
        /\ \A u \in Threads : pc'[u] = "write_size" => u # t /\ pc[u] = "write_size" /\ d'[u] = d[u] /\ end'[u] = end[u]
    BY <1>3 DEF WriteSize, Wrote, LocalsInv, InUse
  <2>2. ASSUME NEW x \in Dentries \ raced PROVE size'[x] >= written'[x]
    <3>1. CASE x = d[t]
      BY <1>0, <2>1, <3>1 DEF WritesInv, OnlyRacesLoseSize
    <3>2. CASE x # d[t]
      BY <2>1, <3>2 DEF WritesInv, OnlyRacesLoseSize
    <3> QED BY <3>1, <3>2
  <2>3. ASSUME NEW u \in Threads, Storing(u)'
        PROVE  u # t /\ Storing(u) /\ d'[u] = d[u] /\ end'[u] = end[u] /\ d[u] # d[t]
    BY <2>1, <2>3 DEF WritesInv
  <2>4. \A u \in Threads : Storing(u)' => end'[u] > size'[d'[u]]
    BY <2>1, <2>3 DEF WritesInv
  <2> QED BY <2>1, <2>2, <2>3, <2>4 DEF WritesInv, OnlyRacesLoseSize
<1>4. ASSUME NEW t \in Threads, Release(t) PROVE WritesInv'
  <2>1. CASE d[t] \in Orphans
    <3>1. /\ raced' = raced /\ d[t] \in Dentries
          /\ size' = [size EXCEPT ![d[t]] = 0] /\ written' = [written EXCEPT ![d[t]] = 0]
          /\ \A u \in Threads : pc'[u] = "write_size" => pc[u] = "write_size" /\ d'[u] = d[u] /\ end'[u] = end[u]
      BY <1>4, <2>1 DEF Release, Dentries
    <3>2. OnlyRacesLoseSize'
      BY <3>1 DEF WritesInv, OnlyRacesLoseSize
    <3>3. ASSUME NEW u \in Threads, Storing(u)' PROVE end'[u] > size'[d'[u]]
      <4>1. Storing(u) /\ d'[u] = d[u] /\ end'[u] = end[u] /\ d[u] \in Dentries
        BY <3>1, <3>3 DEF LocalsInv, InUse
      <4>2. end[u] > size[d[u]] /\ end[u] > 0
        BY <1>0, <4>1 DEF WritesInv
      <4> QED BY <3>1, <4>1, <4>2
    <3> QED BY <3>1, <3>2, <3>3 DEF WritesInv
  <2>2. CASE d[t] \notin Orphans
    BY <1>1, <1>4, <2>2 DEF Release
  <2> QED BY <2>1, <2>2
<1>5. ASSUME NEW t \in Threads,
             \/ \E f \in TreeFiles : OpenTree(t, f)
             \/ OpenCreat(t) \/ VfsLock(t) \/ BackendLock(t) \/ OpenFind(t) \/ CreatHandle(t)
      PROVE  Same
  BY <1>5 DEF OpenTree, OpenCreat, VfsLock, BackendLock, OpenFind, CreatHandle, sizes
<1>6. ASSUME NEW t \in Threads,
             \/ \E h \in Handles : Close(t, h) \/ Read(t, h)
             \/ \E h \in Handles, e \in Ends : Write(t, h, e)
             \/ AllocScan(t) \/ AllocFull(t) \/ AllocLock(t) \/ AllocCheck(t) \/ AllocFill(t)
      PROVE  Same
  BY <1>6 DEF Close, Read, Write, AllocScan, AllocFull, AllocLock, AllocCheck, AllocFill, sizes
<1>7. ASSUME NEW t \in Threads,
             CloseGet(t) \/ FreeGet(t) \/ FreeLock(t) \/ FreeMark(t) \/ FreeClear(t)
      PROVE  Same
  BY <1>7 DEF CloseGet, FreeGet, FreeLock, FreeMark, FreeClear, sizes
<1>8. ASSUME NEW t \in Threads,
             IoGet(t) \/ IoDentry(t) \/ IoFind(t) \/ Lookup(t) \/ IoHost(t) \/ ReadUse(t)
      PROVE  Same
  BY <1>8 DEF IoGet, IoDentry, IoFind, Lookup, IoHost, ReadUse, Fallback, sizes
<1>9. CASE UNCHANGED vars
  BY <1>1, <1>9 DEF vars
<1> HIDE DEF Same, IInv, TypeOK, Goto, Return, Storing
<1>10. ASSUME NEW t \in Threads, Start(t) PROVE Same
  BY <1>5, <1>6, <1>10 DEF Start
<1>11. ASSUME NEW t \in Threads, Step(t) PROVE WritesInv'
  BY <1>1, <1>2, <1>3, <1>4, <1>5, <1>6, <1>7, <1>8, <1>11 DEF Step
<1> QED
  BY <1>1, <1>9, <1>10, <1>11 DEF Next

\* Whatever handles callers pass, a file that no two writes have found too small at once is
\* as long as any write that has returned: vfs_write's unlocked test and store lose a size
\* in that overlap and in no other way.
THEOREM OnlyRacesLoseSizeAlways == Spec => []OnlyRacesLoseSize
<1>1. Init => WritesInv
  BY SlotsAssumption DEF Init, WritesInv, OnlyRacesLoseSize, Storing, Dentries
<1>2. IInv /\ WritesInv /\ [Next]_vars => WritesInv'
  BY WritesStep
<1>3. WritesInv => OnlyRacesLoseSize BY DEF WritesInv
<1> QED BY <1>1, <1>2, <1>3, Invariance, PTL DEF Spec

\* The lock-based table implements the atomic one: each step of a thread is a grant, a
\* revocation, a reclamation, or nothing to a caller.
THEOREM Refinement == Spec => RefinesHandleTable
<1> USE DEF Goto, Return, table, globals, sizes, InUse, Abstract!vars
<1> DEFINE Freed == {o \in Orphans : heap[o] = "freed"}
<1>1. Init => Abstract!Init
  BY DEF Init, Abstract!Init
<1>2. ASSUME IInv, [Next]_vars PROVE [Abstract!Next]_(Abstract!vars)
  <2> USE <1>2 DEF IInv, TypeOK
  <2>1. ASSUME NEW t \in Threads, AllocFill(t) PROVE Abstract!Next
    <3>1. /\ fh[t] \in Slots /\ d[t] \in Dentries /\ dentry[fh[t]] = NoDentry
          /\ d[t] \in Orphans => heap[d[t]] = "live" /\ \A k \in Slots : dentry[k] # d[t]
      BY <2>1 DEF AllocFill, LocalsInv, SlotInv, OneKeeper, InHand, Locking
    <3>2. d[t] \notin Freed BY <3>1
    <3>3. Abstract!Grant(fh[t], d[t])
      BY <2>1, <3>1, <3>2 DEF AllocFill, Abstract!Grant
    <3> QED BY <3>1, <3>3 DEF Abstract!Next, Abstract!Dentries, Dentries
  <2>2. ASSUME NEW t \in Threads, FreeClear(t) PROVE [Abstract!Next]_(Abstract!vars)
    <3>1. fh[t] \in Slots /\ dentry[fh[t]] = d[t]
      BY <2>2 DEF FreeClear, LocalsInv, SlotInv, Locking
    <3>2. CASE d[t] = NoDentry BY <2>2, <3>1, <3>2 DEF FreeClear
    <3>3. CASE d[t] # NoDentry
      <4>1. Abstract!Revoke(fh[t]) BY <2>2, <3>1, <3>3 DEF FreeClear, Abstract!Revoke
      <4> QED BY <3>1, <4>1 DEF Abstract!Next
    <3> QED BY <3>2, <3>3
  <2>3. ASSUME NEW t \in Threads, Release(t) PROVE [Abstract!Next]_(Abstract!vars)
    <3>1. ASSUME NEW o \in Orphans, d[t] = o PROVE Abstract!Next
      <4>1. heap[o] = "live" /\ \A k \in Slots : dentry[k] # o
        BY <2>3, <3>1 DEF Release, OneKeeper, InHand
      <4>2. Freed' = Freed \cup {o} BY <2>3, <3>1 DEF Release
      <4>3. o \notin Freed BY <4>1
      <4>4. UNCHANGED dentry BY <2>3 DEF Release
      <4>5. Abstract!Reclaim(o) BY <4>1, <4>2, <4>3, <4>4 DEF Abstract!Reclaim
      <4> QED BY <4>5 DEF Abstract!Next
    <3>2. CASE d[t] \notin Orphans
      <4>1. Freed' = Freed BY <2>3, <3>2 DEF Release
      <4> QED BY <2>3, <4>1 DEF Release
    <3> QED BY <3>1, <3>2
  <2>4. ASSUME NEW t \in Threads, CreatHandle(t)
        PROVE UNCHANGED Abstract!vars
    <3>1. Freed' = Freed BY <2>4 DEF CreatHandle
    <3> QED BY <2>4, <3>1 DEF CreatHandle
  <2>5. UNCHANGED <<dentry, heap>> => UNCHANGED Abstract!vars
    OBVIOUS
  <2>6. ASSUME NEW t \in Threads,
               \/ OpenCreat(t) \/ \E f \in TreeFiles : OpenTree(t, f)
               \/ \E h \in Handles : Close(t, h) \/ Read(t, h)
               \/ \E h \in Handles, e \in Ends : Write(t, h, e)
               \/ VfsLock(t) \/ BackendLock(t) \/ OpenFind(t) \/ AllocScan(t) \/ AllocFull(t) \/ AllocLock(t) \/ AllocCheck(t)
               \/ CloseGet(t) \/ FreeGet(t) \/ FreeLock(t) \/ FreeMark(t)
               \/ IoGet(t) \/ IoDentry(t) \/ IoFind(t) \/ Lookup(t) \/ IoHost(t)
               \/ ReadUse(t) \/ WriteTest(t) \/ WriteSize(t)
        PROVE UNCHANGED <<dentry, heap>>
    BY <2>6 DEF OpenCreat, OpenTree, Close, Read, Write, VfsLock, BackendLock, OpenFind, AllocScan, AllocFull, AllocLock, AllocCheck,
       CloseGet, FreeGet, FreeLock, FreeMark, IoGet, IoDentry, IoFind, Lookup, IoHost, ReadUse, WriteTest, WriteSize
  <2>7. CASE UNCHANGED vars BY <2>5, <2>7 DEF vars
  <2> QED BY <2>1, <2>2, <2>3, <2>4, <2>5, <2>6, <2>7 DEF Next, Start, Step
<1> QED BY <1>1, <1>2, Invariance, PTL DEF Spec, RefinesHandleTable, Abstract!Spec
=============================================================================
