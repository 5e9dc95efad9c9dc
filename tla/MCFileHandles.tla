--------------------------- MODULE MCFileHandles ---------------------------
(***************************************************************************)
(* FileHandles on small sets of threads, slots and dentries.               *)
(***************************************************************************)
EXTENDS FileHandles, TLC

CONSTANTS t1, t2, t3, o1, o2

\* Safety only: threads are interchangeable, and so are orphans.
Symmetry == Permutations(Threads) \cup Permutations(Orphans)
============================================================================
