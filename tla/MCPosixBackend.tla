--------------------------- MODULE MCPosixBackend ---------------------------
(***************************************************************************)
(* PosixBackend with few threads, tables that start with one entry and     *)
(* grow once, and fewer descriptors than entries.                          *)
(***************************************************************************)
EXTENDS PosixBackend, TLC

CONSTANTS t1, t2, f1, f2

\* Threads and files are interchangeable.
Symmetry == Permutations(Threads) \cup Permutations(Files)
=============================================================================
