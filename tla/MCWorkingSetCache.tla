-------------------------- MODULE MCWorkingSetCache --------------------------
(***************************************************************************)
(* WorkingSetCache with room for three blocks, of four: two of them share  *)
(* a bucket of the six.                                                    *)
(***************************************************************************)
EXTENDS WorkingSetCache, TLC

CONSTANTS x, y

\* What a block holds does not matter.
Symmetry == Permutations(Data)
=============================================================================
