----------------------------- MODULE MCTreeWalks -----------------------------
(***************************************************************************)
(* TreeWalks with two threads, a sample tree of a directory and a file, a  *)
(* mountpoint beside it, and paths that share their first name.            *)
(***************************************************************************)
EXTENDS TreeWalks, TLC

CONSTANTS t1, t2

D == <<"d">>
DirAndFile == <<[name |-> "d", below |-> 0], [name |-> "f", below |-> 1]>>
MountOnD == {D}
BelowD == {<<"d", "f">>, <<"d", "g">>}

\* Threads are interchangeable.
Symmetry == Permutations(Threads)
=============================================================================
