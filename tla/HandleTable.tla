---------------------------- MODULE HandleTable ----------------------------
(***************************************************************************)
(* What the file handle table of vfs_core.c promises its callers, without  *)
(* locks and without the moments inside a call: a handle number names at   *)
(* most one open dentry, it is granted and revoked in one step, an orphan  *)
(* dentry (one that no tree holds) is named by at most one handle, and its *)
(* memory is reclaimed once, after no handle names it.                     *)
(***************************************************************************)
CONSTANTS Slots,       \* the handle numbers
          Orphans,     \* dentries a handle alone keeps alive
          TreeFiles,   \* dentries a mount's tree keeps alive
          NoDentry     \* the empty slot

VARIABLES table,       \* handle number -> the dentry it names, or NoDentry
          reclaimed    \* the orphans whose memory has been given back

vars == <<table, reclaimed>>

Dentries == Orphans \cup TreeFiles

Init == /\ table = [s \in Slots |-> NoDentry]
        /\ reclaimed = {}

\* open returns handle s for dentry d.
Grant(s, d) ==
  /\ table[s] = NoDentry
  /\ d \notin reclaimed
  /\ d \in Orphans => \A k \in Slots : table[k] # d
  /\ table' = [table EXCEPT ![s] = d]
  /\ UNCHANGED reclaimed

\* close takes handle s back.
Revoke(s) ==
  /\ table[s] # NoDentry
  /\ table' = [table EXCEPT ![s] = NoDentry]
  /\ UNCHANGED reclaimed

\* The memory of an orphan that no handle names is given back, once.
Reclaim(o) ==
  /\ o \notin reclaimed
  /\ \A k \in Slots : table[k] # o
  /\ reclaimed' = reclaimed \cup {o}
  /\ UNCHANGED table

Next == \/ \E s \in Slots, d \in Dentries : Grant(s, d)
        \/ \E s \in Slots : Revoke(s)
        \/ \E o \in Orphans : Reclaim(o)

Spec == Init /\ [][Next]_vars
============================================================================
