----------------------------- MODULE ForgetfulMap ----------------------------
(***************************************************************************)
(* What the block cache of src/src/cache/cache.h promises its callers: a   *)
(* map that may forget any block at a put, but never answers with data     *)
(* other than the latest put for the block.                                *)
(***************************************************************************)
CONSTANTS Ids, Data, Nothing

VARIABLES
  latest,   \* block -> the data of its latest put
  known,    \* the blocks that are not forgotten
  answer    \* what the latest get gave

mapVars == <<latest, known, answer>>

Init == latest = [b \in Ids |-> Nothing] /\ known = {} /\ answer = Nothing

\* Any block may be forgotten, the one that is put too.
Put(b, d) ==
  /\ latest' = [latest EXCEPT ![b] = d]
  /\ known' \subseteq known \cup {b}
  /\ UNCHANGED answer

Get(b) ==
  /\ answer' = IF b \in known THEN latest[b] ELSE Nothing
  /\ UNCHANGED <<latest, known>>

ForgetAll == known' = {} /\ UNCHANGED <<latest, answer>>

Next ==
  \/ \E b \in Ids : Get(b) \/ \E d \in Data : Put(b, d)
  \/ ForgetAll

Spec == Init /\ [][Next]_mapVars
=============================================================================
