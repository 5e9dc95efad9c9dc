----------------------------- MODULE MCVfsPaths -----------------------------
(***************************************************************************)
(* The path operators of VfsPaths against definitions that do not follow   *)
(* the code: a state is an input, a path typed one segment at a time and a *)
(* mount table grown one mount at a time, and the invariants compare what  *)
(* the operators answer for it.                                            *)
(***************************************************************************)
EXTENDS VfsPaths, FiniteSets

CONSTANTS Segments,   \* the segments a path may have, "", "." and ".." among them
          MaxPath,    \* bound: segments of a path
          MaxMounts   \* bound: mounts in the table

VARIABLES path, mountpoints
vars == <<path, mountpoints>>

Plain == Segments \ Special

\* Mountpoints: the root, canonical ones one and two names deep, and one written with
\* a slash at its end, which the code compares as it is.
Mountpoints == {Root} \cup {<<a>> : a \in Plain} \cup (Plain \X (Plain \cup {Empty}))

Init == path = Root /\ mountpoints = <<>>

\* "/" followed by a segment, or a slash and a segment more.
Type(seg) == /\ Len(path) < MaxPath
             /\ path' \in {Append(path, seg), <<seg>>}
             /\ UNCHANGED mountpoints

Mount(mp) == /\ Len(mountpoints) < MaxMounts
             /\ mountpoints' = <<mp>> \o mountpoints
             /\ UNCHANGED path

Next == (\E seg \in Segments : Type(seg)) \/ (\E mp \in Mountpoints : Mount(mp))

Spec == Init /\ [][Next]_vars

----------------------------------------------------------------------------
\* Reference definitions.

\* How many segments of p from i to j satisfy Test.
Count(p, i, j, Test(_)) == Cardinality({k \in i..j : Test(p[k])})

\* A name survives normalisation unless some ".." after it undoes it: that is, unless
\* between the name and some later point there are more ".." than names.
Survives(p, i) ==
  /\ p[i] \notin Special
  /\ \A j \in i..Len(p) :
       Count(p, i + 1, j, LAMBDA s : s = DotDot) <= Count(p, i + 1, j, LAMBDA s : s \notin Special)

Survivors(p) == {i \in DOMAIN p : Survives(p, i)}
UpTo(S, i) == Cardinality({j \in S : j <= i})

\* The names that survive, in the order in which they are written.
Surviving(p) ==
  [k \in 1..Cardinality(Survivors(p)) |->
     p[CHOOSE i \in Survivors(p) : UpTo(Survivors(p), i) = k]]

Dotless(p) == \A i \in DOMAIN p : p[i] \notin {Dot, DotDot}

\* The mounts that contain p: the root, and those whose mountpoint is p or above it.
Containing(p, mps) == {i \in DOMAIN mps : mps[i] = Root \/ IsPrefix(mps[i], p)}

Depth(mp) == IF mp = Root THEN 0 ELSE Len(mp)

----------------------------------------------------------------------------
\* Properties.

Norm == NormalizePath(path)
BestRaw == FindBestMount(path, mountpoints)
BestNorm == FindBestMount(Norm, mountpoints)

\* normalize_path_alloc keeps exactly the names that no later ".." undoes, in order.
NormalizeKeepsSurvivors == Norm = Printed(Surviving(path))

\* normalize_path_alloc may be applied to any front part of a path first, or twice: the
\* whole path still normalises to the same one.
NormalizeComposes ==
  \A k \in 1..Len(path) :
    LET front == SubSeq(path, 1, k)
        back == SubSeq(path, k + 1, Len(path))
    IN  NormalizePath(NormalizePath(front) \o back) = Norm

\* find_best_mount returns the deepest mount that contains the path and, among those
\* mounted at the same place, the newest; nothing only if no mount contains it.
BestMountIsDeepestNewest ==
  LET C == Containing(Norm, mountpoints)
  IN  IF C = {} THEN BestNorm = 0
      ELSE /\ BestNorm \in C
           /\ \A i \in C : \/ Depth(mountpoints[i]) < Depth(mountpoints[BestNorm])
                           \/ /\ mountpoints[i] = mountpoints[BestNorm]
                              /\ BestNorm <= i

\* The mountpoint and the names walked below it make up the normalised path: a walk
\* ends at the dentry of the path that was asked for.
WalkReachesPath ==
  BestNorm # 0 =>
    LET mp == mountpoints[BestNorm]
    IN  Names(mp) \o WalkNames(Norm, mp) = Names(Norm)

\* vfs_open, vfs_stat and vfs_readdir choose the backend's mount by the path as given
\* and walk the tree by the normalised one. Where both choose the same mount and there
\* are no dots (all the kernel passes to FUSE), the backend is asked for the file that
\* the walk ends at, by a relative path; only under a root mount does a path that
\* begins with two slashes, or is "/", reach the backend as an absolute one.
BackendAndTreeAgree ==
  Dotless(path) /\ BestRaw # 0 /\ BestRaw = BestNorm =>
    LET mp == mountpoints[BestRaw]
        rel == GetRelpath(path, mp)
    IN  /\ IsAbsolute(rel) <=> mp = Root /\ path[1] = Empty
        /\ ~IsAbsolute(rel) => Names(rel) = OrDot(WalkNames(Norm, mp))
=============================================================================
