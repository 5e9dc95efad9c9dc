-------------------------- MODULE MCVfsPathsProofs --------------------------
(***************************************************************************)
(* The choice of a mount against its reference definition, for paths of    *)
(* any length, any segments and mount tables of any size.                  *)
(***************************************************************************)
EXTENDS MCVfsPaths, VfsPathsProofs, FiniteSetTheorems

\* The mountpoints, with a name for the segment that stands before and after a slash.
LEMMA MountpointShape ==
  \E e : \A mp \in Mountpoints :
    mp = <<e>> \/ (\E a \in Plain : mp = <<a>>) \/ mp \in Plain \X (Plain \cup {e})
  BY Zenon DEF Mountpoints, Root

\* Mountpoints are sequences of segments that are not empty.
LEMMA MountpointIsPath ==
  \E S : \A mp \in Mountpoints : mp \in Seq(S) /\ Len(mp) \in Nat \ {0}
  <1>1. PICK e : \A mp \in Mountpoints :
          mp = <<e>> \/ (\E a \in Plain : mp = <<a>>) \/ mp \in Plain \X (Plain \cup {e})
    BY MountpointShape
  <1>2. PICK S : Plain \subseteq S /\ e \in S
    <2>1. Plain \subseteq Plain \cup {e} /\ e \in Plain \cup {e}
      OBVIOUS
    <2> QED
      BY <2>1
  <1>3. ASSUME NEW mp \in Mountpoints
        PROVE  mp \in Seq(S) /\ Len(mp) \in Nat \ {0}
    <2>1. (\E a \in S : mp = <<a>>) \/ (\E a, b \in S : mp = <<a, b>>)
      BY <1>1, <1>2
    <2>2. CASE \E a \in S : mp = <<a>>
      <3>1. PICK a \in S : mp = <<a>>
        BY <2>2
      <3> QED
        BY <3>1
    <2>3. CASE \E a, b \in S : mp = <<a, b>>
      <3>1. PICK a \in S, b \in S : mp = <<a, b>>
        BY <2>3
      <3>2. <<a, b>> \in Seq(S) /\ Len(<<a, b>>) = 2
        OBVIOUS
      <3> QED
        BY <3>1, <3>2
    <2> QED
      BY <2>1, <2>2, <2>3
  <1> QED
    BY <1>3

\* Two mountpoints of one length that lead to the same path are the same.
LEMMA SamePrefix ==
  ASSUME NEW S, NEW s \in Seq(S), NEW r \in Seq(S), NEW p,
         IsPrefix(s, p), IsPrefix(r, p), Len(s) = Len(r)
  PROVE  s = r
  <1>1. SubSeq(s, 1, Len(s)) = SubSeq(r, 1, Len(r))
    BY DEF IsPrefix
  <1> QED
    BY <1>1, SubSeqFull

LEMMA TableTyped ==
  Spec => [](mountpoints \in Seq(Mountpoints))
  <1> DEFINE Inv == mountpoints \in Seq(Mountpoints)
  <1>1. Init => Inv
    BY DEF Init
  <1>2. Inv /\ [Next]_vars => Inv'
    <2> SUFFICES ASSUME Inv, [Next]_vars PROVE Inv'
      OBVIOUS
    <2>1. CASE UNCHANGED mountpoints
      BY <2>1
    <2>2. ASSUME NEW mp \in Mountpoints, Mount(mp) PROVE Inv'
      <3>1. mountpoints' = <<mp>> \o mountpoints
        BY <2>2 DEF Mount
      <3>2. <<mp>> \in Seq(Mountpoints)
        OBVIOUS
      <3> QED
        BY <3>1, <3>2, ConcatProperties
    <2> QED
      BY <2>1, <2>2 DEF Next, Type, vars
  <1> QED
    BY <1>1, <1>2, PTL DEF Spec

\* find_best_mount returns the deepest mount that contains the path and, among those
\* mounted at the same place, the newest, for any path and any table.
THEOREM BestMountIsDeepestNewestAlways ==
  Spec => []BestMountIsDeepestNewest
  <1>1. ASSUME mountpoints \in Seq(Mountpoints) PROVE BestMountIsDeepestNewest
    <2> DEFINE mps == mountpoints
               best == BestNorm
    <2>0. PICK S : \A mp \in Mountpoints : mp \in Seq(S) /\ Len(mp) \in Nat \ {0}
      BY MountpointIsPath
    <2>1. Len(mps) \in Nat /\ DOMAIN mps = 1..Len(mps) /\ \A i \in DOMAIN mps : mps[i] \in Mountpoints
      BY <1>1
    <2>2. \A i \in DOMAIN mps : mps[i] \in Seq(S) /\ Len(mps[i]) \in Nat \ {0}
      BY <2>1, <2>0
    <2>3. mps \in Seq(Seq(S))
      <3>1. Mountpoints \subseteq Seq(S)
        BY <2>0
      <3> QED
        BY <1>1, <3>1, SeqMonotonic
    <2>4. Found(Norm, mps, Len(mps), best)
      BY <2>3, BestMount DEF BestNorm
    <2> DEFINE C == Containing(Norm, mps)
    <2>5. \A i \in DOMAIN mps : i \in C <=> Serves(Norm, mps, i)
      BY DEF Containing, Serves
    <2>6. C \subseteq DOMAIN mps
      BY DEF Containing
    <2> HIDE DEF mps, best, C
    <2>7. CASE best = 0
      BY <2>1, <2>4, <2>5, <2>6, <2>7 DEF BestMountIsDeepestNewest, Found, mps, best, C
    <2>8. CASE best # 0
      <3>1. best \in DOMAIN mps /\ best \in C /\ Serves(Norm, mps, best)
        BY <2>1, <2>4, <2>5, <2>8 DEF Found
      <3>2. ASSUME NEW i \in C
            PROVE  \/ Depth(mps[i]) < Depth(mps[best])
                   \/ mps[i] = mps[best] /\ best <= i
        <4>1. i \in DOMAIN mps /\ Serves(Norm, mps, i)
          BY <2>5, <2>6
        <4>2. /\ MpLen(mps[i]) <= MpLen(mps[best])
              /\ MpLen(mps[i]) = MpLen(mps[best]) => best <= i
          BY <4>1, <2>1, <2>4, <2>8 DEF Found
        <4>3. Len(mps[i]) \in Nat \ {0} /\ Len(mps[best]) \in Nat \ {0}
          BY <2>2, <3>1, <4>1
        <4>4. CASE MpLen(mps[i]) # MpLen(mps[best])
          BY <4>2, <4>3, <4>4 DEF MpLen, Depth
        <4>5. CASE MpLen(mps[i]) = MpLen(mps[best])
          <5>1. mps[i] = Root <=> mps[best] = Root
            BY <4>3, <4>5 DEF MpLen
          <5>2. CASE mps[i] # Root
            <6>1. Len(mps[i]) = Len(mps[best])
              BY <4>3, <4>5, <5>1, <5>2 DEF MpLen
            <6>2. IsPrefix(mps[i], Norm) /\ IsPrefix(mps[best], Norm)
              BY <3>1, <4>1, <5>1, <5>2 DEF Serves
            <6>3. mps[i] \in Seq(S) /\ mps[best] \in Seq(S)
              BY <2>2, <3>1, <4>1
            <6>4. mps[i] = mps[best]
              BY <6>1, <6>2, <6>3, SamePrefix
            <6> QED
              BY <6>4, <4>2, <4>5
          <5> QED
            BY <4>2, <4>5, <5>1, <5>2
        <4> QED
          BY <4>4, <4>5
      <3> QED
        BY <3>1, <3>2 DEF BestMountIsDeepestNewest, mps, best, C
    <2> QED
      BY <2>7, <2>8
  <1> QED
    BY <1>1, TableTyped, PTL
----------------------------------------------------------------------------
\* The paths, for any segments.

\* Paths and mountpoints are made of the same segments.
PathsTyped(S) ==
  /\ path \in Seq(S) /\ path # <<>>
  /\ \A i \in DOMAIN mountpoints : mountpoints[i] \in Seq(S) /\ mountpoints[i] # <<>>
  /\ mountpoints \in Seq(Seq(S))

LEMMA PathTyped ==
  Spec => [](path \in Seq(Segments \cup {Empty}) /\ path # <<>>)
  <1> DEFINE Inv == path \in Seq(Segments \cup {Empty}) /\ path # <<>>
  <1>1. Init => Inv
    BY DEF Init, Root
  <1>2. Inv /\ [Next]_vars => Inv'
    <2> SUFFICES ASSUME Inv, [Next]_vars PROVE Inv'
      OBVIOUS
    <2>1. CASE UNCHANGED path
      BY <2>1
    <2>2. ASSUME NEW seg \in Segments, Type(seg) PROVE Inv'
      <3>1. PICK A : A = Segments \cup {Empty} /\ seg \in A /\ path \in Seq(A)
        OBVIOUS
      <3>2. Append(path, seg) \in Seq(A) /\ Append(path, seg) # <<>>
        BY <3>1, AppendProperties
      <3>3. <<seg>> \in Seq(A) /\ <<seg>> # <<>>
        BY <3>1
      <3>4. path' = Append(path, seg) \/ path' = <<seg>>
        BY <2>2 DEF Type
      <3> QED
        BY <3>1, <3>2, <3>3, <3>4
    <2> QED
      BY <2>1, <2>2 DEF Next, Mount, vars
  <1> QED
    BY <1>1, <1>2, PTL DEF Spec

LEMMA BothTyped ==
  ASSUME path \in Seq(Segments \cup {Empty}), path # <<>>, mountpoints \in Seq(Mountpoints)
  PROVE  \E S : PathsTyped(S)
  <1>1. PICK A : \A mp \in Mountpoints : mp \in Seq(A) /\ Len(mp) \in Nat \ {0}
    BY MountpointIsPath
  <1>2. PICK S : Segments \cup {Empty} \subseteq S /\ A \subseteq S
    <2>1. /\ Segments \cup {Empty} \subseteq (Segments \cup {Empty}) \cup A
          /\ A \subseteq (Segments \cup {Empty}) \cup A
      OBVIOUS
    <2> QED
      BY <2>1
  <1>3. path \in Seq(S)
    BY <1>2, SeqMonotonic
  <1>4. \A mp \in Mountpoints : mp \in Seq(S) /\ mp # <<>>
    <2> SUFFICES ASSUME NEW mp \in Mountpoints PROVE mp \in Seq(S) /\ mp # <<>>
      OBVIOUS
    <2>1. mp \in Seq(S)
      BY <1>1, <1>2, SeqMonotonic
    <2>2. mp # <<>>
      BY <1>1, EmptySeq
    <2> QED
      BY <2>1, <2>2
  <1>5. \A i \in DOMAIN mountpoints : mountpoints[i] \in Mountpoints
    OBVIOUS
  <1>6. mountpoints \in Seq(Seq(S))
    <2>1. Mountpoints \subseteq Seq(S)
      BY <1>4
    <2> QED
      BY <2>1, SeqMonotonic
  <1> QED
    BY <1>3, <1>4, <1>5, <1>6 DEF PathsTyped

\* normalize_path_alloc may be applied to any front part of a path first, or twice.
THEOREM NormalizeComposesAlways ==
  Spec => []NormalizeComposes
  <1>1. ASSUME NEW S, path \in Seq(S) PROVE NormalizeComposes
    <2> SUFFICES ASSUME NEW k \in 1..Len(path)
                 PROVE  NormalizePath(NormalizePath(SubSeq(path, 1, k)) \o SubSeq(path, k + 1, Len(path)))
                          = Norm
      BY DEF NormalizeComposes
    <2>1. PICK n \in Nat : n = Len(path)
      BY <1>1
    <2>2. PICK front, back : front = SubSeq(path, 1, k) /\ back = SubSeq(path, k + 1, n)
      OBVIOUS
    <2>3. front \in Seq(S) /\ back \in Seq(S)
      BY <1>1, <2>1, <2>2
    <2>4. path = Joined(front, back)
      <3>1. 1 \in 1..(Len(path) + 1) /\ k \in (1 - 1)..Len(path) /\ n \in k..Len(path)
        BY <2>1
      <3>2. SubSeq(path, 1, k) \o SubSeq(path, k + 1, n) = SubSeq(path, 1, n)
        BY <1>1, <3>1, ConcatAdjacentSubSeq
      <3> QED
        BY <1>1, <2>1, <2>2, <3>2, SubSeqFull DEF Joined
    <2>5. NormalizePath(Joined(NormalizePath(front), back)) = NormalizePath(Joined(front, back))
      BY <2>3, NormalizeFront
    <2> QED
      BY <2>1, <2>2, <2>4, <2>5 DEF Joined, Norm
  <1> QED
    <2>1. path \in Seq(Segments \cup {Empty}) /\ path # <<>> => NormalizeComposes
      BY <1>1
    <2> QED
      BY <2>1, PathTyped, PTL

\* A walk ends at the dentry of the path that was asked for.
THEOREM WalkReachesPathAlways ==
  Spec => []WalkReachesPath
  <1>1. ASSUME NEW S, PathsTyped(S) PROVE WalkReachesPath
    <2> SUFFICES ASSUME BestNorm # 0
                 PROVE  LET mp == mountpoints[BestNorm]
                        IN  Names(mp) \o WalkNames(Norm, mp) = Names(Norm)
      BY DEF WalkReachesPath
    <2>1. PICK b : b = BestNorm
      OBVIOUS
    <2>2. Found(Norm, mountpoints, Len(mountpoints), b)
      BY <1>1, <2>1, BestMount DEF BestNorm, PathsTyped
    <2>3. b \in DOMAIN mountpoints /\ Serves(Norm, mountpoints, b)
      BY <1>1, <2>1, <2>2 DEF Found, PathsTyped
    <2>4. PICK mp : mp = mountpoints[b]
      OBVIOUS
    <2>5. mp \in Seq(S) /\ mp # <<>> /\ path \in Seq(S) /\ (mp = Root \/ IsPrefix(mp, Norm))
      BY <1>1, <2>3, <2>4 DEF PathsTyped, Serves
    <2>6. Joined(Names(mp), WalkNames(Norm, mp)) = Names(Norm)
      BY <2>5, WalkReaches DEF Norm
    <2> QED
      BY <2>1, <2>4, <2>6 DEF Joined
  <1> QED
    <2>1. (path \in Seq(Segments \cup {Empty}) /\ path # <<>>) /\ mountpoints \in Seq(Mountpoints)
            => WalkReachesPath
      BY <1>1, BothTyped
    <2> QED
      BY <2>1, PathTyped, TableTyped, PTL

\* Where the backend's mount and the tree's are the same and there are no dots, the backend
\* is asked for the file that the walk ends at.
THEOREM BackendAndTreeAgreeAlways ==
  Spec => []BackendAndTreeAgree
  <1>1. ASSUME NEW S, PathsTyped(S) PROVE BackendAndTreeAgree
    <2> SUFFICES ASSUME Dotless(path), BestRaw # 0, BestRaw = BestNorm
                 PROVE  LET mp == mountpoints[BestRaw]
                            rel == GetRelpath(path, mp)
                        IN  /\ IsAbsolute(rel) <=> mp = Root /\ path[1] = Empty
                            /\ ~IsAbsolute(rel) => Names(rel) = OrDot(WalkNames(Norm, mp))
      BY DEF BackendAndTreeAgree
    <2>1. PICK b : b = BestNorm
      OBVIOUS
    <2>2. /\ Found(Norm, mountpoints, Len(mountpoints), b)
          /\ Found(path, mountpoints, Len(mountpoints), b)
      <3>1. Found(Norm, mountpoints, Len(mountpoints), FindBestMount(Norm, mountpoints))
        BY <1>1, BestMount DEF PathsTyped
      <3>2. Found(path, mountpoints, Len(mountpoints), FindBestMount(path, mountpoints))
        BY <1>1, BestMount DEF PathsTyped
      <3> QED
        BY <2>1, <3>1, <3>2 DEF BestNorm, BestRaw
    <2>3. /\ b \in DOMAIN mountpoints
          /\ Serves(Norm, mountpoints, b) /\ Serves(path, mountpoints, b)
      BY <1>1, <2>1, <2>2 DEF Found, PathsTyped
    <2>4. PICK mp : mp = mountpoints[b]
      OBVIOUS
    <2>5. /\ mp \in Seq(S) /\ mp # <<>> /\ path \in Seq(S) /\ path # <<>>
          /\ mp = Root \/ (IsPrefix(mp, path) /\ IsPrefix(mp, Norm))
      BY <1>1, <2>3, <2>4 DEF PathsTyped, Serves
    <2>6. \A i \in 1..Len(path) : path[i] \notin {Dot, DotDot}
      BY <2>5 DEF Dotless
    <2>7. /\ IsAbsolute(GetRelpath(path, mp)) <=> mp = Root /\ path[1] = Empty
          /\ ~IsAbsolute(GetRelpath(path, mp)) =>
               Names(GetRelpath(path, mp)) = OrDot(WalkNames(Norm, mp))
      BY <2>5, <2>6, BackendAgrees DEF Norm
    <2> QED
      BY <2>1, <2>4, <2>7
  <1> QED
    <2>1. (path \in Seq(Segments \cup {Empty}) /\ path # <<>>) /\ mountpoints \in Seq(Mountpoints)
            => BackendAndTreeAgree
      BY <1>1, BothTyped
    <2> QED
      BY <2>1, PathTyped, TableTyped, PTL
----------------------------------------------------------------------------
\* What normalisation keeps.

\* The ".." and the names behind k, up to j.
DotsAfter(p, k, j) == Cardinality({h \in (k + 1)..j : p[h] = DotDot})
NamesAfter(p, k, j) == Cardinality({h \in (k + 1)..j : p[h] \notin Special})

LEMMA CountNext ==
  ASSUME NEW p, NEW k \in Nat, NEW j \in Nat, k < j
  PROVE  /\ DotsAfter(p, k, k) = 0 /\ NamesAfter(p, k, k) = 0
         /\ DotsAfter(p, k, j - 1) \in Nat /\ NamesAfter(p, k, j - 1) \in Nat
         /\ DotsAfter(p, k, j) = DotsAfter(p, k, j - 1) + (IF p[j] = DotDot THEN 1 ELSE 0)
         /\ NamesAfter(p, k, j) = NamesAfter(p, k, j - 1) + (IF p[j] \notin Special THEN 1 ELSE 0)
  <1>1. (k + 1)..k = {}
    OBVIOUS
  <1>2. DotsAfter(p, k, k) = 0 /\ NamesAfter(p, k, k) = 0
    <2>1. {h \in (k + 1)..k : p[h] = DotDot} = {} /\ {h \in (k + 1)..k : p[h] \notin Special} = {}
      BY <1>1
    <2> QED
      BY <2>1, FS_EmptySet DEF DotsAfter, NamesAfter
  <1>3. /\ (k + 1)..j = ((k + 1)..(j - 1)) \cup {j} /\ j \notin (k + 1)..(j - 1)
        /\ IsFiniteSet((k + 1)..(j - 1))
    <2>1. IsFiniteSet((k + 1)..(j - 1))
      BY FS_Interval
    <2> QED
      BY <2>1
  <1>4. ASSUME NEW A, NEW B, A \subseteq (k + 1)..(j - 1), B = A \/ B = A \cup {j}
        PROVE  /\ Cardinality(A) \in Nat
               /\ Cardinality(B) = Cardinality(A) + (IF B = A THEN 0 ELSE 1)
    <2>1. IsFiniteSet(A) /\ Cardinality(A) \in Nat /\ j \notin A
      BY <1>3, <1>4, FS_Subset, FS_CardinalityType
    <2>2. CASE B = A
      BY <2>1, <2>2
    <2>3. CASE B = A \cup {j}
      <3>1. B # A
        BY <2>1, <2>3
      <3>2. Cardinality(A \cup {j}) = Cardinality(A) + 1
        BY <2>1, FS_AddElement
      <3> QED
        BY <2>1, <2>3, <3>1, <3>2
    <2> QED
      BY <1>4, <2>2, <2>3
  <1>5. /\ DotsAfter(p, k, j - 1) \in Nat
        /\ DotsAfter(p, k, j) = DotsAfter(p, k, j - 1) + (IF p[j] = DotDot THEN 1 ELSE 0)
    <2> DEFINE A == {h \in (k + 1)..(j - 1) : p[h] = DotDot}
               B == {h \in (k + 1)..j : p[h] = DotDot}
    <2>1. A \subseteq (k + 1)..(j - 1) /\ B = IF p[j] = DotDot THEN A \cup {j} ELSE A
      BY <1>3
    <2>2. p[j] = DotDot => B # A
      BY <1>3
    <2> HIDE DEF A, B
    <2>3. Cardinality(A) \in Nat /\ Cardinality(B) = Cardinality(A) + (IF p[j] = DotDot THEN 1 ELSE 0)
      BY <1>4, <2>1, <2>2
    <2> QED
      BY <2>3 DEF A, B, DotsAfter
  <1>6. /\ NamesAfter(p, k, j - 1) \in Nat
        /\ NamesAfter(p, k, j) = NamesAfter(p, k, j - 1) + (IF p[j] \notin Special THEN 1 ELSE 0)
    <2> DEFINE A == {h \in (k + 1)..(j - 1) : p[h] \notin Special}
               B == {h \in (k + 1)..j : p[h] \notin Special}
    <2>1. A \subseteq (k + 1)..(j - 1) /\ B = IF p[j] \notin Special THEN A \cup {j} ELSE A
      BY <1>3
    <2>2. p[j] \notin Special => B # A
      BY <1>3
    <2> HIDE DEF A, B
    <2>3. Cardinality(A) \in Nat /\ Cardinality(B) = Cardinality(A) + (IF p[j] \notin Special THEN 1 ELSE 0)
      BY <1>4, <2>1, <2>2
    <2> QED
      BY <2>3 DEF A, B, NamesAfter
  <1> QED
    BY <1>2, <1>5, <1>6

\* The name at k is still there after the first m segments.
KeptUntil(p, k, m) == p[k] \notin Special /\ \A j \in k..m : DotsAfter(p, k, j) <= NamesAfter(p, k, j)

\* The stack after the first m segments holds the names at idx[1] < idx[2] < ..., which are
\* those that are still there; as many more names as ".." have followed each as there are
\* names above it.
Holds(p, m, stack, idx) ==
  /\ idx \in [1..Len(stack) -> 1..m]
  /\ \A x, y \in 1..Len(stack) : x < y => idx[x] < idx[y]
  /\ \A x \in 1..Len(stack) : stack[x] = p[idx[x]]
  /\ \A k \in 1..m : KeptUntil(p, k, m) => \E x \in 1..Len(stack) : idx[x] = k
  /\ \A x \in 1..Len(stack) :
       /\ KeptUntil(p, idx[x], m)
       /\ NamesAfter(p, idx[x], m) = DotsAfter(p, idx[x], m) + (Len(stack) - x)

\* One more segment.
LEMMA KeptNext ==
  ASSUME NEW p, NEW m \in Nat \ {0}, NEW k \in 1..(m - 1)
  PROVE  KeptUntil(p, k, m) <=>
           KeptUntil(p, k, m - 1) /\ DotsAfter(p, k, m) <= NamesAfter(p, k, m)
  <1>1. k..m = (k..(m - 1)) \cup {m}
    OBVIOUS
  <1> QED
    BY <1>1 DEF KeptUntil

LEMMA HoldsNext ==
  ASSUME NEW S, NEW p, NEW m \in Nat \ {0}, NEW stack \in Seq(S), p[m] \in S,
         NEW idx, Holds(p, m - 1, stack, idx)
  PROVE  \E new : Holds(p, m, Push(stack, p[m]), new)
  <1>1. PICK n \in Nat : n = Len(stack)
    OBVIOUS
  <1>2. ASSUME NEW k \in 1..(m - 1)
        PROVE  /\ DotsAfter(p, k, m - 1) \in Nat /\ NamesAfter(p, k, m - 1) \in Nat
               /\ DotsAfter(p, k, m) = DotsAfter(p, k, m - 1) + (IF p[m] = DotDot THEN 1 ELSE 0)
               /\ NamesAfter(p, k, m) = NamesAfter(p, k, m - 1) + (IF p[m] \notin Special THEN 1 ELSE 0)
    <2>1. k \in Nat /\ k < m
      OBVIOUS
    <2> QED
      BY <2>1, CountNext
  <1>3. \A x \in 1..n : idx[x] \in 1..(m - 1) /\ idx[x] \in 1..m
    <2>1. \A x \in 1..n : idx[x] \in 1..(m - 1)
      BY <1>1 DEF Holds
    <2> QED
      BY <2>1
  <1>4. \A k \in 1..m : k = m \/ k \in 1..(m - 1)
    OBVIOUS
  <1>5. p[m] \in Special => ~KeptUntil(p, m, m)
    BY DEF KeptUntil
  <1>6. CASE p[m] \in {Empty, Dot}
    <2>1. Push(stack, p[m]) = stack
      BY <1>6 DEF Push
    <2>2. p[m] \in Special /\ p[m] # DotDot
      BY <1>6, SpecialSegments
    <2>3. \A k \in 1..(m - 1) : /\ DotsAfter(p, k, m) = DotsAfter(p, k, m - 1)
                                /\ NamesAfter(p, k, m) = NamesAfter(p, k, m - 1)
      BY <1>2, <2>2
    <2>4. \A k \in 1..(m - 1) : KeptUntil(p, k, m) => KeptUntil(p, k, m - 1)
      BY KeptNext
    <2>5. \A x \in 1..n : /\ NamesAfter(p, idx[x], m) = DotsAfter(p, idx[x], m) + (n - x)
                          /\ KeptUntil(p, idx[x], m)
      <3> SUFFICES ASSUME NEW x \in 1..n
                   PROVE  /\ NamesAfter(p, idx[x], m) = DotsAfter(p, idx[x], m) + (n - x)
                          /\ KeptUntil(p, idx[x], m)
        OBVIOUS
      <3>1. PICK k \in 1..(m - 1) : k = idx[x]
        BY <1>3
      <3>2. KeptUntil(p, k, m - 1) /\ NamesAfter(p, k, m - 1) = DotsAfter(p, k, m - 1) + (n - x)
        BY <1>1, <3>1 DEF Holds
      <3>3. NamesAfter(p, k, m) = DotsAfter(p, k, m) + (n - x) /\ DotsAfter(p, k, m) \in Nat
        BY <1>2, <2>3, <3>2
      <3>4. DotsAfter(p, k, m) <= NamesAfter(p, k, m)
        BY <3>3
      <3> QED
        BY <3>1, <3>2, <3>3, <3>4, KeptNext
    <2>6. \A k \in 1..m : KeptUntil(p, k, m) => \E x \in 1..n : idx[x] = k
      BY <1>1, <1>4, <1>5, <2>2, <2>4 DEF Holds
    <2>7. idx \in [1..n -> 1..m]
      BY <1>1, <1>3 DEF Holds
    <2>8. Holds(p, m, stack, idx)
      BY <1>1, <2>5, <2>6, <2>7 DEF Holds
    <2> QED
      BY <2>1, <2>8
  <1>7. CASE p[m] = DotDot /\ stack = <<>>
    <2>1. p[m] \notin {Empty, Dot} /\ p[m] \in Special
      BY <1>7, SpecialSegments
    <2>2. Push(stack, p[m]) = stack /\ n = 0
      BY <1>1, <1>7, <2>1 DEF Push
    <2>3. \A k \in 1..(m - 1) : ~KeptUntil(p, k, m)
      <3>1. \A k \in 1..(m - 1) : ~KeptUntil(p, k, m - 1)
        BY <1>1, <2>2 DEF Holds
      <3> QED
        BY <3>1, KeptNext
    <2>4. idx \in [1..n -> 1..m]
      BY <1>1, <1>3 DEF Holds
    <2>5. \A k \in 1..m : ~KeptUntil(p, k, m)
      BY <1>4, <1>5, <2>1, <2>3
    <2>6. Holds(p, m, stack, idx)
      BY <1>1, <2>2, <2>4, <2>5 DEF Holds
    <2> QED
      BY <2>2, <2>6
  <1>8. CASE p[m] = DotDot /\ stack # <<>>
    <2>1. p[m] \notin {Empty, Dot} /\ p[m] \in Special
      BY <1>8, SpecialSegments
    <2>2. PICK less : less = Front(stack) /\ less = Push(stack, p[m])
      BY <1>8, <2>1 DEF Push
    <2>3. n > 0
      BY <1>1, <1>8
    <2>4. Len(less) = n - 1 /\ \A x \in 1..(n - 1) : less[x] = stack[x]
      BY <1>1, <2>2, <2>3 DEF Front
    <2>5. ASSUME NEW x \in 1..n
          PROVE  /\ NamesAfter(p, idx[x], m) = DotsAfter(p, idx[x], m) + ((n - 1) - x)
                 /\ x # n => KeptUntil(p, idx[x], m)
                 /\ x = n => ~KeptUntil(p, idx[x], m)
      <3>1. PICK k \in 1..(m - 1) : k = idx[x]
        BY <1>3
      <3>2. KeptUntil(p, k, m - 1) /\ NamesAfter(p, k, m - 1) = DotsAfter(p, k, m - 1) + (n - x)
        BY <1>1, <3>1 DEF Holds
      <3>3. /\ NamesAfter(p, k, m) = NamesAfter(p, k, m - 1) /\ NamesAfter(p, k, m) \in Nat
            /\ DotsAfter(p, k, m) = DotsAfter(p, k, m - 1) + 1 /\ DotsAfter(p, k, m) \in Nat
        BY <1>2, <1>8, <2>1
      <3>4. NamesAfter(p, k, m) = DotsAfter(p, k, m) + ((n - 1) - x)
        <4>1. DotsAfter(p, k, m - 1) \in Nat
          BY <1>2
        <4>2. NamesAfter(p, k, m) = DotsAfter(p, k, m - 1) + (n - x)
          BY <3>2, <3>3
        <4>3. DotsAfter(p, k, m) = DotsAfter(p, k, m - 1) + 1
          BY <3>3
        <4> QED
          BY <4>1, <4>2, <4>3
      <3>5. DotsAfter(p, k, m) <= NamesAfter(p, k, m) <=> x # n
        BY <3>3, <3>4
      <3> QED
        BY <3>1, <3>2, <3>4, <3>5, KeptNext
    <2> DEFINE new == [x \in 1..(n - 1) |-> idx[x]]
    <2>6. new \in [1..(n - 1) -> 1..m]
      BY <1>3
    <2>7. \A x, y \in 1..(n - 1) : x < y => new[x] < new[y]
      <3>1. \A x \in 1..(n - 1) : x \in 1..n /\ new[x] = idx[x]
        OBVIOUS
      <3> HIDE DEF new
      <3> QED
        BY <1>1, <3>1 DEF Holds
    <2>8. \A x \in 1..(n - 1) : less[x] = p[new[x]]
      BY <1>1, <2>4 DEF Holds
    <2>9. \A k \in 1..m : KeptUntil(p, k, m) => \E x \in 1..(n - 1) : new[x] = k
      <3> SUFFICES ASSUME NEW k \in 1..m, KeptUntil(p, k, m) PROVE \E x \in 1..(n - 1) : new[x] = k
        OBVIOUS
      <3>1. k \in 1..(m - 1)
        BY <1>4, <1>5, <2>1
      <3>2. KeptUntil(p, k, m - 1)
        BY <3>1, KeptNext
      <3>3. PICK x \in 1..n : idx[x] = k
        BY <1>1, <3>1, <3>2 DEF Holds
      <3>4. x # n
        BY <2>5, <3>3
      <3>5. x \in 1..(n - 1)
        BY <3>4
      <3> QED
        BY <3>3, <3>5
    <2>10. \A x \in 1..(n - 1) :
             /\ KeptUntil(p, new[x], m)
             /\ NamesAfter(p, new[x], m) = DotsAfter(p, new[x], m) + ((n - 1) - x)
      <3>1. \A x \in 1..(n - 1) : x \in 1..n /\ x # n /\ new[x] = idx[x]
        OBVIOUS
      <3> HIDE DEF new
      <3> QED
        BY <2>5, <3>1
    <2> HIDE DEF new
    <2>11. Holds(p, m, less, new)
      BY <2>4, <2>6, <2>7, <2>8, <2>9, <2>10 DEF Holds
    <2> QED
      BY <2>2, <2>11
  <1>9. CASE p[m] \notin {Empty, Dot, DotDot}
    <2>1. p[m] \notin Special
      BY <1>9 DEF Special
    <2>2. PICK e \in S : e = p[m]
      OBVIOUS
    <2>3. PICK more : /\ more = Push(stack, p[m])
                      /\ Len(more) = n + 1 /\ more[n + 1] = p[m]
                      /\ \A x \in 1..n : more[x] = stack[x]
      <3>1. /\ Len(Append(stack, e)) = n + 1 /\ Append(stack, e)[n + 1] = e
            /\ \A x \in 1..n : Append(stack, e)[x] = stack[x]
        BY <1>1
      <3>2. Append(stack, e) = Push(stack, p[m])
        BY <1>9, <2>2 DEF Push
      <3> QED
        BY <3>1, <3>2, <2>2
    <2>4. ASSUME NEW x \in 1..n
          PROVE  /\ NamesAfter(p, idx[x], m) = DotsAfter(p, idx[x], m) + ((n + 1) - x)
                 /\ KeptUntil(p, idx[x], m)
      <3>1. PICK k \in 1..(m - 1) : k = idx[x]
        BY <1>3
      <3>2. KeptUntil(p, k, m - 1) /\ NamesAfter(p, k, m - 1) = DotsAfter(p, k, m - 1) + (n - x)
        BY <1>1, <3>1 DEF Holds
      <3>3. /\ NamesAfter(p, k, m) = NamesAfter(p, k, m - 1) + 1 /\ NamesAfter(p, k, m) \in Nat
            /\ DotsAfter(p, k, m) = DotsAfter(p, k, m - 1) /\ DotsAfter(p, k, m) \in Nat
        BY <1>2, <1>9, <2>1
      <3>4. NamesAfter(p, k, m) = DotsAfter(p, k, m) + ((n + 1) - x)
        BY <1>2, <3>2, <3>3
      <3>5. DotsAfter(p, k, m) <= NamesAfter(p, k, m)
        BY <3>3, <3>4
      <3> QED
        BY <3>1, <3>2, <3>4, <3>5, KeptNext
    <2>5. DotsAfter(p, m, m) = 0 /\ NamesAfter(p, m, m) = 0
      <3>1. m \in Nat /\ m + 1 \in Nat /\ m < m + 1
        OBVIOUS
      <3> QED
        BY <3>1, CountNext
    <2>6. KeptUntil(p, m, m)
      <3>1. \A j \in m..m : j = m
        OBVIOUS
      <3> QED
        BY <2>1, <2>5, <3>1 DEF KeptUntil
    <2> DEFINE new == [x \in 1..(n + 1) |-> IF x = n + 1 THEN m ELSE idx[x]]
    <2>7. \A x \in 1..(n + 1) : x = n + 1 \/ x \in 1..n
      OBVIOUS
    <2>8. new \in [1..(n + 1) -> 1..m]
      BY <1>3, <2>7
    <2>9. new[n + 1] = m /\ \A x \in 1..n : new[x] = idx[x]
      OBVIOUS
    <2> HIDE DEF new
    <2>10. \A x, y \in 1..(n + 1) : x < y => new[x] < new[y]
      <3> SUFFICES ASSUME NEW x \in 1..(n + 1), NEW y \in 1..(n + 1), x < y PROVE new[x] < new[y]
        OBVIOUS
      <3>1. x \in 1..n
        BY <2>7
      <3>2. CASE y = n + 1
        BY <1>3, <2>9, <3>1, <3>2
      <3>3. CASE y \in 1..n
        BY <1>1, <2>9, <3>1, <3>3 DEF Holds
      <3> QED
        BY <2>7, <3>2, <3>3
    <2>11. \A x \in 1..(n + 1) : more[x] = p[new[x]]
      BY <1>1, <2>3, <2>7, <2>9 DEF Holds
    <2>12. \A k \in 1..m : KeptUntil(p, k, m) => \E x \in 1..(n + 1) : new[x] = k
      <3> SUFFICES ASSUME NEW k \in 1..m, KeptUntil(p, k, m) PROVE \E x \in 1..(n + 1) : new[x] = k
        OBVIOUS
      <3>1. CASE k = m
        <4>1. n + 1 \in 1..(n + 1)
          OBVIOUS
        <4> QED
          BY <2>9, <3>1, <4>1
      <3>2. CASE k \in 1..(m - 1)
        <4>1. KeptUntil(p, k, m - 1)
          BY <3>2, KeptNext
        <4>2. PICK x \in 1..n : idx[x] = k
          BY <1>1, <3>2, <4>1 DEF Holds
        <4>3. x \in 1..(n + 1) /\ new[x] = k
          BY <2>9, <4>2
        <4> QED
          BY <4>3
      <3> QED
        BY <1>4, <3>1, <3>2
    <2>13. \A x \in 1..(n + 1) :
             /\ KeptUntil(p, new[x], m)
             /\ NamesAfter(p, new[x], m) = DotsAfter(p, new[x], m) + ((n + 1) - x)
      BY <2>4, <2>5, <2>6, <2>7, <2>9
    <2>14. Holds(p, m, more, new)
      BY <2>3, <2>8, <2>10, <2>11, <2>12, <2>13 DEF Holds
    <2> QED
      BY <2>3, <2>14
  <1> QED
    BY <1>6, <1>7, <1>8, <1>9

\* Numbers in ascending order are as many as they are, up to any of them.
LEMMA Ranked ==
  ASSUME NEW n \in Nat, NEW idx, \A x \in 1..n : idx[x] \in Nat,
         \A x, y \in 1..n : x < y => idx[x] < idx[y]
  PROVE  /\ Cardinality({idx[x] : x \in 1..n}) = n
         /\ \A x \in 1..n : UpTo({idx[y] : y \in 1..n}, idx[x]) = x
  <1> DEFINE First(k) == {idx[x] : x \in 1..k}
             T == {k \in 0..n : IsFiniteSet(First(k)) /\ Cardinality(First(k)) = k}
  <1>1. 0 \in T
    <2>1. First(0) = {}
      OBVIOUS
    <2> QED
      BY <2>1, FS_EmptySet
  <1>2. ASSUME NEW k \in 1..n, k - 1 \in T PROVE k \in T
    <2>1. First(k) = First(k - 1) \cup {idx[k]}
      <3>1. 1..k = (1..(k - 1)) \cup {k}
        OBVIOUS
      <3> QED
        BY <3>1
    <2>2. idx[k] \notin First(k - 1)
      <3> SUFFICES ASSUME NEW x \in 1..(k - 1), idx[x] = idx[k] PROVE FALSE
        OBVIOUS
      <3>1. x \in 1..n /\ x < k
        OBVIOUS
      <3> QED
        BY <3>1
    <2>3. IsFiniteSet(First(k - 1)) /\ Cardinality(First(k - 1)) = k - 1
      BY <1>2
    <2> HIDE DEF First
    <2>4. IsFiniteSet(First(k)) /\ Cardinality(First(k)) = (k - 1) + 1
      BY <2>1, <2>2, <2>3, FS_AddElement
    <2> QED
      BY <2>4
  <1> HIDE DEF T
  <1>3. \A k \in 0..n : k \in T
    BY <1>1, <1>2, UpTo_n
  <1>4. \A k \in 0..n : Cardinality(First(k)) = k
    BY <1>3 DEF T
  <1>5. ASSUME NEW x \in 1..n
        PROVE  UpTo(First(n), idx[x]) = x
    <2>1. {j \in First(n) : j <= idx[x]} = First(x)
      <3>1. ASSUME NEW y \in 1..n
            PROVE  idx[y] <= idx[x] <=> y <= x
        <4>1. x = y \/ x < y \/ y < x
          OBVIOUS
        <4>2. x < y => idx[x] < idx[y]
          OBVIOUS
        <4>3. y < x => idx[y] < idx[x]
          OBVIOUS
        <4> QED
          BY <4>1, <4>2, <4>3
      <3>2. \A y \in 1..x : y \in 1..n /\ y <= x
        OBVIOUS
      <3>3. \A y \in 1..n : y <= x => y \in 1..x
        OBVIOUS
      <3> QED
        BY <3>1, <3>2, <3>3
    <2>2. x \in 0..n
      OBVIOUS
    <2> HIDE DEF First
    <2> QED
      BY <2>1, <2>2, <1>4 DEF UpTo
  <1>6. n \in 0..n
    OBVIOUS
  <1> QED
    BY <1>4, <1>5, <1>6

\* The stack is the names that survive.
LEMMA StackIsSurviving ==
  ASSUME NEW S, NEW p \in Seq(S)
  PROVE  Surviving(p) = Stacked(p)
  <1>1. PICK n \in Nat : n = Len(p) /\ DOMAIN p = 1..n
    OBVIOUS
  <1>2. PICK f \in [0..n -> Seq(S \ Special)] : f[0] = <<>> /\ StackRun(f, p) /\ Stacked(p) = f[n]
    BY <1>1, StackDefined
  <1> DEFINE T == {m \in 0..n : \E idx : Holds(p, m, f[m], idx)}
  <1>3. 0 \in T
    <2>1. PICK idx : idx = [x \in 1..0 |-> 0]
      OBVIOUS
    <2>2. idx \in [1..0 -> 1..0] /\ Len(<<>>) = 0
      BY <2>1
    <2>3. Holds(p, 0, <<>>, idx)
      BY <2>2 DEF Holds
    <2> QED
      BY <1>2, <2>3
  <1>4. ASSUME NEW m \in 1..n, m - 1 \in T PROVE m \in T
    <2>1. PICK idx : Holds(p, m - 1, f[m - 1], idx)
      BY <1>4
    <2>2. f[m] = Push(f[m - 1], p[m]) /\ p[m] \in S
      BY <1>1, <1>2, ElementOfSeq DEF StackRun
    <2>3. f[m - 1] \in Seq(S) /\ m \in Nat \ {0}
      <3>1. f[m - 1] \in Seq(S \ Special) /\ S \ Special \subseteq S
        OBVIOUS
      <3> QED
        BY <3>1, SeqMonotonic
    <2>4. \E new : Holds(p, m, Push(f[m - 1], p[m]), new)
      BY <2>1, <2>2, <2>3, HoldsNext
    <2> QED
      BY <2>2, <2>4
  <1> HIDE DEF T
  <1>5. \A m \in 0..n : m \in T
    BY <1>3, <1>4, UpTo_n
  <1>6. PICK stack, idx : stack = f[n] /\ Holds(p, n, stack, idx)
    <2>1. n \in 0..n
      OBVIOUS
    <2> QED
      BY <2>1, <1>5 DEF T
  <1>7. PICK l \in Nat : stack \in Seq(S \ Special) /\ l = Len(stack)
    <2>1. f[n] \in Seq(S \ Special)
      <3>1. n \in 0..n
        OBVIOUS
      <3> QED
        BY <3>1
    <2>2. stack \in Seq(S \ Special)
      BY <2>1, <1>6
    <2> QED
      BY <2>2
  <1>8. \A k \in 1..n : Survives(p, k) <=> KeptUntil(p, k, n)
    BY <1>1 DEF Survives, KeptUntil, DotsAfter, NamesAfter, Count
  <1>9. /\ idx \in [1..l -> 1..n]
        /\ \A x, y \in 1..l : x < y => idx[x] < idx[y]
        /\ \A x \in 1..l : stack[x] = p[idx[x]]
        /\ \A k \in 1..n : KeptUntil(p, k, n) <=> \E x \in 1..l : idx[x] = k
    BY <1>6, <1>7 DEF Holds
  <1>10. PICK R : R = {idx[x] : x \in 1..l}
    OBVIOUS
  <1>11. Survivors(p) = R
    <2>1. \A k : k \in R <=> \E x \in 1..l : idx[x] = k
      BY <1>10
    <2>2. \A x \in 1..l : idx[x] \in 1..n
      BY <1>9
    <2>3. ASSUME NEW k \in 1..n PROVE k \in R <=> Survives(p, k)
      <3>1. Survives(p, k) <=> KeptUntil(p, k, n)
        BY <1>8
      <3>2. KeptUntil(p, k, n) <=> \E x \in 1..l : idx[x] = k
        BY <1>9
      <3> QED
        BY <2>1, <3>1, <3>2
    <2>4. \A k \in R : k \in 1..n
      BY <2>1, <2>2
    <2> QED
      BY <2>3, <2>4, <1>1 DEF Survivors
  <1>12. Cardinality(R) = l /\ \A x \in 1..l : UpTo(R, idx[x]) = x
    <2>1. \A x \in 1..l : idx[x] \in Nat
      BY <1>9
    <2>2. /\ Cardinality({idx[x] : x \in 1..l}) = l
          /\ \A x \in 1..l : UpTo({idx[y] : y \in 1..l}, idx[x]) = x
      BY <2>1, <1>9, Ranked
    <2> QED
      BY <2>1, <2>2, <1>10
  <1>13. ASSUME NEW x \in 1..l
         PROVE  (CHOOSE i \in R : UpTo(R, i) = x) = idx[x]
    <2>1. idx[x] \in R /\ UpTo(R, idx[x]) = x
      BY <1>10, <1>12
    <2>2. ASSUME NEW i \in R, UpTo(R, i) = x PROVE i = idx[x]
      <3>1. PICK y \in 1..l : i = idx[y]
        BY <1>10
      <3> QED
        BY <3>1, <2>2, <1>12
    <2> QED
      BY <2>1, <2>2
  <1>14. \A x \in 1..l : p[CHOOSE i \in R : UpTo(R, i) = x] = stack[x]
    BY <1>9, <1>13
  <1>15. Surviving(p) = [x \in 1..l |-> p[CHOOSE i \in R : UpTo(R, i) = x]]
    BY <1>11, <1>12 DEF Surviving
  <1>16. stack = [x \in 1..l |-> stack[x]]
    BY <1>7
  <1> QED
    <2>1. Surviving(p) = [x \in 1..l |-> stack[x]]
      BY <1>14, <1>15
    <2> QED
      BY <2>1, <1>2, <1>6, <1>16

\* normalize_path_alloc keeps exactly the names that no later ".." undoes, in order.
THEOREM NormalizeKeepsSurvivorsAlways ==
  Spec => []NormalizeKeepsSurvivors
  <1>1. path \in Seq(Segments \cup {Empty}) /\ path # <<>> => NormalizeKeepsSurvivors
    BY StackIsSurviving DEF NormalizeKeepsSurvivors, Norm, NormalizePath
  <1> QED
    BY <1>1, PathTyped, PTL
=============================================================================
