--------------------------- MODULE VfsPathsProofs ---------------------------
(***************************************************************************)
(* Lemmas about the operators of VfsPaths: what find_best_mount answers,   *)
(* for any path and any mount table.                                       *)
(***************************************************************************)
EXTENDS VfsPaths, SequenceTheorems, WellFoundedInduction, TLAPS

\* A set of naturals that is not empty has a least element.
LEMMA LeastNatural ==
  ASSUME NEW T \in SUBSET Nat, T # {}
  PROVE  \E x \in T : \A y \in T : x <= y
  <1> DEFINE Less == {p \in Nat \X Nat : p[1] < p[2]}
  <1>1. Less = OpToRel(<, Nat)
    BY DEF OpToRel
  <1>2. IsWellFoundedOn(Less, Nat)
    BY <1>1, NatLessThanWellFounded
  <1> HIDE DEF Less
  <1>3. PICK x \in T : \A y \in T : <<y, x>> \notin Less
    BY <1>2, WFMin
  <1>4. ASSUME NEW y \in T
        PROVE  x <= y
    <2>1. x \in Nat /\ y \in Nat
      OBVIOUS
    <2>2. <<y, x>> \notin {p \in Nat \X Nat : p[1] < p[2]}
      BY <1>3 DEF Less
    <2> QED
      BY <2>1, <2>2
  <1> QED
    BY <1>4

\* What has been found after the first k mounts, as a function of k, is defined for a list
\* of any length.
LEMMA PassDefined ==
  ASSUME NEW path, NEW mps, Len(mps) \in Nat
  PROVE  \E pass :
           /\ pass[0] = 0
           /\ \A i \in 1..Len(mps) : pass[i] = Better(path, mps, pass[i - 1], i)
           /\ FindBestMount(path, mps) = pass[Len(mps)]
  <1> DEFINE Is(f, k) == f = [i \in 0..k |-> IF i = 0 THEN 0 ELSE Better(path, mps, f[i - 1], i)]
             None == {k \in Nat : ~\E f : Is(f, k)}
  <1>1. None = {}
    <2> SUFFICES ASSUME None # {} PROVE FALSE
      OBVIOUS
    <2>1. PICK k \in None : \A j \in None : k <= j
      <3>1. None \in SUBSET Nat
        OBVIOUS
      <3> HIDE DEF None
      <3> QED
        BY <3>1, LeastNatural
    <2>2. k # 0
      <3>1. Is([i \in 0..0 |-> 0], 0)
        OBVIOUS
      <3> QED
        BY <3>1
    <2>3. k - 1 \in Nat /\ k - 1 \notin None
      BY <2>1, <2>2
    <2>4. PICK f : Is(f, k - 1)
      BY <2>3
    <2> DEFINE g == [i \in 0..k |-> IF i < k THEN f[i] ELSE Better(path, mps, f[k - 1], k)]
    <2>5. \A i \in 0..k : g[i] = IF i = 0 THEN 0 ELSE Better(path, mps, g[i - 1], i)
      <3> TAKE i \in 0..k
      <3>1. CASE i = 0
        BY <3>1, <2>2, <2>3, <2>4
      <3>2. CASE i # 0 /\ i < k
        <4>1. i - 1 \in 0..k /\ i - 1 < k /\ i \in 0..(k - 1)
          BY <3>2
        <4>2. g[i] = f[i] /\ g[i - 1] = f[i - 1]
          BY <4>1, <3>2
        <4>3. f[i] = Better(path, mps, f[i - 1], i)
          BY <4>1, <3>2, <2>4
        <4> QED
          BY <4>2, <4>3, <3>2
      <3>3. CASE i = k
        <4>1. g[k - 1] = f[k - 1] /\ g[k] = Better(path, mps, f[k - 1], k)
          BY <2>3
        <4> QED
          BY <4>1, <3>3, <2>2
      <3> QED
        BY <3>1, <3>2, <3>3
    <2>6. Is(g, k)
      BY <2>5
    <2> QED
      BY <2>6
  <1>2. \E f : Is(f, Len(mps))
    BY <1>1
  <1> DEFINE pass == CHOOSE f : Is(f, Len(mps))
  <1>3. Is(pass, Len(mps))
    BY <1>2
  <1>4. FindBestMount(path, mps) = pass[Len(mps)]
    BY DEF FindBestMount
  <1>5. \A i \in 0..Len(mps) : pass[i] = IF i = 0 THEN 0 ELSE Better(path, mps, pass[i - 1], i)
    BY <1>3
  <1> HIDE DEF pass
  <1> QED
    BY <1>4, <1>5

\* find_best_mount answers with a mount of the table or with none, whatever is in it.
LEMMA BestInTable ==
  ASSUME NEW path, NEW mps, Len(mps) \in Nat
  PROVE  FindBestMount(path, mps) \in 0..Len(mps)
  <1>1. PICK pass :
          /\ pass[0] = 0
          /\ \A i \in 1..Len(mps) : pass[i] = Better(path, mps, pass[i - 1], i)
          /\ FindBestMount(path, mps) = pass[Len(mps)]
    BY PassDefined
  <1> DEFINE Out == {k \in 0..Len(mps) : pass[k] \notin 0..k}
  <1>2. Out = {}
    <2> SUFFICES ASSUME Out # {} PROVE FALSE
      OBVIOUS
    <2>1. PICK k \in Out : \A j \in Out : k <= j
      <3>1. Out \in SUBSET Nat
        OBVIOUS
      <3> HIDE DEF Out
      <3> QED
        BY <3>1, LeastNatural
    <2>2. k # 0
      BY <1>1
    <2>3. k \in 1..Len(mps) /\ k - 1 \in 0..Len(mps) /\ k - 1 \notin Out
      BY <2>1, <2>2
    <2>4. pass[k] \in {pass[k - 1], k}
      <3>1. pass[k] = Better(path, mps, pass[k - 1], k)
        BY <1>1, <2>3
      <3>2. Better(path, mps, pass[k - 1], k) \in {pass[k - 1], k}
        BY DEF Better
      <3> QED
        BY <3>1, <3>2
    <2> QED
      BY <2>3, <2>4
  <1> QED
    BY <1>1, <1>2

\* The mount at i serves the path: the root mount, or one at the path or above it.
Serves(path, mps, i) == mps[i] = Root \/ IsPrefix(mps[i], path)

\* What the first k mounts of the table make of the answer: one of them that serves the
\* path, none that does is longer, and of those that are as long it is the first, the
\* newest; or none, if none serves the path.
Found(path, mps, k, best) ==
  /\ best \in 0..k
  /\ best = 0 => \A i \in 1..k : ~Serves(path, mps, i)
  /\ best # 0 => /\ Serves(path, mps, best)
                 /\ \A i \in 1..k : Serves(path, mps, i) =>
                      /\ MpLen(mps[i]) <= MpLen(mps[best])
                      /\ MpLen(mps[i]) = MpLen(mps[best]) => best <= i

\* One more mount.
LEMMA FoundNext ==
  ASSUME NEW path, NEW mps, NEW n \in Nat, \A i \in 1..n : MpLen(mps[i]) \in Nat,
         NEW k \in 1..n, NEW best, Found(path, mps, k - 1, best)
  PROVE  Found(path, mps, k, Better(path, mps, best, k))
  <1>1. /\ best \in 0..(k - 1) /\ k \in Nat
        /\ best # 0 => best \in 1..n /\ Serves(path, mps, best)
        /\ \A i \in 1..k : i \in 1..n /\ (i = k \/ i \in 1..(k - 1))
    BY DEF Found
  <1>2. CASE ~Serves(path, mps, k)
    <2>1. Better(path, mps, best, k) = best
      BY <1>2 DEF Better, Serves
    <2> QED
      BY <2>1, <1>1, <1>2 DEF Found
  <1>3. CASE Serves(path, mps, k) /\ best = 0
    <2>1. Better(path, mps, best, k) = k
      BY <1>3 DEF Better, Serves
    <2>2. \A i \in 1..k : Serves(path, mps, i) => i = k
      BY <1>1, <1>3 DEF Found
    <2> QED
      BY <2>1, <2>2, <1>1, <1>3 DEF Found
  <1>4. CASE Serves(path, mps, k) /\ best # 0 /\ MpLen(mps[k]) > MpLen(mps[best])
    <2>1. MpLen(mps[k]) \in Nat /\ MpLen(mps[best]) \in Nat
      BY <1>1, <1>4
    <2>2. mps[k] # Root
      <3>1. MpLen(mps[best]) >= 1 \/ mps[best] # Root
        BY DEF MpLen
      <3>2. CASE mps[best] = Root
        BY <3>2, <1>4 DEF MpLen
      <3>3. CASE mps[best] # Root
        <4> SUFFICES ASSUME mps[k] = Root PROVE FALSE
          OBVIOUS
        <4>1. MpLen(mps[k]) = 1 /\ MpLen(mps[best]) = Len(mps[best]) + 1
          BY <3>3 DEF MpLen
        <4> QED
          BY <4>1, <2>1, <1>4
      <3> QED
        BY <3>2, <3>3
    <2>3. Better(path, mps, best, k) = k
      BY <2>2, <1>4 DEF Better, Serves
    <2>4. \A i \in 1..k : Serves(path, mps, i) => i = k \/ MpLen(mps[i]) <= MpLen(mps[best])
      BY <1>1, <1>4 DEF Found
    <2>5. \A i \in 1..k : Serves(path, mps, i) => i = k \/ MpLen(mps[i]) < MpLen(mps[k])
      BY <2>1, <2>4, <1>1, <1>4
    <2>6. \A i \in 1..k : MpLen(mps[i]) \in Nat
      BY <1>1
    <2> QED
      BY <2>1, <2>3, <2>5, <2>6, <1>1, <1>4 DEF Found
  <1>5. CASE Serves(path, mps, k) /\ best # 0 /\ ~(MpLen(mps[k]) > MpLen(mps[best]))
    <2>1. MpLen(mps[k]) \in Nat /\ MpLen(mps[best]) \in Nat
      BY <1>1, <1>5
    <2>2. mps[k] # Root => Better(path, mps, best, k) = best
      BY <1>5 DEF Better
    <2>3. Better(path, mps, best, k) = best
      BY <2>2, <1>5 DEF Better
    <2>4. MpLen(mps[k]) <= MpLen(mps[best]) /\ best <= k
      BY <2>1, <1>1, <1>5
    <2> QED
      BY <2>3, <2>4, <1>1, <1>5 DEF Found
  <1> QED
    BY <1>2, <1>3, <1>4, <1>5

\* find_best_mount answers for the whole table.
LEMMA BestMount ==
  ASSUME NEW path, NEW S, NEW mps \in Seq(Seq(S))
  PROVE  Found(path, mps, Len(mps), FindBestMount(path, mps))
  <1>1. Len(mps) \in Nat
    OBVIOUS
  <1>2. \A i \in 1..Len(mps) : MpLen(mps[i]) \in Nat
    BY <1>1 DEF MpLen
  <1>3. PICK pass :
          /\ pass[0] = 0
          /\ \A i \in 1..Len(mps) : pass[i] = Better(path, mps, pass[i - 1], i)
          /\ FindBestMount(path, mps) = pass[Len(mps)]
    BY <1>1, PassDefined
  <1> DEFINE Bad == {k \in 0..Len(mps) : ~Found(path, mps, k, pass[k])}
  <1>4. Bad = {}
    <2> SUFFICES ASSUME Bad # {} PROVE FALSE
      OBVIOUS
    <2>1. PICK k \in Bad : \A j \in Bad : k <= j
      <3>1. Bad \in SUBSET Nat
        BY <1>1
      <3> HIDE DEF Bad
      <3> QED
        BY <3>1, LeastNatural
    <2>2. k # 0
      <3>1. Found(path, mps, 0, pass[0])
        BY <1>3 DEF Found
      <3> QED
        BY <3>1
    <2>3. k \in 1..Len(mps) /\ k - 1 \in 0..Len(mps) /\ k - 1 \notin Bad
      BY <2>1, <2>2, <1>1
    <2>4. Found(path, mps, k - 1, pass[k - 1])
      BY <2>3
    <2>5. Found(path, mps, k, pass[k])
      <3>1. pass[k] = Better(path, mps, pass[k - 1], k)
        BY <2>3, <1>3
      <3>2. Found(path, mps, k, Better(path, mps, pass[k - 1], k))
        <4>1. PICK n \in Nat : n = Len(mps)
          BY <1>1
        <4> HIDE DEF Bad
        <4> QED
          BY <4>1, <2>3, <2>4, <1>2, FoundNext
      <3> QED
        BY <3>1, <3>2
    <2> QED
      BY <2>1, <2>5
  <1> QED
    BY <1>1, <1>3, <1>4
----------------------------------------------------------------------------
\* One mount more or less in the table.

\* The answer is determined.
LEMMA FoundOnce ==
  ASSUME NEW path, NEW mps, NEW n \in Nat, \A i \in 1..n : MpLen(mps[i]) \in Nat,
         NEW a, NEW b, Found(path, mps, n, a), Found(path, mps, n, b)
  PROVE  a = b
  <1>1. a \in 0..n /\ b \in 0..n
    BY DEF Found
  <1>2. CASE a = 0 \/ b = 0
    BY <1>1, <1>2 DEF Found
  <1>3. CASE a # 0 /\ b # 0
    <2>1. a \in 1..n /\ b \in 1..n
      BY <1>1, <1>3
    <2>2. /\ MpLen(mps[a]) <= MpLen(mps[b]) /\ MpLen(mps[b]) <= MpLen(mps[a])
          /\ MpLen(mps[a]) = MpLen(mps[b]) => a <= b /\ b <= a
      BY <1>3, <2>1 DEF Found
    <2>3. MpLen(mps[a]) = MpLen(mps[b])
      BY <2>1, <2>2
    <2> QED
      BY <2>1, <2>2, <2>3
  <1> QED
    BY <1>2, <1>3

\* Where the j-th element of a list stands when there is one more at i.
Skip(i, j) == IF j < i THEN j ELSE j + 1

OneLess(long, short, i) ==
  /\ i \in 1..Len(long) /\ Len(short) = Len(long) - 1
  /\ \A j \in 1..Len(short) : short[j] = long[Skip(i, j)]

\* A mount that does not serve a path has no part in the choice.
LEMMA BestWithout ==
  ASSUME NEW S, NEW long \in Seq(Seq(S)), NEW short \in Seq(Seq(S)),
         NEW i, OneLess(long, short, i), NEW path, ~Serves(path, long, i)
  PROVE  FindBestMount(path, long) =
           IF FindBestMount(path, short) = 0 THEN 0 ELSE Skip(i, FindBestMount(path, short))
  <1> USE DEF OneLess
  <1>1. PICK n \in Nat : n = Len(long) /\ Len(short) = n - 1 /\ n - 1 \in Nat
    OBVIOUS
  <1>2. \A j \in 1..n : MpLen(long[j]) \in Nat
    BY <1>1 DEF MpLen
  <1>3. PICK b : b = FindBestMount(path, short) /\ Found(path, short, n - 1, b)
    BY <1>1, BestMount
  <1>4. PICK a : a = FindBestMount(path, long) /\ Found(path, long, n, a)
    BY <1>1, BestMount
  <1>5. PICK c : c = IF b = 0 THEN 0 ELSE Skip(i, b)
    OBVIOUS
  <1>6. \A j \in 1..(n - 1) : Skip(i, j) \in 1..n /\ short[j] = long[Skip(i, j)]
    BY <1>1 DEF Skip
  <1>7. \A j \in 1..(n - 1) : Serves(path, short, j) <=> Serves(path, long, Skip(i, j))
    BY <1>6 DEF Serves
  <1>8. \A k \in 1..n : k # i => \E j \in 1..(n - 1) : k = Skip(i, j)
    <2> SUFFICES ASSUME NEW k \in 1..n, k # i PROVE \E j \in 1..(n - 1) : k = Skip(i, j)
      OBVIOUS
    <2>1. CASE k < i
      <3>1. k \in 1..(n - 1) /\ k = Skip(i, k)
        BY <1>1, <2>1 DEF Skip
      <3> QED
        BY <3>1
    <2>2. CASE ~(k < i)
      <3>1. k - 1 \in 1..(n - 1) /\ k = Skip(i, k - 1)
        BY <1>1, <2>2 DEF Skip
      <3> QED
        BY <3>1
    <2> QED
      BY <2>1, <2>2
  <1>9. Found(path, long, n, c)
    <2>1. CASE b = 0
      <3>1. \A j \in 1..(n - 1) : ~Serves(path, short, j)
        BY <1>3, <2>1 DEF Found
      <3>2. \A k \in 1..n : ~Serves(path, long, k)
        BY <1>7, <1>8, <3>1
      <3>3. c = 0
        BY <1>5, <2>1
      <3> QED
        BY <3>2, <3>3 DEF Found
    <2>2. CASE b # 0
      <3>1. b \in 1..(n - 1) /\ Serves(path, short, b) /\ c = Skip(i, b)
        BY <1>3, <1>5, <2>2 DEF Found
      <3>2. c \in 1..n /\ Serves(path, long, c) /\ short[b] = long[c]
        BY <1>6, <1>7, <3>1
      <3>3. ASSUME NEW k \in 1..n, Serves(path, long, k)
            PROVE  /\ MpLen(long[k]) <= MpLen(long[c])
                   /\ MpLen(long[k]) = MpLen(long[c]) => c <= k
        <4>1. PICK j \in 1..(n - 1) : k = Skip(i, j)
          BY <1>8, <3>3
        <4>2. Serves(path, short, j) /\ short[j] = long[k]
          BY <1>6, <1>7, <3>3, <4>1
        <4>3. /\ MpLen(short[j]) <= MpLen(short[b])
              /\ MpLen(short[j]) = MpLen(short[b]) => b <= j
          BY <1>3, <2>2, <4>2 DEF Found
        <4>4. b <= j => c <= k
          BY <1>1, <3>1, <4>1 DEF Skip
        <4> QED
          BY <3>2, <4>2, <4>3, <4>4
      <3>4. c # 0 /\ c \in 0..n
        BY <3>2
      <3> QED
        BY <3>2, <3>3, <3>4 DEF Found
    <2> QED
      BY <2>1, <2>2
  <1>10. a = c
    BY <1>2, <1>4, <1>9, FoundOnce
  <1> QED
    BY <1>3, <1>4, <1>5, <1>10
----------------------------------------------------------------------------
\* The recursive functions: what is proved of every prefix is proved of the whole.

\* Induction up to n, for a set of numbers.
LEMMA UpTo_n ==
  ASSUME NEW n \in Nat, NEW T, 0 \in T, \A i \in 1..n : i - 1 \in T => i \in T
  PROVE  \A i \in 0..n : i \in T
  <1> DEFINE Out == {i \in 0..n : i \notin T}
  <1>1. Out = {}
    <2> SUFFICES ASSUME Out # {} PROVE FALSE
      OBVIOUS
    <2>1. PICK k \in Out : \A j \in Out : k <= j
      <3>1. Out \in SUBSET Nat
        OBVIOUS
      <3> HIDE DEF Out
      <3> QED
        BY <3>1, LeastNatural
    <2>2. k \in 1..n /\ k - 1 \in 0..n /\ k - 1 \notin Out
      BY <2>1
    <2> QED
      BY <2>1, <2>2
  <1> QED
    BY <1>1

\* A recursion whose steps stay in A has its values in A.
Recurs(f, n, base, step) == f = [i \in 0..n |-> IF i = 0 THEN base ELSE step[i][f[i - 1]]]

LEMMA Recursion ==
  ASSUME NEW n \in Nat, NEW A, NEW base \in A, NEW step \in [1..n -> [A -> A]]
  PROVE  \E f \in [0..n -> A] : Recurs(f, n, base, step)
  <1> DEFINE Is(f, k) == f = [i \in 0..k |-> IF i = 0 THEN base ELSE step[i][f[i - 1]]]
             T == {k \in 0..n : \E f \in [0..k -> A] : Is(f, k)}
  <1>1. 0 \in T
    <2>1. PICK f : f = [i \in 0..0 |-> base]
      OBVIOUS
    <2>2. f \in [0..0 -> A] /\ Is(f, 0)
      BY <2>1
    <2> HIDE DEF Is
    <2>3. 0 \in 0..n
      OBVIOUS
    <2> QED
      BY <2>2, <2>3
  <1>2. ASSUME NEW k \in 1..n, k - 1 \in T
        PROVE  k \in T
    <2>1. PICK f \in [0..(k - 1) -> A] : Is(f, k - 1)
      BY <1>2
    <2> DEFINE g == [i \in 0..k |-> IF i < k THEN f[i] ELSE step[k][f[k - 1]]]
    <2>2. k - 1 \in 0..(k - 1) /\ f[k - 1] \in A /\ step[k][f[k - 1]] \in A
      OBVIOUS
    <2>3. g \in [0..k -> A]
      BY <2>2
    <2>4. \A i \in 0..k : g[i] = IF i = 0 THEN base ELSE step[i][g[i - 1]]
      <3> TAKE i \in 0..k
      <3>1. CASE i < k
        <4>1. i \in 0..(k - 1) /\ g[i] = f[i]
          BY <3>1
        <4>2. f[i] = IF i = 0 THEN base ELSE step[i][f[i - 1]]
          BY <4>1, <2>1
        <4>3. i # 0 => g[i - 1] = f[i - 1]
          BY <4>1
        <4> QED
          BY <4>1, <4>2, <4>3
      <3>2. CASE i = k
        <4>1. g[k] = step[k][f[k - 1]] /\ g[k - 1] = f[k - 1] /\ k # 0
          OBVIOUS
        <4> QED
          BY <3>2, <4>1
      <3> QED
        BY <3>1, <3>2
    <2>5. Is(g, k)
      BY <2>4
    <2>6. k \in 0..n
      OBVIOUS
    <2> HIDE DEF g, Is
    <2> QED
      BY <2>3, <2>5, <2>6
  <1> HIDE DEF T
  <1>3. \A k \in 0..n : k \in T
    BY <1>1, <1>2, UpTo_n
  <1>4. n \in T
    BY <1>3
  <1> QED
    BY <1>4 DEF T, Recurs

\* The names found in the first i segments.
LEMMA NamesDefined ==
  ASSUME NEW S, NEW p \in Seq(S)
  PROVE  \E f \in [0..Len(p) -> Seq(S \ {Empty})] :
           /\ f[0] = <<>>
           /\ \A i \in 1..Len(p) :
                f[i] = IF p[i] = Empty THEN f[i - 1] ELSE Append(f[i - 1], p[i])
           /\ Names(p) = f[Len(p)]
  <1> DEFINE A == Seq(S \ {Empty})
             n == Len(p)
             step == [i \in 1..n |-> [s \in A |-> IF p[i] = Empty THEN s ELSE Append(s, p[i])]]
             Is(f) == f = [i \in 0..n |-> IF i = 0 THEN <<>>
                                          ELSE IF p[i] = Empty THEN f[i - 1]
                                          ELSE Append(f[i - 1], p[i])]
  <1>1. n \in Nat /\ <<>> \in A /\ n \in 0..n
    OBVIOUS
  <1>2. step \in [1..n -> [A -> A]]
    <2>1. ASSUME NEW i \in 1..n, NEW s \in A
          PROVE  (IF p[i] = Empty THEN s ELSE Append(s, p[i])) \in A
      <3>1. p[i] \in S
        BY ElementOfSeq
      <3> QED
        BY <3>1, AppendProperties
    <2> QED
      BY <2>1
  <1>3. \A i \in 1..n : \A s \in A : step[i][s] = IF p[i] = Empty THEN s ELSE Append(s, p[i])
    OBVIOUS
  <1> HIDE DEF step, A, n
  <1>4. PICK g \in [0..n -> A] : g = [i \in 0..n |-> IF i = 0 THEN <<>> ELSE step[i][g[i - 1]]]
    <2>1. PICK base \in A : base = <<>>
      BY <1>1
    <2>2. \E g \in [0..n -> A] : Recurs(g, n, base, step)
      BY <1>1, <1>2, Recursion
    <2> QED
      BY <2>1, <2>2 DEF Recurs
  <1>5. \A i \in 0..n : g[i] = IF i = 0 THEN <<>>
                               ELSE IF p[i] = Empty THEN g[i - 1]
                               ELSE Append(g[i - 1], p[i])
    <2> TAKE i \in 0..n
    <2>1. CASE i # 0
      <3>1. i \in 1..n /\ g[i - 1] \in A /\ g[i] = step[i][g[i - 1]]
        BY <2>1, <1>1, <1>4
      <3> QED
        BY <2>1, <3>1, <1>3
    <2> QED
      BY <2>1, <1>4
  <1>6. Is(g)
    BY <1>5
  <1>7. \A f : Is(f) => f = g
    <2> SUFFICES ASSUME NEW f, Is(f) PROVE f = g
      OBVIOUS
    <2> DEFINE T == {i \in 0..n : f[i] = g[i]}
    <2>1. 0 \in T
      BY <1>1, <1>5
    <2>2. ASSUME NEW i \in 1..n, i - 1 \in T PROVE i \in T
      <3>1. i \in 0..n /\ i # 0
        BY <1>1
      <3>2. f[i] = (IF p[i] = Empty THEN f[i - 1] ELSE Append(f[i - 1], p[i]))
        BY <3>1
      <3> QED
        BY <3>1, <3>2, <2>2, <1>5
    <2> HIDE DEF T
    <2>3. \A i \in 0..n : i \in T
      BY <1>1, <2>1, <2>2, UpTo_n
    <2>4. f = [i \in 0..n |-> f[i]] /\ g = [i \in 0..n |-> g[i]]
      BY <1>4
    <2> QED
      BY <2>3, <2>4 DEF T
  <1> DEFINE f == CHOOSE h : Is(h)
  <1>8. Is(f)
    BY <1>6
  <1>9. f = g
    BY <1>7, <1>8
  <1>10. Names(p) = f[n]
    BY DEF Names, n
  <1> HIDE DEF Is, f
  <1>11. Names(p) = g[n]
    BY <1>9, <1>10
  <1>12. /\ g[0] = <<>>
         /\ \A i \in 1..n : g[i] = IF p[i] = Empty THEN g[i - 1] ELSE Append(g[i - 1], p[i])
    <2>1. 0 \in 0..n /\ \A i \in 1..n : i \in 0..n /\ i # 0
      BY <1>1
    <2> QED
      BY <2>1, <1>5
  <1> QED
    BY <1>4, <1>11, <1>12 DEF A, n
\* Names are segments that are not empty.
LEMMA NamesTyped ==
  ASSUME NEW S, NEW p \in Seq(S)
  PROVE  Names(p) \in Seq(S \ {Empty}) /\ Names(p) \in Seq(S)
  <1>1. PICK f \in [0..Len(p) -> Seq(S \ {Empty})] : Names(p) = f[Len(p)]
    BY NamesDefined
  <1>2. Len(p) \in 0..Len(p)
    OBVIOUS
  <1>3. Names(p) \in Seq(S \ {Empty})
    BY <1>1, <1>2
  <1>4. S \ {Empty} \subseteq S
    OBVIOUS
  <1> QED
    BY <1>3, <1>4, SeqMonotonic

LEMMA NamesOfRoot ==
  Names(Root) = <<>>
  <1>1. Root \in Seq({Empty})
    BY DEF Root
  <1>2. Names(Root) \in Seq({Empty} \ {Empty})
    BY <1>1, NamesTyped
  <1>3. PICK s : s = Names(Root)
    OBVIOUS
  <1>4. s \in Seq({})
    BY <1>2, <1>3
  <1>5. s = <<>>
    BY <1>4
  <1> QED
    BY <1>3, <1>5

\* A path that consists of names has these names.
LEMMA NamesOfNames ==
  ASSUME NEW S, NEW p \in Seq(S), \A i \in 1..Len(p) : p[i] # Empty
  PROVE  Names(p) = p
  <1>1. PICK f \in [0..Len(p) -> Seq(S \ {Empty})] :
          /\ f[0] = <<>>
          /\ \A i \in 1..Len(p) :
               f[i] = IF p[i] = Empty THEN f[i - 1] ELSE Append(f[i - 1], p[i])
          /\ Names(p) = f[Len(p)]
    BY NamesDefined
  <1> DEFINE T == {i \in 0..Len(p) : f[i] = SubSeq(p, 1, i)}
  <1>2. Len(p) \in Nat /\ Len(p) \in 0..Len(p)
    OBVIOUS
  <1>3. 0 \in T
    <2>1. SubSeq(p, 1, 0) = <<>>
      BY SubSeqEmpty
    <2> QED
      BY <2>1, <1>1, <1>2
  <1>4. ASSUME NEW i \in 1..Len(p), i - 1 \in T PROVE i \in T
    <2>0. i \in 0..Len(p) /\ p[i] # Empty /\ f[i - 1] = SubSeq(p, 1, i - 1)
      BY <1>2, <1>4
    <2>1. f[i] = Append(f[i - 1], p[i])
      BY <2>0, <1>1
    <2>2. SubSeq(p, 1, i) = Append(SubSeq(p, 1, i - 1), p[i])
      OBVIOUS
    <2> QED
      BY <2>0, <2>1, <2>2
  <1> HIDE DEF T
  <1>5. \A i \in 0..Len(p) : i \in T
    BY <1>2, <1>3, <1>4, UpTo_n
  <1>6. f[Len(p)] = SubSeq(p, 1, Len(p))
    BY <1>2, <1>5 DEF T
  <1> QED
    BY <1>1, <1>6, SubSeqFull

Longer(s, e) == Append(s, e)
Joined(s, r) == s \o r

LEMMA LongerConcat ==
  ASSUME NEW A, NEW a \in Seq(A), NEW b \in Seq(A), NEW e \in A
  PROVE  Longer(Joined(a, b), e) = Joined(a, Longer(b, e))
  BY DEF Longer, Joined

\* The names of a path that is cut in two.
LEMMA NamesOfConcat ==
  ASSUME NEW S, NEW p \in Seq(S), NEW q \in Seq(S)
  PROVE  Names(p \o q) = Names(p) \o Names(q)
  <1>1. PICK n \in Nat, m \in Nat : n = Len(p) /\ m = Len(q)
    OBVIOUS
  <1>2. PICK r \in Seq(S) : /\ r = p \o q /\ Len(r) = n + m
                            /\ \A i \in 1..n : r[i] = p[i]
                            /\ \A i \in 1..m : r[n + i] = q[i]
    <2>1. PICK r : r = p \o q
      OBVIOUS
    <2>2. r \in Seq(S) /\ Len(r) = n + m
      BY <1>1, <2>1, ConcatProperties
    <2>3. \A i \in 1..(n + m) : r[i] = IF i <= n THEN p[i] ELSE q[i - n]
      BY <1>1, <2>1, ConcatProperties
    <2>4. ASSUME NEW i \in 1..n PROVE r[i] = p[i]
      <3>1. i \in 1..(n + m) /\ i <= n
        OBVIOUS
      <3> QED
        BY <2>3, <3>1
    <2>5. ASSUME NEW i \in 1..m PROVE r[n + i] = q[i]
      <3>1. n + i \in 1..(n + m) /\ ~(n + i <= n) /\ (n + i) - n = i
        OBVIOUS
      <3> QED
        BY <2>3, <3>1
    <2> QED
      BY <2>1, <2>2, <2>4, <2>5
  <1>3. PICK f \in [0..n -> Seq(S \ {Empty})] :
          /\ f[0] = <<>>
          /\ \A i \in 1..n : f[i] = IF p[i] = Empty THEN f[i - 1] ELSE Append(f[i - 1], p[i])
          /\ Names(p) = f[n]
    BY <1>1, NamesDefined
  <1>4. PICK g \in [0..m -> Seq(S \ {Empty})] :
          /\ g[0] = <<>>
          /\ \A i \in 1..m : g[i] = IF q[i] = Empty THEN g[i - 1] ELSE Append(g[i - 1], q[i])
          /\ Names(q) = g[m]
    BY <1>1, NamesDefined
  <1>5. PICK h \in [0..(n + m) -> Seq(S \ {Empty})] :
          /\ h[0] = <<>>
          /\ \A i \in 1..(n + m) : h[i] = IF r[i] = Empty THEN h[i - 1] ELSE Append(h[i - 1], r[i])
          /\ Names(r) = h[n + m]
    <2>1. PICK h \in [0..Len(r) -> Seq(S \ {Empty})] :
            /\ h[0] = <<>>
            /\ \A i \in 1..Len(r) : h[i] = IF r[i] = Empty THEN h[i - 1] ELSE Append(h[i - 1], r[i])
            /\ Names(r) = h[Len(r)]
      BY NamesDefined
    <2>2. Len(r) = n + m
      BY <1>2
    <2> QED
      BY <2>1, <2>2
  <1> DEFINE T == {i \in 0..n : h[i] = f[i]}
             U == {i \in 0..m : h[n + i] = f[n] \o g[i]}
  <1>6. \A i \in 0..n : i \in T
    <2>1. 0 \in T
      BY <1>3, <1>5
    <2>2. ASSUME NEW i \in 1..n, i - 1 \in T PROVE i \in T
      <3>1. i \in 1..(n + m) /\ i \in 0..n
        OBVIOUS
      <3>2. r[i] = p[i]
        BY <1>2
      <3> QED
        BY <3>1, <3>2, <2>2, <1>3, <1>5
    <2> HIDE DEF T
    <2> QED
      BY <2>1, <2>2, UpTo_n
  <1>7. \A i \in 0..m : i \in U
    <2>0. n \in 0..n /\ f[n] \in Seq(S \ {Empty}) /\ h[n] = f[n]
      BY <1>6
    <2>1. 0 \in U
      <3>1. f[n] \o g[0] = f[n]
        BY <2>0, <1>4, ConcatEmptySeq
      <3>2. 0 \in 0..m /\ n + 0 = n
        OBVIOUS
      <3> QED
        BY <3>1, <3>2, <2>0
    <2>2. ASSUME NEW i \in 1..m, i - 1 \in U PROVE i \in U
      <3>0. i \in 0..m /\ n + i \in 1..(n + m) /\ (n + i) - 1 = n + (i - 1)
        OBVIOUS
      <3>1. i \in 0..m /\ n + i \in 1..(n + m) /\ r[n + i] = q[i] /\ (n + i) - 1 = n + (i - 1)
        BY <3>0, <1>2
      <3>2. h[n + i] = IF q[i] = Empty THEN h[n + (i - 1)] ELSE Append(h[n + (i - 1)], q[i])
        BY <3>1, <1>5
      <3>3. h[n + (i - 1)] = f[n] \o g[i - 1]
        BY <2>2
      <3>4. CASE q[i] = Empty
        <4>1. g[i] = g[i - 1]
          BY <3>4, <1>4
        <4> QED
          BY <3>1, <3>2, <3>3, <3>4, <4>1
      <3>5. CASE q[i] # Empty
        <4>0. q[i] \in S \ {Empty} /\ i - 1 \in 0..m
          BY <3>5, <1>1, ElementOfSeq
        <4>1. g[i] = Append(g[i - 1], q[i]) /\ g[i - 1] \in Seq(S \ {Empty}) /\ q[i] \in S \ {Empty}
          BY <3>5, <4>0, <1>4
        <4>2. Append(f[n] \o g[i - 1], q[i]) = f[n] \o Append(g[i - 1], q[i])
          <5>1. PICK A : A = S \ {Empty}
            OBVIOUS
          <5>2. f[n] \in Seq(A) /\ g[i - 1] \in Seq(A) /\ q[i] \in A
            BY <5>1, <4>1, <2>0
          <5>3. Longer(Joined(f[n], g[i - 1]), q[i]) = Joined(f[n], Longer(g[i - 1], q[i]))
            BY <5>2, LongerConcat
          <5> QED
            BY <5>3 DEF Longer, Joined
        <4> QED
          BY <3>1, <3>2, <3>3, <3>5, <4>1, <4>2
      <3> QED
        BY <3>4, <3>5
    <2> HIDE DEF U
    <2> QED
      BY <2>1, <2>2, UpTo_n
  <1>8. h[n + m] = f[n] \o g[m]
    <2>1. m \in 0..m
      OBVIOUS
    <2> QED
      BY <1>7, <2>1
  <1> QED
    BY <1>2, <1>3, <1>4, <1>5, <1>8
----------------------------------------------------------------------------
\* normalize_path_alloc.

LEMMA SpecialSegments ==
  /\ Empty # Dot /\ Empty # DotDot /\ Dot # DotDot
  /\ Empty \in Special /\ Dot \in Special /\ DotDot \in Special
  BY Zenon DEF Empty, Dot, DotDot, Special

\* A segment leaves a stack of names.
LEMMA PushTyped ==
  ASSUME NEW S, NEW stack \in Seq(S \ Special), NEW seg \in S
  PROVE  Push(stack, seg) \in Seq(S \ Special)
  <1>1. PICK A : A = S \ Special
    OBVIOUS
  <1>2. stack \in Seq(A)
    BY <1>1
  <1>3. CASE seg \in {Empty, Dot}
    BY <1>1, <1>2, <1>3 DEF Push
  <1>4. CASE seg \notin {Empty, Dot} /\ seg = DotDot /\ stack = <<>>
    BY <1>1, <1>2, <1>4 DEF Push
  <1>5. CASE seg \notin {Empty, Dot} /\ seg = DotDot /\ stack # <<>>
    <2>1. Front(stack) \in Seq(A)
      BY <1>2, <1>5 DEF Front
    <2> QED
      BY <1>1, <2>1, <1>5 DEF Push
  <1>6. CASE seg \notin {Empty, Dot} /\ seg # DotDot
    <2>1. seg \in A
      BY <1>1, <1>6 DEF Special
    <2>2. Append(stack, seg) \in Seq(A)
      BY <1>2, <2>1, AppendProperties
    <2> QED
      BY <1>1, <2>2, <1>6 DEF Push
  <1> QED
    BY <1>3, <1>4, <1>5, <1>6

\* The stack after the first i segments.
StackRun(f, p) == \A i \in 1..Len(p) : f[i] = Push(f[i - 1], p[i])

LEMMA StackDefined ==
  ASSUME NEW S, NEW p \in Seq(S)
  PROVE  \E f \in [0..Len(p) -> Seq(S \ Special)] :
           f[0] = <<>> /\ StackRun(f, p) /\ Stacked(p) = f[Len(p)]
  <1> DEFINE A == Seq(S \ Special)
             n == Len(p)
             step == [i \in 1..n |-> [s \in A |-> Push(s, p[i])]]
             Is(f) == f = [i \in 0..n |-> IF i = 0 THEN <<>> ELSE Push(f[i - 1], p[i])]
  <1>1. n \in Nat /\ <<>> \in A /\ n \in 0..n
    OBVIOUS
  <1>2. step \in [1..n -> [A -> A]]
    <2>1. ASSUME NEW i \in 1..n, NEW s \in A PROVE Push(s, p[i]) \in A
      <3>1. p[i] \in S
        BY ElementOfSeq
      <3> QED
        BY <3>1, PushTyped
    <2> QED
      BY <2>1
  <1>3. \A i \in 1..n : \A s \in A : step[i][s] = Push(s, p[i])
    OBVIOUS
  <1> HIDE DEF step, A, n
  <1>4. PICK g \in [0..n -> A] : g = [i \in 0..n |-> IF i = 0 THEN <<>> ELSE step[i][g[i - 1]]]
    <2>1. PICK base \in A : base = <<>>
      BY <1>1
    <2>2. \E g \in [0..n -> A] : Recurs(g, n, base, step)
      BY <1>1, <1>2, Recursion
    <2> QED
      BY <2>1, <2>2 DEF Recurs
  <1>5. \A i \in 0..n : g[i] = IF i = 0 THEN <<>> ELSE Push(g[i - 1], p[i])
    <2> TAKE i \in 0..n
    <2>1. CASE i # 0
      <3>1. i \in 1..n /\ g[i - 1] \in A /\ g[i] = step[i][g[i - 1]]
        BY <2>1, <1>1, <1>4
      <3> QED
        BY <2>1, <3>1, <1>3
    <2> QED
      BY <2>1, <1>4
  <1>6. Is(g)
    BY <1>4, <1>5
  <1>7. \A f : Is(f) => f = g
    <2> SUFFICES ASSUME NEW f, Is(f) PROVE f = g
      OBVIOUS
    <2> DEFINE T == {i \in 0..n : f[i] = g[i]}
    <2>1. 0 \in T
      BY <1>1, <1>5
    <2>2. ASSUME NEW i \in 1..n, i - 1 \in T PROVE i \in T
      <3>1. i \in 0..n /\ i # 0
        BY <1>1
      <3>2. f[i] = Push(f[i - 1], p[i])
        BY <3>1
      <3> QED
        BY <3>1, <3>2, <2>2, <1>5
    <2> HIDE DEF T
    <2>3. \A i \in 0..n : i \in T
      BY <1>1, <2>1, <2>2, UpTo_n
    <2>4. f = [i \in 0..n |-> f[i]] /\ g = [i \in 0..n |-> g[i]]
      BY <1>4
    <2> QED
      BY <2>3, <2>4 DEF T
  <1> DEFINE f == CHOOSE h : Is(h)
  <1>8. Is(f)
    BY <1>6
  <1>9. f = g
    BY <1>7, <1>8
  <1>10. Stacked(p) = f[n]
    BY DEF Stacked, n
  <1> HIDE DEF Is, f
  <1>11. Stacked(p) = g[n]
    BY <1>9, <1>10
  <1>12. g[0] = <<>> /\ \A i \in 1..n : g[i] = Push(g[i - 1], p[i])
    <2>1. 0 \in 0..n /\ \A i \in 1..n : i \in 0..n /\ i # 0
      BY <1>1
    <2> QED
      BY <2>1, <1>5
  <1>13. StackRun(g, p)
    BY <1>12 DEF StackRun, n
  <1> QED
    BY <1>4, <1>11, <1>12, <1>13 DEF A, n

LEMMA StackTyped ==
  ASSUME NEW S, NEW p \in Seq(S)
  PROVE  Stacked(p) \in Seq(S \ Special)
  <1>1. PICK f \in [0..Len(p) -> Seq(S \ Special)] : Stacked(p) = f[Len(p)]
    BY StackDefined
  <1>2. Len(p) \in 0..Len(p)
    OBVIOUS
  <1> QED
    BY <1>1, <1>2

\* Names are stacked as they are.
LEMMA StackOfNames ==
  ASSUME NEW S, NEW p \in Seq(S \ Special)
  PROVE  Stacked(p) = p
  <1>1. PICK A : A = S \ Special /\ p \in Seq(A)
    OBVIOUS
  <1>2. PICK f \in [0..Len(p) -> Seq(A \ Special)] :
          f[0] = <<>> /\ StackRun(f, p) /\ Stacked(p) = f[Len(p)]
    BY <1>1, StackDefined
  <1> DEFINE T == {i \in 0..Len(p) : f[i] = SubSeq(p, 1, i)}
  <1>3. Len(p) \in Nat /\ Len(p) \in 0..Len(p)
    BY <1>1
  <1>4. 0 \in T
    <2>1. SubSeq(p, 1, 0) = <<>>
      BY SubSeqEmpty
    <2> QED
      BY <2>1, <1>2, <1>3
  <1>5. ASSUME NEW i \in 1..Len(p), i - 1 \in T PROVE i \in T
    <2>0. i \in 0..Len(p) /\ f[i - 1] = SubSeq(p, 1, i - 1)
      BY <1>3, <1>5
    <2>1. f[i] = Push(SubSeq(p, 1, i - 1), p[i])
      BY <2>0, <1>2 DEF StackRun
    <2>2. p[i] \notin Special
      BY <1>1, ElementOfSeq
    <2>3. f[i] = Append(SubSeq(p, 1, i - 1), p[i])
      BY <2>1, <2>2, SpecialSegments DEF Push
    <2>4. SubSeq(p, 1, i) = Append(SubSeq(p, 1, i - 1), p[i])
      BY <1>1
    <2> QED
      BY <2>0, <2>3, <2>4
  <1> HIDE DEF T
  <1>6. \A i \in 0..Len(p) : i \in T
    BY <1>3, <1>4, <1>5, UpTo_n
  <1>7. f[Len(p)] = SubSeq(p, 1, Len(p))
    BY <1>3, <1>6 DEF T
  <1> QED
    BY <1>1, <1>2, <1>7, SubSeqFull

\* The stack after a front part is where the rest of the path goes on from.
LEMMA StackGoesOn ==
  ASSUME NEW S, NEW a \in Seq(S), NEW q \in Seq(S)
  PROVE  \E h : /\ h[Len(a)] = Stacked(a)
                /\ \A i \in 1..Len(q) : h[Len(a) + i] = Push(h[Len(a) + (i - 1)], q[i])
                /\ Stacked(Joined(a, q)) = h[Len(a) + Len(q)]
  <1>1. PICK n \in Nat, m \in Nat : n = Len(a) /\ m = Len(q)
    OBVIOUS
  <1>2. PICK c : c = Joined(a, q)
    OBVIOUS
  <1>3. c \in Seq(S) /\ Len(c) = n + m
    BY <1>1, <1>2, ConcatProperties DEF Joined
  <1>4. \A i \in 1..(n + m) : c[i] = IF i <= n THEN a[i] ELSE q[i - n]
    BY <1>1, <1>2, ConcatProperties DEF Joined
  <1>5. PICK h : h[0] = <<>> /\ StackRun(h, c) /\ Stacked(c) = h[Len(c)]
    BY <1>3, StackDefined
  <1>6. \A i \in 1..(n + m) : h[i] = Push(h[i - 1], c[i])
    BY <1>3, <1>5 DEF StackRun
  <1>7. PICK f : f[0] = <<>> /\ StackRun(f, a) /\ Stacked(a) = f[n]
    BY <1>1, StackDefined
  <1> DEFINE T == {i \in 0..n : h[i] = f[i]}
  <1>8. 0 \in T
    BY <1>5, <1>7
  <1>9. ASSUME NEW i \in 1..n, i - 1 \in T PROVE i \in T
    <2>1. i \in 1..(n + m) /\ i \in 0..n /\ i <= n
      OBVIOUS
    <2>2. h[i] = Push(h[i - 1], a[i])
      BY <2>1, <1>4, <1>6
    <2>3. f[i] = Push(f[i - 1], a[i])
      BY <1>1, <1>7 DEF StackRun
    <2> QED
      BY <2>1, <2>2, <2>3, <1>9
  <1> HIDE DEF T
  <1>10. \A i \in 0..n : i \in T
    BY <1>8, <1>9, UpTo_n
  <1>11. h[n] = Stacked(a)
    <2>1. n \in 0..n
      OBVIOUS
    <2> QED
      BY <1>7, <1>10, <2>1 DEF T
  <1>12. ASSUME NEW i \in 1..m PROVE h[n + i] = Push(h[n + (i - 1)], q[i])
    <2>1. n + i \in 1..(n + m) /\ ~(n + i <= n) /\ (n + i) - n = i /\ (n + i) - 1 = n + (i - 1)
      OBVIOUS
    <2> QED
      BY <2>1, <1>4, <1>6
  <1> QED
    BY <1>1, <1>2, <1>3, <1>5, <1>11, <1>12

\* What a front part leaves behind is all that matters for the rest of the path.
LEMMA StackOfConcat ==
  ASSUME NEW S, NEW p \in Seq(S), NEW r \in Seq(S), NEW q \in Seq(S), Stacked(p) = Stacked(r)
  PROVE  Stacked(Joined(p, q)) = Stacked(Joined(r, q))
  <1>2. PICK f : /\ f[Len(p)] = Stacked(p)
                 /\ \A i \in 1..Len(q) : f[Len(p) + i] = Push(f[Len(p) + (i - 1)], q[i])
                 /\ Stacked(Joined(p, q)) = f[Len(p) + Len(q)]
    BY StackGoesOn
  <1>3. PICK g : /\ g[Len(r)] = Stacked(r)
                 /\ \A i \in 1..Len(q) : g[Len(r) + i] = Push(g[Len(r) + (i - 1)], q[i])
                 /\ Stacked(Joined(r, q)) = g[Len(r) + Len(q)]
    BY StackGoesOn
  <1>4. PICK n \in Nat, k \in Nat, m \in Nat : n = Len(p) /\ k = Len(r) /\ m = Len(q)
    OBVIOUS
  <1> DEFINE T == {i \in 0..m : f[n + i] = g[k + i]}
  <1>5. 0 \in T
    BY <1>2, <1>3, <1>4
  <1>6. ASSUME NEW i \in 1..m, i - 1 \in T PROVE i \in T
    <2>1. i \in 0..m /\ f[n + (i - 1)] = g[k + (i - 1)]
      BY <1>6
    <2>2. f[n + i] = Push(f[n + (i - 1)], q[i]) /\ g[k + i] = Push(g[k + (i - 1)], q[i])
      BY <1>2, <1>3, <1>4
    <2> QED
      BY <2>1, <2>2
  <1> HIDE DEF T
  <1>7. \A i \in 0..m : i \in T
    BY <1>5, <1>6, UpTo_n
  <1>8. f[n + m] = g[k + m]
    <2>1. m \in 0..m
      OBVIOUS
    <2> QED
      BY <2>1, <1>7 DEF T
  <1> QED
    BY <1>2, <1>3, <1>4, <1>8

\* A normalised path stands for the stack it was printed from.
LEMMA StackOfPrinted ==
  ASSUME NEW S, NEW stack \in Seq(S \ Special)
  PROVE  Stacked(Printed(stack)) = stack
  <1>1. CASE stack = <<>>
    <2>1. Printed(stack) = Root
      BY <1>1 DEF Printed
    <2>2. Root \in Seq({Empty}) /\ Len(Root) = 1 /\ Root[1] = Empty
      BY DEF Root
    <2>3. PICK f : f[0] = <<>> /\ StackRun(f, Root) /\ Stacked(Root) = f[Len(Root)]
      BY <2>2, StackDefined
    <2>4. 1 \in 1..Len(Root) /\ 1 - 1 = 0
      BY <2>2
    <2>5. f[1] = Push(f[1 - 1], Root[1])
      BY <2>3, <2>4 DEF StackRun
    <2>6. f[1] = Push(<<>>, Empty)
      BY <2>2, <2>3, <2>4, <2>5
    <2> QED
      BY <1>1, <2>1, <2>2, <2>3, <2>6 DEF Push
  <1>2. CASE stack # <<>>
    <2>1. Printed(stack) = stack
      BY <1>2 DEF Printed
    <2> QED
      BY <2>1, StackOfNames
  <1> QED
    BY <1>1, <1>2

\* Without dots a path normalises to its names.
LEMMA StackOfDotless ==
  ASSUME NEW S, NEW p \in Seq(S), \A i \in 1..Len(p) : p[i] \notin {Dot, DotDot}
  PROVE  Stacked(p) = Names(p)
  <1>1. PICK n \in Nat : n = Len(p)
    OBVIOUS
  <1>2. PICK f : f[0] = <<>> /\ StackRun(f, p) /\ Stacked(p) = f[n]
    BY <1>1, StackDefined
  <1>3. PICK g : /\ g[0] = <<>>
                 /\ \A i \in 1..n : g[i] = IF p[i] = Empty THEN g[i - 1] ELSE Append(g[i - 1], p[i])
                 /\ Names(p) = g[n]
    BY <1>1, NamesDefined
  <1> DEFINE T == {i \in 0..n : f[i] = g[i]}
  <1>4. 0 \in T
    BY <1>2, <1>3
  <1>5. ASSUME NEW i \in 1..n, i - 1 \in T PROVE i \in T
    <2>1. i \in 0..n /\ f[i - 1] = g[i - 1]
      BY <1>5
    <2>2. f[i] = Push(f[i - 1], p[i]) /\ p[i] \notin {Dot, DotDot}
      BY <1>1, <1>2 DEF StackRun
    <2>3. Push(f[i - 1], p[i]) = IF p[i] = Empty THEN f[i - 1] ELSE Append(f[i - 1], p[i])
      BY <2>2 DEF Push
    <2> QED
      BY <2>1, <2>2, <2>3, <1>3
  <1> HIDE DEF T
  <1>6. \A i \in 0..n : i \in T
    BY <1>4, <1>5, UpTo_n
  <1>7. n \in 0..n
    OBVIOUS
  <1> QED
    BY <1>2, <1>3, <1>6, <1>7 DEF T

\* A front part may be normalised first.
LEMMA NormalizeFront ==
  ASSUME NEW S, NEW p \in Seq(S), NEW q \in Seq(S)
  PROVE  NormalizePath(Joined(NormalizePath(p), q)) = NormalizePath(Joined(p, q))
  <1>1. PICK A : S \subseteq A /\ Empty \in A
    <2>1. S \subseteq S \cup {Empty} /\ Empty \in S \cup {Empty}
      OBVIOUS
    <2> QED
      BY <2>1
  <1>2. p \in Seq(A) /\ q \in Seq(A)
    BY <1>1, SeqMonotonic
  <1>3. PICK stack : stack = Stacked(p)
    OBVIOUS
  <1>4. stack \in Seq(A \ Special) /\ stack \in Seq(A)
    <2>1. stack \in Seq(A \ Special) /\ A \ Special \subseteq A
      BY <1>2, <1>3, StackTyped
    <2> QED
      BY <2>1, SeqMonotonic
  <1>5. Printed(stack) \in Seq(A)
    BY <1>1, <1>4 DEF Printed, Root
  <1>6. Stacked(Printed(stack)) = Stacked(p)
    BY <1>3, <1>4, StackOfPrinted
  <1>7. Stacked(Joined(Printed(stack), q)) = Stacked(Joined(p, q))
    BY <1>2, <1>5, <1>6, StackOfConcat
  <1> QED
    BY <1>3, <1>7 DEF NormalizePath
----------------------------------------------------------------------------
\* What is left of a path below a mountpoint.

LEMMA CutPrefix ==
  ASSUME NEW S, NEW s \in Seq(S), NEW p \in Seq(S), IsPrefix(s, p)
  PROVE  p = Joined(s, Rest(p, s)) /\ Rest(p, s) \in Seq(S)
  <1>1. PICK n \in Nat, m \in Nat : n = Len(s) /\ m = Len(p) /\ n <= m
    BY DEF IsPrefix
  <1>2. s = SubSeq(p, 1, n)
    BY <1>1, SubSeqFull DEF IsPrefix
  <1>3. Rest(p, s) = SubSeq(p, n + 1, m)
    BY <1>1 DEF Rest
  <1>4. SubSeq(p, 1, n) \o SubSeq(p, n + 1, m) = p
    <2>1. SubSeq(p, 1, n) \o SubSeq(p, n + 1, m) = SubSeq(p, 1, m)
      <3>1. 1 \in 1..(Len(p) + 1) /\ n \in (1 - 1)..Len(p) /\ m \in n..Len(p)
        BY <1>1
      <3> QED
        BY <3>1, ConcatAdjacentSubSeq
    <2> QED
      BY <2>1, <1>1, SubSeqFull
  <1>5. SubSeq(p, n + 1, m) \in Seq(S)
    BY <1>1
  <1> QED
    BY <1>2, <1>3, <1>4, <1>5 DEF Joined

\* The names of a path below a mountpoint are the mountpoint's and the rest's.
LEMMA NamesOfRest ==
  ASSUME NEW S, NEW s \in Seq(S), NEW p \in Seq(S), IsPrefix(s, p)
  PROVE  Names(p) = Joined(Names(s), Names(Rest(p, s)))
  <1>1. PICK r \in Seq(S) : r = Rest(p, s) /\ p = Joined(s, r)
    BY CutPrefix
  <1>2. Names(s \o r) = Names(s) \o Names(r)
    BY NamesOfConcat
  <1> QED
    BY <1>1, <1>2 DEF Joined

\* A walk goes by names, whatever mountpoint is cut off.
LEMMA WalkTyped ==
  ASSUME NEW S, NEW p \in Seq(S), NEW mp, Len(mp) \in Nat
  PROVE  WalkNames(p, mp) \in Seq(S)
  <1>1. PICK n \in Nat, m \in Nat : n = Len(p) /\ m = Len(mp)
    OBVIOUS
  <1>2. SubSeq(p, m + 1, n) \in Seq(S)
    <2>1. m + 1 \in Int /\ n \in Int /\ \A i \in (m + 1)..n : p[i] \in S
      BY <1>1
    <2> QED
      BY <2>1, SubSeqProperties
  <1>3. Rest(p, mp) \in Seq(S)
    BY <1>1, <1>2 DEF Rest
  <1>4. Names(p) \in Seq(S) /\ Names(Rest(p, mp)) \in Seq(S)
    BY <1>3, NamesTyped
  <1> QED
    BY <1>4 DEF WalkNames

\* Slashes in front are skipped, and nothing else.
LEMMA SlashesCut ==
  ASSUME NEW S, NEW r \in Seq(S)
  PROVE  \E k \in 1..(Len(r) + 1) :
           /\ SkipSlashes(r) = SubSeq(r, k, Len(r))
           /\ \A i \in 1..(k - 1) : r[i] = Empty
           /\ k <= Len(r) => r[k] # Empty
  <1>1. PICK n \in Nat : n = Len(r)
    OBVIOUS
  <1>2. PICK t : t = Append(r, Dot)
    OBVIOUS
  <1>3. /\ Len(t) = n + 1 /\ t[n + 1] = Dot
        /\ \A i \in 1..n : t[i] = r[i]
    <2>1. PICK A : S \subseteq A /\ Dot \in A
      <3>1. S \subseteq S \cup {Dot} /\ Dot \in S \cup {Dot}
        OBVIOUS
      <3> QED
        BY <3>1
    <2>2. r \in Seq(A)
      BY <2>1, SeqMonotonic
    <2> QED
      BY <1>1, <1>2, <2>1, <2>2, AppendProperties
  <1> DEFINE I == {i \in 1..(n + 1) : t[i] # Empty}
  <1>4. PICK k \in I : \A j \in I : k <= j
    <2>1. n + 1 \in I
      BY <1>3, SpecialSegments
    <2>2. I \in SUBSET Nat
      OBVIOUS
    <2> HIDE DEF I
    <2> QED
      BY <2>1, <2>2, LeastNatural
  <1>5. SelectInSeq(t, LAMBDA seg : seg # Empty) = k
    <2>1. SelectInSeq(t, LAMBDA seg : seg # Empty) =
            IF I # {} THEN CHOOSE x \in I : \A y \in I : x <= y ELSE 0
      BY <1>3 DEF SelectInSeq, Min
    <2>2. \A x \in I : (\A y \in I : x <= y) => x = k
      BY <1>4
    <2> HIDE DEF I
    <2> QED
      BY <2>1, <2>2, <1>4
  <1>6. SkipSlashes(r) = SubSeq(r, k, n)
    BY <1>1, <1>2, <1>5 DEF SkipSlashes
  <1>7. k \in 1..(n + 1)
    BY <1>4
  <1>8. \A i \in 1..(k - 1) : r[i] = Empty
    <2> SUFFICES ASSUME NEW i \in 1..(k - 1), r[i] # Empty PROVE FALSE
      OBVIOUS
    <2>1. i \in 1..n /\ i \in 1..(n + 1) /\ ~(k <= i)
      BY <1>7
    <2> QED
      BY <2>1, <1>3, <1>4
  <1>9. k <= n => r[k] # Empty
    BY <1>3, <1>4, <1>7
  <1> QED
    BY <1>1, <1>6, <1>7, <1>8, <1>9

LEMMA SlashesSkipped ==
  ASSUME NEW S, NEW r \in Seq(S)
  PROVE  /\ SkipSlashes(r) \in Seq(S)
         /\ Names(SkipSlashes(r)) = Names(r)
         /\ SkipSlashes(r) # <<>> => SkipSlashes(r)[1] # Empty
  <1>1. PICK n \in Nat : n = Len(r)
    OBVIOUS
  <1>2. PICK k \in 1..(n + 1) :
          /\ SkipSlashes(r) = SubSeq(r, k, n)
          /\ \A i \in 1..(k - 1) : r[i] = Empty
          /\ k <= n => r[k] # Empty
    BY <1>1, SlashesCut
  <1>6. SkipSlashes(r) = SubSeq(r, k, n)
    BY <1>2
  <1>7. k \in 1..(n + 1)
    OBVIOUS
  <1>8. \A i \in 1..(k - 1) : r[i] = Empty
    BY <1>2
  <1>9. PICK a, b : a = SubSeq(r, 1, k - 1) /\ b = SubSeq(r, k, n)
    OBVIOUS
  <1>10. a \in Seq(S) /\ b \in Seq(S)
    BY <1>1, <1>7, <1>9
  <1>11. r = a \o b
    <2>1. PICK h : h = k - 1 /\ h + 1 = k /\ h \in 0..n
      BY <1>7
    <2>2. SubSeq(r, 1, h) \o SubSeq(r, h + 1, n) = SubSeq(r, 1, n)
      <3>1. 1 \in 1..(Len(r) + 1) /\ h \in (1 - 1)..Len(r) /\ n \in h..Len(r)
        BY <1>1, <2>1
      <3> QED
        BY <3>1, ConcatAdjacentSubSeq
    <2> QED
      BY <2>1, <2>2, <1>1, <1>9, SubSeqFull
  <1>12. a \in Seq({Empty})
    <2>1. \A i \in 1..(k - 1) : r[i] \in {Empty}
      BY <1>8
    <2> QED
      BY <2>1, <1>7, <1>9, SubSeqProperties
  <1>13. Names(a) = <<>>
    <2>1. Names(a) \in Seq({Empty} \ {Empty})
      BY <1>12, NamesTyped
    <2>2. PICK s : s = Names(a)
      OBVIOUS
    <2>3. s \in Seq({})
      BY <2>1, <2>2
    <2>4. s = <<>>
      BY <2>3
    <2> QED
      BY <2>2, <2>4
  <1>14. Names(r) = Names(b)
    <2>1. Names(a \o b) = Names(a) \o Names(b)
      BY <1>10, NamesOfConcat
    <2>2. Names(b) \in Seq(S)
      BY <1>10, NamesTyped
    <2>3. <<>> \o Names(b) = Names(b)
      BY <2>2, ConcatEmptySeq
    <2> QED
      BY <2>1, <2>3, <1>11, <1>13
  <1>15. b # <<>> => b[1] # Empty
    <2> SUFFICES ASSUME b # <<>> PROVE b[1] # Empty
      OBVIOUS
    <2>1. k <= n
      BY <1>7, <1>9, SubSeqEmpty
    <2>2. b[1] = r[k]
      BY <2>1, <1>1, <1>7, <1>9
    <2>3. r[k] # Empty
      BY <2>1, <1>2
    <2> QED
      BY <2>2, <2>3
  <1> QED
    BY <1>6, <1>9, <1>10, <1>14, <1>15
----------------------------------------------------------------------------
\* Both ways below a mountpoint.

\* A normalised path is "/" or made of names.
LEMMA NormalForm ==
  ASSUME NEW S, NEW p \in Seq(S)
  PROVE  LET norm == NormalizePath(p)
         IN  /\ norm \in Seq(S \cup {Empty})
             /\ Names(norm) = Stacked(p)
             /\ norm # Root => norm \in Seq(S \ Special) /\ norm = Stacked(p)
             /\ norm = Root => Stacked(p) = <<>>
             /\ norm # <<>>
  <1>1. PICK stack : stack = Stacked(p) /\ stack \in Seq(S \ Special)
    BY StackTyped
  <1>2. CASE stack = <<>>
    <2>1. NormalizePath(p) = Root
      BY <1>1, <1>2 DEF NormalizePath, Printed
    <2>2. Root \in Seq(S \cup {Empty}) /\ Root # <<>>
      BY DEF Root
    <2> QED
      BY <1>1, <1>2, <2>1, <2>2, NamesOfRoot
  <1>3. CASE stack # <<>>
    <2>1. NormalizePath(p) = stack
      BY <1>1, <1>3 DEF NormalizePath, Printed
    <2>2. \A i \in 1..Len(stack) : stack[i] # Empty
      BY <1>1, ElementOfSeq, SpecialSegments
    <2>3. Names(stack) = stack
      BY <1>1, <2>2, NamesOfNames
    <2>4. stack \in Seq(S \cup {Empty})
      <3>1. S \ Special \subseteq S \cup {Empty}
        OBVIOUS
      <3> QED
        BY <1>1, <3>1, SeqMonotonic
    <2>5. stack # Root
      <3>1. Len(stack) \in Nat \ {0}
        BY <1>1, <1>3
      <3>2. stack[1] # Empty
        BY <2>2, <3>1
      <3> QED
        BY <3>2 DEF Root
    <2> QED
      BY <1>1, <1>3, <2>1, <2>3, <2>4, <2>5
  <1> QED
    BY <1>2, <1>3

\* The names of the mountpoint and those walked below it are the path's.
LEMMA WalkReaches ==
  ASSUME NEW S, NEW p \in Seq(S), NEW mp \in Seq(S), mp # <<>>,
         mp = Root \/ IsPrefix(mp, NormalizePath(p))
  PROVE  /\ WalkNames(NormalizePath(p), mp) \in Seq(S)
         /\ Joined(Names(mp), WalkNames(NormalizePath(p), mp)) = Names(NormalizePath(p))
  <1> DEFINE norm == NormalizePath(p)
  <1>1. PICK n : n = norm
    OBVIOUS
  <1>2. /\ n \in Seq(S \cup {Empty}) /\ Names(n) = Stacked(p)
        /\ n # Root => n \in Seq(S \ Special) /\ n = Stacked(p)
        /\ n = Root => Stacked(p) = <<>>
    BY <1>1, NormalForm
  <1>3. Names(mp) \in Seq(S) /\ <<>> \in Seq(S)
    <2>1. Names(mp) \in Seq(S)
      BY NamesTyped
    <2> QED
      BY <2>1, EmptySeq
  <1>4. CASE n = Root
    <2>1. mp = Root
      <3> SUFFICES ASSUME IsPrefix(mp, n) PROVE mp = Root
        BY <1>1
      <3>1. Len(mp) \in Nat \ {0} /\ Len(n) = 1 /\ n[1] = Empty
        BY <1>4 DEF Root
      <3>2. Len(mp) <= Len(n) /\ SubSeq(mp, 1, Len(mp)) = SubSeq(n, 1, Len(mp))
        BY DEF IsPrefix
      <3>3. Len(mp) = 1
        <4>1. PICK k : k = Len(mp)
          OBVIOUS
        <4>2. k \in Nat \ {0} /\ k <= 1
          BY <3>1, <3>2, <4>1
        <4>3. k = 1
          BY <4>2
        <4> QED
          BY <4>1, <4>3
      <3>4. mp = SubSeq(n, 1, 1) /\ n = SubSeq(n, 1, 1)
        BY <1>2, <3>1, <3>2, <3>3, SubSeqFull
      <3> QED
        BY <1>4, <3>4
    <2>2. WalkNames(n, mp) = <<>>
      BY <1>4 DEF WalkNames
    <2>3. Joined(Names(mp), <<>>) = Names(mp)
      BY <1>3, ConcatEmptySeq DEF Joined
    <2> QED
      BY <1>1, <1>3, <1>4, <2>1, <2>2, <2>3
  <1>5. CASE n # Root /\ mp = Root
    <2>1. n # mp /\ WalkNames(n, mp) = Names(n)
      BY <1>5 DEF WalkNames
    <2>2. Names(mp) = <<>>
      BY <1>5, NamesOfRoot
    <2>3. Names(n) \in Seq(S)
      <3>1. S \ Special \subseteq S
        OBVIOUS
      <3> QED
        BY <1>2, <1>5, <3>1, SeqMonotonic
    <2>4. Joined(<<>>, Names(n)) = Names(n)
      BY <2>3, ConcatEmptySeq DEF Joined
    <2> QED
      BY <1>1, <2>1, <2>2, <2>3, <2>4
  <1>6. CASE n # Root /\ mp # Root /\ n = mp
    <2>1. WalkNames(n, mp) = <<>>
      BY <1>6 DEF WalkNames
    <2>2. Joined(Names(mp), <<>>) = Names(mp)
      BY <1>3, ConcatEmptySeq DEF Joined
    <2> QED
      BY <1>1, <1>3, <1>6, <2>1, <2>2
  <1>7. CASE n # Root /\ mp # Root /\ n # mp
    <2>1. WalkNames(n, mp) = Names(Rest(n, mp))
      BY <1>7 DEF WalkNames
    <2>2. n \in Seq(S)
      <3>1. S \ Special \subseteq S
        OBVIOUS
      <3> QED
        BY <1>2, <1>7, <3>1, SeqMonotonic
    <2>3. IsPrefix(mp, n)
      BY <1>1, <1>7
    <2>4. Names(n) = Joined(Names(mp), Names(Rest(n, mp)))
      BY <2>2, <2>3, NamesOfRest
    <2>5. Names(Rest(n, mp)) \in Seq(S)
      BY <2>2, <2>3, CutPrefix, NamesTyped
    <2> QED
      BY <1>1, <2>1, <2>4, <2>5
  <1> QED
    BY <1>4, <1>5, <1>6, <1>7
\* A path that does not begin with a slash has a name.
LEMMA FirstName ==
  ASSUME NEW S, NEW p \in Seq(S), p # <<>>, p[1] # Empty
  PROVE  Names(p) # <<>>
  <1>1. PICK n \in Nat \ {0} : n = Len(p)
    BY EmptySeq
  <1>2. PICK a, b : a = SubSeq(p, 1, 1) /\ b = SubSeq(p, 2, n)
    OBVIOUS
  <1>3. a \in Seq(S) /\ b \in Seq(S) /\ Len(a) = 1 /\ a[1] = p[1]
    BY <1>1, <1>2
  <1>4. p = a \o b
    <2>1. SubSeq(p, 1, 1) \o SubSeq(p, 1 + 1, n) = SubSeq(p, 1, n)
      <3>1. 1 \in 1..(Len(p) + 1) /\ 1 \in (1 - 1)..Len(p) /\ n \in 1..Len(p)
        BY <1>1
      <3> QED
        BY <3>1, ConcatAdjacentSubSeq
    <2>2. 1 + 1 = 2
      OBVIOUS
    <2> QED
      BY <2>1, <2>2, <1>1, <1>2, SubSeqFull
  <1>5. Names(a) = a
    BY <1>3, NamesOfNames
  <1>6. Names(a \o b) = Names(a) \o Names(b)
    BY <1>3, NamesOfConcat
  <1>7. Names(b) \in Seq(S)
    BY <1>3, NamesTyped
  <1>8. a \o Names(b) # <<>>
    <2>1. a # <<>>
      <3>1. Len(a) = 1
        BY <1>3
      <3> QED
        BY <3>1
    <2> QED
      BY <2>1, <1>3, <1>7, ConcatEqualIffEmpty
  <1> QED
    BY <1>4, <1>5, <1>6, <1>8

\* A mountpoint above a normalised path other than "/" is made of names.
LEMMA MountpointNames ==
  ASSUME NEW S, NEW p \in Seq(S), NEW mp \in Seq(S), mp # <<>>, mp # Root,
         IsPrefix(mp, NormalizePath(p))
  PROVE  /\ NormalizePath(p) # Root
         /\ Names(mp) = mp
  <1>1. PICK n : n = NormalizePath(p)
    OBVIOUS
  <1>2. /\ n \in Seq(S \cup {Empty})
        /\ n # Root => n \in Seq(S \ Special)
    BY <1>1, NormalForm
  <1>3. PICK k \in Nat \ {0} : k = Len(mp)
    BY EmptySeq
  <1>4. k <= Len(n) /\ mp = SubSeq(n, 1, k) /\ \A i \in 1..k : mp[i] = n[i]
    <2>1. k <= Len(n) /\ mp = SubSeq(n, 1, k)
      BY <1>1, <1>3, SubSeqFull DEF IsPrefix
    <2>2. \A i \in 1..k : SubSeq(n, 1, k)[i] = n[i]
      BY <1>2, <1>3, <2>1
    <2> QED
      BY <2>1, <2>2
  <1>5. n # Root
    <2> SUFFICES ASSUME n = Root PROVE FALSE
      OBVIOUS
    <2>1. Len(n) = 1 /\ n[1] = Empty
      BY DEF Root
    <2>2. k = 1
      BY <1>4, <2>1
    <2>3. mp[1] = Empty
      BY <1>4, <2>1, <2>2
    <2>4. mp = <<Empty>>
      <3>1. Len(mp) = 1
        BY <1>3, <2>2
      <3> QED
        BY <3>1, <2>3
    <2> QED
      BY <2>4 DEF Root
  <1>6. \A i \in 1..Len(mp) : mp[i] # Empty
    <2> SUFFICES ASSUME NEW i \in 1..k PROVE mp[i] # Empty
      BY <1>3
    <2>1. i \in 1..Len(n)
      BY <1>2, <1>4
    <2>2. n[i] \notin Special
      BY <1>2, <1>5, <2>1, ElementOfSeq
    <2> QED
      BY <1>4, <2>2, SpecialSegments
  <1> QED
    BY <1>1, <1>5, <1>6, NamesOfNames

\* For a path without dots the backend is asked for the names that are walked.
LEMMA BackendAgrees ==
  ASSUME NEW S, NEW p \in Seq(S), p # <<>>, \A i \in 1..Len(p) : p[i] \notin {Dot, DotDot},
         NEW mp \in Seq(S), mp # <<>>,
         mp = Root \/ (IsPrefix(mp, p) /\ IsPrefix(mp, NormalizePath(p)))
  PROVE  LET rel == GetRelpath(p, mp)
         IN  /\ IsAbsolute(rel) <=> mp = Root /\ p[1] = Empty
             /\ ~IsAbsolute(rel) => Names(rel) = OrDot(WalkNames(NormalizePath(p), mp))
  <1>1. PICK n, rel : n = NormalizePath(p) /\ rel = GetRelpath(p, mp)
    OBVIOUS
  <1>2. /\ n \in Seq(S \cup {Empty}) /\ Names(n) = Stacked(p)
        /\ n # Root => n \in Seq(S \ Special) /\ n = Stacked(p)
        /\ n = Root => Stacked(p) = <<>>
    BY <1>1, NormalForm
  <1>3. Stacked(p) = Names(p)
    BY StackOfDotless
  <1>4. Len(p) \in Nat \ {0} /\ p = SubSeq(p, 1, Len(p))
    BY EmptySeq, SubSeqFull
  <1>5. CASE mp = Root /\ p = Root
    <2>1. rel = <<Empty, Empty>> /\ p[1] = Empty
      BY <1>1, <1>5 DEF GetRelpath, Root
    <2>2. IsAbsolute(rel)
      BY <2>1 DEF IsAbsolute
    <2> QED
      BY <1>1, <1>5, <2>1, <2>2
  <1>6. CASE mp = Root /\ p # Root
    <2>1. rel = p
      BY <1>1, <1>6 DEF GetRelpath
    <2>2. IsAbsolute(rel) <=> p[1] = Empty
      <3>1. p[1] = Empty => Len(p) > 1
        <4> SUFFICES ASSUME p[1] = Empty, Len(p) = 1 PROVE FALSE
          BY <1>4
        <4>1. p = <<Empty>>
          BY <1>4
        <4> QED
          BY <4>1, <1>6 DEF Root
      <3> QED
        BY <2>1, <3>1 DEF IsAbsolute
    <2>3. ASSUME p[1] # Empty PROVE Names(rel) = OrDot(WalkNames(n, mp))
      <3>1. Names(p) # <<>>
        BY <2>3, FirstName
      <3>2. n # Root
        BY <3>1, <1>2, <1>3
      <3>3. WalkNames(n, mp) = Names(p)
        BY <3>2, <1>2, <1>3, <1>6 DEF WalkNames
      <3> QED
        BY <3>1, <3>3, <2>1 DEF OrDot
    <2> QED
      BY <1>1, <1>6, <2>2, <2>3
  <1>7. CASE mp # Root
    <2>1. IsPrefix(mp, p) /\ IsPrefix(mp, n)
      BY <1>1, <1>7
    <2>2. n # Root /\ Names(mp) = mp
      BY <1>1, <1>7, <2>1, MountpointNames
    <2>3. PICK r \in Seq(S) : r = Rest(p, mp) /\ Names(p) = Joined(mp, Names(r))
      BY <2>1, <2>2, CutPrefix, NamesOfRest
    <2>4. n \in Seq(S) /\ n = Names(p)
      <3>1. S \ Special \subseteq S
        OBVIOUS
      <3> QED
        BY <1>2, <1>3, <2>2, <3>1, SeqMonotonic
    <2>5. PICK t \in Seq(S) : t = Rest(n, mp) /\ n = Joined(mp, t)
      BY <2>1, <2>4, CutPrefix
    <2>6. PICK names \in Seq(S) : names = Names(r) /\ \A i \in 1..Len(names) : names[i] # Empty
      <3>1. Names(r) \in Seq(S \ {Empty}) /\ Names(r) \in Seq(S)
        BY NamesTyped
      <3>2. \A i \in 1..Len(Names(r)) : Names(r)[i] # Empty
        BY <3>1, ElementOfSeq
      <3> QED
        BY <3>1, <3>2
    <2>7. t = names
      <3>1. mp \o t = mp \o names
        BY <2>3, <2>4, <2>5, <2>6 DEF Joined
      <3> QED
        BY <3>1, ConcatSimplifications
    <2>8. WalkNames(n, mp) = names
      <3>1. CASE n = mp
        <4>1. WalkNames(n, mp) = <<>>
          BY <3>1 DEF WalkNames
        <4>2. mp \o t = mp
          BY <3>1, <2>5 DEF Joined
        <4>3. t = <<>>
          BY <4>2, ConcatEqualIffEmpty
        <4> QED
          BY <4>1, <4>3, <2>7
      <3>2. CASE n # mp
        <4>1. WalkNames(n, mp) = Names(t)
          BY <3>2, <1>7, <2>2, <2>5 DEF WalkNames
        <4>2. Names(names) = names
          BY <2>6, NamesOfNames
        <4> QED
          BY <4>1, <4>2, <2>7
      <3> QED
        BY <3>1, <3>2
    <2>9. PICK skipped \in Seq(S) :
            /\ skipped = SkipSlashes(r) /\ Names(skipped) = names
            /\ skipped # <<>> => skipped[1] # Empty
      BY <2>6, SlashesSkipped
    <2>10. rel = OrDot(skipped)
      BY <1>1, <1>7, <2>3, <2>9 DEF GetRelpath
    <2>11. CASE skipped = <<>>
      <3>1. rel = <<Dot>>
        BY <2>10, <2>11 DEF OrDot
      <3>2. ~IsAbsolute(rel)
        BY <3>1 DEF IsAbsolute
      <3>3. names = <<>>
        <4>1. <<>> \in Seq(S) /\ \A i \in 1..Len(<<>>) : <<>>[i] # Empty
          OBVIOUS
        <4>2. skipped = <<>> /\ \A i \in 1..Len(skipped) : skipped[i] # Empty
          BY <4>1, <2>11
        <4>3. Names(skipped) = skipped
          BY <4>2, NamesOfNames
        <4> QED
          BY <4>2, <4>3, <2>9
      <3>4. Names(rel) = rel
        <4>1. PICK one : one = <<Dot>>
          OBVIOUS
        <4>2. one \in Seq({Dot}) /\ \A i \in 1..Len(one) : one[i] # Empty
          BY <4>1, SpecialSegments
        <4>3. Names(one) = one
          BY <4>2, NamesOfNames
        <4> QED
          BY <3>1, <4>1, <4>3
      <3> QED
        BY <1>1, <1>7, <2>8, <3>1, <3>2, <3>3, <3>4 DEF OrDot
    <2>12. CASE skipped # <<>>
      <3>1. rel = skipped
        BY <2>10, <2>12 DEF OrDot
      <3>2. ~IsAbsolute(rel)
        BY <3>1, <2>9, <2>12 DEF IsAbsolute
      <3>3. names # <<>>
        BY <2>9, <2>12, FirstName
      <3> QED
        BY <1>1, <1>7, <2>8, <2>9, <3>1, <3>2, <3>3 DEF OrDot
    <2> QED
      BY <2>11, <2>12
  <1> QED
    BY <1>5, <1>6, <1>7
----------------------------------------------------------------------------
\* Paths below a mountpoint that is made of names.

\* Without ".." behind the mountpoint they stay below it.
LEMMA StaysBelow ==
  ASSUME NEW S, NEW mp \in Seq(S \ Special), mp # <<>>, NEW q \in Seq(S),
         \A i \in 1..Len(q) : q[i] # DotDot
  PROVE  IsPrefix(mp, NormalizePath(Joined(mp, q)))
  <1>1. PICK n \in Nat \ {0}, m \in Nat : n = Len(mp) /\ m = Len(q)
    BY EmptySeq
  <1>2. mp \in Seq(S)
    BY SeqMonotonic
  <1>3. PICK h : /\ h[n] = mp
                 /\ \A i \in 1..m : h[n + i] = Push(h[n + (i - 1)], q[i])
                 /\ Stacked(Joined(mp, q)) = h[n + m]
    <2>1. Stacked(mp) = mp
      BY StackOfNames
    <2>2. PICK h : /\ h[Len(mp)] = Stacked(mp)
                   /\ \A i \in 1..Len(q) : h[Len(mp) + i] = Push(h[Len(mp) + (i - 1)], q[i])
                   /\ Stacked(Joined(mp, q)) = h[Len(mp) + Len(q)]
      BY <1>2, StackGoesOn
    <2> QED
      BY <1>1, <2>1, <2>2
  <1> DEFINE Below(stack) == stack \in Seq(S) /\ n <= Len(stack) /\ \A j \in 1..n : stack[j] = mp[j]
             T == {i \in 0..m : Below(h[n + i])}
  <1>4. 0 \in T
    BY <1>1, <1>2, <1>3
  <1>5. ASSUME NEW stack, Below(stack), NEW seg \in S, seg # DotDot
        PROVE  Below(Push(stack, seg))
    <2>1. CASE seg \in {Empty, Dot}
      BY <1>5, <2>1 DEF Push
    <2>2. CASE seg \notin {Empty, Dot}
      <3>1. Push(stack, seg) = Append(stack, seg)
        BY <1>5, <2>2 DEF Push
      <3>2. PICK k \in Nat : k = Len(stack) /\ n <= k
        BY <1>5
      <3>3. PICK new : new = Append(stack, seg)
        OBVIOUS
      <3>4. new \in Seq(S) /\ Len(new) = k + 1 /\ \A j \in 1..k : new[j] = stack[j]
        BY <1>5, <3>2, <3>3, AppendProperties
      <3>5. n <= Len(new) /\ \A j \in 1..n : new[j] = mp[j]
        BY <1>5, <3>2, <3>4
      <3> QED
        BY <3>1, <3>3, <3>4, <3>5
    <2> QED
      BY <2>1, <2>2
  <1>6. ASSUME NEW i \in 1..m, i - 1 \in T PROVE i \in T
    <2>1. q[i] \in S /\ q[i] # DotDot
      BY <1>1
    <2>2. h[n + i] = Push(h[n + (i - 1)], q[i]) /\ Below(h[n + (i - 1)]) /\ i \in 0..m
      BY <1>3, <1>6
    <2> HIDE DEF Below
    <2> QED
      BY <1>5, <2>1, <2>2
  <1> HIDE DEF T
  <1>7. \A i \in 0..m : i \in T
    BY <1>4, <1>6, UpTo_n
  <1>8. PICK stack : stack = Stacked(Joined(mp, q)) /\ Below(stack)
    <2>1. m \in 0..m
      OBVIOUS
    <2> QED
      BY <1>3, <1>7, <2>1 DEF T
  <1>9. stack # <<>> /\ NormalizePath(Joined(mp, q)) = stack
    <2>1. stack # <<>>
      BY <1>8
    <2> QED
      BY <1>8, <2>1 DEF NormalizePath, Printed
  <1>10. IsPrefix(mp, stack)
    <2>1. SubSeq(stack, 1, n) = mp
      <3>1. /\ SubSeq(stack, 1, n) \in Seq(S) /\ Len(SubSeq(stack, 1, n)) = n
            /\ \A j \in 1..n : SubSeq(stack, 1, n)[j] = stack[j]
        BY <1>8
      <3>2. PICK front : front = SubSeq(stack, 1, n)
        OBVIOUS
      <3>3. \A j \in 1..n : front[j] = mp[j]
        BY <1>8, <3>1, <3>2
      <3> QED
        BY <1>1, <1>2, <3>1, <3>2, <3>3, SeqEqual
    <2>2. SubSeq(mp, 1, n) = mp
      BY <1>1, <1>2, SubSeqFull
    <2> QED
      BY <1>1, <1>8, <2>1, <2>2 DEF IsPrefix
  <1> QED
    BY <1>9, <1>10

\* A relative path that names a file directly below the root, with no more than slashes
\* and "." before it.
NamesOne(rel) ==
  rel[Len(rel)] \notin Special /\ \A i \in 1..(Len(rel) - 1) : rel[i] \in {Empty, Dot}

\* A path that names a file for the backend is walked below the backend's mountpoint.
LEMMA FileStaysBelow ==
  ASSUME NEW S, NEW p \in Seq(S), NEW mp \in Seq(S \ Special), mp # <<>>, mp # Root, IsPrefix(mp, p),
         NamesOne(GetRelpath(p, mp))
  PROVE  IsPrefix(mp, NormalizePath(p))
  <1>1. mp \in Seq(S)
    BY SeqMonotonic
  <1>2. PICK q \in Seq(S) : q = Rest(p, mp) /\ p = Joined(mp, q)
    BY <1>1, CutPrefix
  <1>3. PICK m \in Nat : m = Len(q)
    OBVIOUS
  <1>4. PICK k \in 1..(m + 1) :
          SkipSlashes(q) = SubSeq(q, k, m) /\ \A i \in 1..(k - 1) : q[i] = Empty
    BY <1>3, SlashesCut
  <1>5. PICK rel : rel = GetRelpath(p, mp) /\ rel = OrDot(SubSeq(q, k, m))
    BY <1>2, <1>4 DEF GetRelpath
  <1>6. k <= m
    <2> SUFFICES ASSUME ~(k <= m) PROVE FALSE
      OBVIOUS
    <2>1. SubSeq(q, k, m) = <<>>
      BY <1>3, SubSeqEmpty
    <2>2. rel = <<Dot>>
      BY <1>5, <2>1 DEF OrDot
    <2>3. rel[Len(rel)] = Dot
      BY <2>2
    <2> QED
      BY <1>5, <2>3, SpecialSegments DEF NamesOne
  <1>7. rel = SubSeq(q, k, m) /\ Len(rel) = m - k + 1 /\ \A i \in 1..(m - k + 1) : rel[i] = q[k + i - 1]
    <2>1. PICK b : b = SubSeq(q, k, m)
      OBVIOUS
    <2>2. Len(b) = m - k + 1 /\ \A i \in 1..(m - k + 1) : b[i] = q[k + i - 1]
      BY <1>3, <1>6, <2>1
    <2>3. b # <<>>
      BY <1>6, <2>2
    <2> QED
      BY <1>5, <2>1, <2>2, <2>3 DEF OrDot
  <1>8. ASSUME NEW i \in 1..m PROVE q[i] # DotDot
    <2>1. CASE i < k
      <3>1. q[i] = Empty
        BY <1>4, <2>1
      <3> QED
        BY <3>1, SpecialSegments
    <2>2. CASE ~(i < k)
      <3>1. i - k + 1 \in 1..(m - k + 1) /\ k + (i - k + 1) - 1 = i
        BY <1>6, <2>2
      <3>2. rel[i - k + 1] = q[i]
        BY <1>7, <3>1
      <3>3. rel[i - k + 1] \in {Empty, Dot} \/ rel[i - k + 1] \notin Special
        <4>1. PICK j, l : j = i - k + 1 /\ l = m - k + 1 /\ l \in Nat /\ j \in 1..l
          BY <1>6, <3>1
        <4>2. Len(rel) = l
          BY <1>7, <4>1
        <4>3. j = l \/ j \in 1..(l - 1)
          BY <4>1
        <4>4. rel[j] \in {Empty, Dot} \/ rel[j] \notin Special
          BY <1>5, <4>2, <4>3 DEF NamesOne
        <4> QED
          BY <4>1, <4>4
      <3> QED
        BY <3>2, <3>3, SpecialSegments
    <2> QED
      BY <2>1, <2>2
  <1> QED
    BY <1>2, <1>3, <1>8, StaysBelow
=============================================================================
