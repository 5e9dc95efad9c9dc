------------------------ MODULE WorkingSetCacheProofs ------------------------
(***************************************************************************)
(* What WorkingSetCache promises for every set of blocks, capacity and     *)
(* window: the size is exact and held to the capacity, phase 2 has one     *)
(* coldest entry to take, evictions follow the policy, and the cache is a  *)
(* ForgetfulMap.                                                           *)
(***************************************************************************)
EXTENDS WorkingSetCache, FiniteSetTheorems, WellFoundedInduction, TLAPS

Entries == [data : Data \cup {Nothing}, last : Nat, ref : Nat]

\* A set of naturals that is not empty has a least element.
LEMMA LeastNatural ==
  ASSUME NEW T \in SUBSET Nat, T # {}
  PROVE  \E x \in T : \A y \in T : x <= y
<1> DEFINE Less == {p \in Nat \X Nat : p[1] < p[2]}
<1>1. Less = OpToRel(<, Nat)
  BY DEF OpToRel
<1>2. IsWellFoundedOn(Less, Nat)
  BY <1>1, NatLessThanWellFounded
<1> HIDE DEF Less
<1>3. PICK x \in T : \A y \in T : <<y, x>> \notin Less
  BY <1>2, WFMin
<1>4. ASSUME NEW y \in T
      PROVE  x <= y
  <2>1. x \in Nat /\ y \in Nat
    OBVIOUS
  <2>2. <<y, x>> \notin {p \in Nat \X Nat : p[1] < p[2]}
    BY <1>3 DEF Less
  <2> QED BY <2>1, <2>2
<1> QED BY <1>4

\* Buckets are naturals.
LEMMA BucketType ==
  ASSUME NEW b \in Ids
  PROVE  Bucket(b) \in Nat
BY CacheAssumption DEF Bucket

\* What a full cache sweeps: every entry of the first bucket that holds a stale one, if
\* there is one, and so nothing only if nothing is stale.
LEMMA SweepOfFull ==
  ASSUME TypeOK, size = Capacity, NEW time
  PROVE  /\ Sweep(time) = {b \in Stale(time) : \A c \in Stale(time) : Bucket(c) >= Bucket(b)}
         /\ Stale(time) # {} => Sweep(time) # {}
<1> DEFINE Lower(b) == {c \in Stale(time) : Bucket(c) < Bucket(b)}
<1>1. /\ IsFiniteSet(Stale(time))
      /\ \A b \in Stale(time) : Bucket(b) \in Nat
  <2>1. Stale(time) \in SUBSET DOMAIN entry /\ IsFiniteSet(DOMAIN entry) /\ DOMAIN entry \subseteq Ids
    BY DEF Stale, TypeOK
  <2> QED BY <2>1, FS_Subset, BucketType
<1>2. ASSUME NEW b \in Stale(time)
      PROVE  size - Cardinality(Lower(b)) >= Capacity <=> Lower(b) = {}
  <2>1. IsFiniteSet(Lower(b))
    <3>1. Lower(b) \in SUBSET Stale(time)
      OBVIOUS
    <3> HIDE DEF Lower
    <3> QED BY <1>1, <3>1, FS_Subset
  <2> HIDE DEF Lower
  <2>2. Cardinality(Lower(b)) \in Nat /\ (Cardinality(Lower(b)) = 0 <=> Lower(b) = {})
    BY <2>1, FS_CardinalityType, FS_EmptySet
  <2> QED BY <2>2, CacheAssumption
<1>3. Sweep(time) = {b \in Stale(time) : Lower(b) = {}}
  BY <1>2 DEF Sweep
<1>4. ASSUME NEW b \in Stale(time)
      PROVE  Lower(b) = {} <=> \A c \in Stale(time) : Bucket(c) >= Bucket(b)
  <2>1. \A c \in Stale(time) : ~(Bucket(c) < Bucket(b)) <=> Bucket(c) >= Bucket(b)
    BY <1>1
  <2> QED BY <2>1
<1>5. Sweep(time) = {b \in Stale(time) : \A c \in Stale(time) : Bucket(c) >= Bucket(b)}
  <2> HIDE DEF Lower
  <2> QED BY <1>3, <1>4
<1>6. ASSUME Stale(time) # {}
      PROVE  Sweep(time) # {}
  <2>1. {Bucket(b) : b \in Stale(time)} \in SUBSET Nat /\ {Bucket(b) : b \in Stale(time)} # {}
    BY <1>1, <1>6
  <2>2. PICK x \in {Bucket(b) : b \in Stale(time)} :
          \A y \in {Bucket(b) : b \in Stale(time)} : x <= y
    BY <2>1, LeastNatural
  <2>3. PICK b \in Stale(time) : x = Bucket(b)
    BY <2>2
  <2>4. \A c \in Stale(time) : Bucket(c) >= Bucket(b)
    BY <2>2, <2>3, <1>1
  <2> QED BY <2>4, <1>5
<1> QED BY <1>5, <1>6

\* Numbers of the entries.
LEMMA EntryNumbers ==
  ASSUME TypeOK, NEW b \in DOMAIN entry
  PROVE  /\ b \in Ids /\ now \in Nat
         /\ entry[b].last \in Nat /\ entry[b].ref \in Nat
         /\ 1 <= entry[b].last /\ entry[b].last <= now
         /\ 1 <= entry[b].ref /\ entry[b].ref <= now
         /\ entry[b].data \in Data \cup {Nothing}
<1>1. entry[b] \in [data : Data \cup {Nothing}, last : 1..now, ref : 1..now]
  BY DEF TypeOK
<1>2. now \in Nat /\ b \in Ids
  BY DEF TypeOK
<1> QED BY <1>1, <1>2

\* Stale entries are those outside the working set.
LEMMA StaleIsOld ==
  ASSUME TypeOK, NEW time \in Nat
  PROVE  Stale(time) = {b \in DOMAIN entry : Old(b, time)}
<1>1. ASSUME NEW b \in DOMAIN entry
      PROVE  ~InWorkingSet(b, time) <=> Old(b, time)
  BY EntryNumbers, CacheAssumption DEF InWorkingSet, Old
<1> QED BY <1>1 DEF Stale

\* An eviction leaves the size exact and room for an entry, and follows the policy; it
\* takes something only from a full cache.
LEMMA EvictionEffect ==
  ASSUME TypeOK, SizeExact, NEW gone \in Evictions(now + 1)
  PROVE  /\ gone \subseteq DOMAIN entry
         /\ IsFiniteSet(DOMAIN entry \ gone)
         /\ SizeAfter(gone) = Cardinality(DOMAIN entry \ gone)
         /\ SizeAfter(gone) \in Nat /\ SizeAfter(gone) < Capacity
         /\ size < Capacity => gone = {}
         /\ ByPolicy(gone, now + 1)
<1> DEFINE time == now + 1
<1>1. /\ time \in Nat /\ size \in Nat /\ Capacity \in Nat /\ size <= Capacity
      /\ size = Cardinality(DOMAIN entry) /\ IsFiniteSet(DOMAIN entry)
  BY CacheAssumption DEF TypeOK, SizeExact
<1> HIDE DEF time
<1>2. ASSUME NEW S \in SUBSET DOMAIN entry
      PROVE  /\ IsFiniteSet(DOMAIN entry \ S) /\ IsFiniteSet(S)
             /\ SizeAfter(S) = Cardinality(DOMAIN entry \ S)
             /\ SizeAfter(S) \in Nat
             /\ Cardinality(S) \in Nat /\ (Cardinality(S) = 0 <=> S = {})
  <2>1. IsFiniteSet(S) /\ IsFiniteSet(DOMAIN entry \ S)
    BY <1>1, FS_Subset
  <2>2. Cardinality(DOMAIN entry \ S) = Cardinality(DOMAIN entry) - Cardinality(DOMAIN entry \cap S)
    BY <1>1, FS_Difference
  <2>3. DOMAIN entry \cap S = S
    OBVIOUS
  <2>4. Cardinality(S) \in Nat /\ Cardinality(DOMAIN entry \ S) \in Nat
        /\ (Cardinality(S) = 0 <=> S = {})
    BY <2>1, FS_CardinalityType, FS_EmptySet
  <2> QED BY <1>1, <2>1, <2>2, <2>3, <2>4 DEF SizeAfter
<1>3. Sweep(time) \subseteq DOMAIN entry
  BY DEF Sweep, Stale
<1>4. CASE size < Capacity
  <2>1. gone = {}
    BY <1>4 DEF Evictions
  <2>2. SizeAfter(gone) = size
    BY <1>1, <2>1, FS_EmptySet DEF SizeAfter
  <2>3. ByPolicy(gone, now + 1)
    BY <2>1 DEF ByPolicy
  <2> QED BY <1>2, <1>4, <2>1, <2>2, <2>3
<1>5. CASE ~(size < Capacity)
  <2>1. size = Capacity
    BY <1>1, <1>5
  <2>2. /\ Sweep(time) = {b \in Stale(time) : \A c \in Stale(time) : Bucket(c) >= Bucket(b)}
        /\ Stale(time) # {} => Sweep(time) # {}
    BY <2>1, SweepOfFull
  <2>3. Stale(time) = {b \in DOMAIN entry : Old(b, time)}
    BY <1>1, StaleIsOld
  <2>4. CASE SizeAfter(Sweep(time)) < Capacity
    <3>1. gone = Sweep(time)
      BY <1>5, <2>4 DEF Evictions, time
    <3>2. \A b \in gone : /\ Old(b, time)
                         /\ \A c \in DOMAIN entry : Old(c, time) => Bucket(c) >= Bucket(b)
      BY <2>2, <2>3, <3>1
    <3>3. ByPolicy(gone, now + 1)
      BY <3>2 DEF ByPolicy, time
    <3> QED BY <1>2, <1>3, <1>5, <2>4, <3>1, <3>3
  <2>5. CASE ~(SizeAfter(Sweep(time)) < Capacity)
    <3>1. Sweep(time) = {}
      <4>1. Cardinality(Sweep(time)) \in Nat /\ (Cardinality(Sweep(time)) = 0 <=> Sweep(time) = {})
        BY <1>2, <1>3
      <4>2. Cardinality(Sweep(time)) = 0
        BY <1>1, <2>1, <2>5, <4>1 DEF SizeAfter
      <4> QED BY <4>1, <4>2
    <3>2. PICK b \in DOMAIN entry : /\ gone = {b}
                                   /\ \A c \in DOMAIN entry : UsedLess(b, c)
      BY <1>5, <2>5, <3>1 DEF Evictions, Colder, UsedLess, time
    <3>3. \A c \in DOMAIN entry : ~Old(c, time)
      BY <2>2, <2>3, <3>1
    <3>4. ByPolicy(gone, now + 1)
      BY <3>2, <3>3 DEF ByPolicy, time
    <3>5. SizeAfter(gone) < Capacity
      <4>1. Cardinality(gone) \in Nat /\ Cardinality(gone) # 0
        BY <1>2, <3>2
      <4> QED BY <1>1, <2>1, <4>1 DEF SizeAfter
    <3> QED BY <1>2, <1>5, <3>2, <3>4, <3>5
  <2> QED BY <2>4, <2>5
<1> QED BY <1>4, <1>5

----------------------------------------------------------------------------
\* The inductive invariant.

\* A step that changes no entry but b's, drops any, and stamps b's, if it stamps it, with
\* a time the clock has not had before.
EntryStep(b) ==
  /\ b \in Ids /\ now' \in Nat /\ now <= now'
  /\ DOMAIN entry' \subseteq DOMAIN entry \cup {b}
  /\ entry' = [k \in DOMAIN entry' |-> entry'[k]]
  /\ \A k \in DOMAIN entry' \ {b} : entry'[k] = entry[k]
  /\ b \in DOMAIN entry' =>
       /\ entry'[b] \in [data : Data \cup {Nothing}, last : 1..now', ref : 1..now']
       /\ entry'[b].last > now \/ (b \in DOMAIN entry /\ entry'[b].last = entry[b].last)
       /\ entry'[b].data \in {latest'[b], Nothing}
  /\ latest' \in [Ids -> Data \cup {Nothing}]
  /\ \A k \in Ids \ {b} : latest'[k] = latest[k]

\* Such a step keeps the entries well-typed, their access times apart and their data
\* the latest.
LEMMA EntryStepKeeps ==
  ASSUME TypeOK, AccessTimesDiffer, DataLatest, NEW b, EntryStep(b)
  PROVE  /\ DOMAIN entry' \subseteq Ids /\ IsFiniteSet(DOMAIN entry')
         /\ entry' \in [DOMAIN entry' -> [data : Data \cup {Nothing}, last : 1..now', ref : 1..now']]
         /\ AccessTimesDiffer' /\ DataLatest'
<1>1. DOMAIN entry' \subseteq Ids /\ IsFiniteSet(DOMAIN entry')
  <2>1. IsFiniteSet(DOMAIN entry \cup {b})
    BY FS_AddElement DEF TypeOK
  <2>2. DOMAIN entry' \in SUBSET (DOMAIN entry \cup {b}) /\ DOMAIN entry \subseteq Ids
    BY DEF EntryStep, TypeOK
  <2>3. b \in Ids
    BY DEF EntryStep
  <2> QED BY <2>1, <2>2, <2>3, FS_Subset
<1>2. ASSUME NEW k \in DOMAIN entry'
      PROVE  entry'[k] \in [data : Data \cup {Nothing}, last : 1..now', ref : 1..now']
  <2>1. CASE k = b
    BY <2>1 DEF EntryStep
  <2>2. CASE k # b
    <3>1. k \in DOMAIN entry /\ entry'[k] = entry[k]
      BY <2>2 DEF EntryStep
    <3>2. entry[k] \in [data : Data \cup {Nothing}, last : 1..now, ref : 1..now]
      BY <3>1 DEF TypeOK
    <3>3. now \in Nat /\ now' \in Nat /\ now <= now'
      BY DEF EntryStep, TypeOK
    <3> QED BY <3>1, <3>2, <3>3
  <2> QED BY <2>1, <2>2
<1>3. entry' \in [DOMAIN entry' -> [data : Data \cup {Nothing}, last : 1..now', ref : 1..now']]
  <2>1. entry' = [k \in DOMAIN entry' |-> entry'[k]]
    BY DEF EntryStep
  <2> QED BY <1>2, <2>1
<1>4. AccessTimesDiffer'
  <2>1. ASSUME NEW j \in DOMAIN entry', NEW k \in DOMAIN entry', j # k, k # b
        PROVE  entry'[j].last # entry'[k].last
    <3>1. k \in DOMAIN entry /\ entry'[k] = entry[k]
      BY <2>1 DEF EntryStep
    <3>2. entry[k].last \in Nat /\ entry[k].last <= now
      BY <3>1, EntryNumbers
    <3>3. CASE j # b
      <4>1. j \in DOMAIN entry /\ entry'[j] = entry[j]
        BY <3>3 DEF EntryStep
      <4> QED BY <2>1, <3>1, <4>1 DEF AccessTimesDiffer
    <3>4. CASE j = b
      <4>1. \/ entry'[j].last > now
            \/ j \in DOMAIN entry /\ entry'[j].last = entry[j].last
        BY <3>4 DEF EntryStep
      <4>2. CASE entry'[j].last > now
        <5>1. entry'[j].last \in Nat /\ now \in Nat
          BY <1>2 DEF TypeOK, EntryStep
        <5> QED BY <3>1, <3>2, <4>2, <5>1
      <4>3. CASE j \in DOMAIN entry /\ entry'[j].last = entry[j].last
        BY <2>1, <3>1, <4>3 DEF AccessTimesDiffer
      <4> QED BY <4>1, <4>2, <4>3
    <3> QED BY <3>3, <3>4
  <2> QED BY <2>1 DEF AccessTimesDiffer
<1>5. DataLatest'
  BY <1>1 DEF DataLatest, EntryStep
<1> QED BY <1>1, <1>3, <1>4, <1>5

\* The initial state.
LEMMA InitInv ==
  ASSUME Init
  PROVE  IInv
<1>1. DOMAIN entry = {} /\ size = 0
  BY DEF Init
<1>2. entry = [b \in {} |-> <<>>]
  BY DEF Init
<1>3. entry \in [{} -> [data : Data \cup {Nothing}, last : 1..now, ref : 1..now]]
  BY <1>2
<1>4. TypeOK
  <2>1. /\ up \in BOOLEAN /\ now \in Nat /\ answer = Nothing
        /\ latest = [b \in Ids |-> Nothing]
    BY DEF Init
  <2> QED BY <1>1, <1>3, <2>1, FS_EmptySet DEF TypeOK
<1>5. SizeExact
  BY <1>1, FS_EmptySet, CacheAssumption DEF SizeExact
<1> QED BY <1>1, <1>4, <1>5 DEF IInv, AccessTimesDiffer, DataLatest

\* cache_shutdown.
LEMMA ShutdownInv ==
  ASSUME IInv, CacheShutdown
  PROVE  IInv'
<1>1. DOMAIN entry' = {} /\ size' = 0
  BY DEF CacheShutdown
<1>2. entry' = [b \in {} |-> <<>>]
  BY DEF CacheShutdown
<1>3. entry' \in [{} -> [data : Data \cup {Nothing}, last : 1..now, ref : 1..now]]
  BY <1>2
<1>4. TypeOK'
  <2>1. up' \in BOOLEAN /\ now' = now /\ answer' = answer /\ latest' = latest
    BY DEF CacheShutdown
  <2> QED BY <1>1, <1>3, <2>1, FS_EmptySet DEF TypeOK, IInv
<1>5. SizeExact'
  BY <1>1, FS_EmptySet, CacheAssumption DEF SizeExact
<1> QED BY <1>1, <1>4, <1>5 DEF IInv, AccessTimesDiffer, DataLatest

\* A step that touches the entry of a block that is present, or only takes its data.
LEMMA TouchEffect ==
  ASSUME IInv, NEW b \in DOMAIN entry, NEW d \in Data \cup {Nothing},
         latest' \in [Ids -> Data \cup {Nothing}],
         \A k \in Ids \ {b} : latest'[k] = latest[k],
         d \in {latest'[b], Nothing},
         \/ now' = now + 1 /\ entry' = [entry EXCEPT ![b] = Touch(@, d, now + 1)]
         \/ now' = now /\ entry' = [entry EXCEPT ![b].data = Nothing]
  PROVE  EntryStep(b) /\ DOMAIN entry' = DOMAIN entry
<1> USE DEF IInv
<1>1. /\ b \in Ids /\ now \in Nat
      /\ entry[b].last \in Nat /\ entry[b].ref \in Nat
      /\ 1 <= entry[b].last /\ entry[b].last <= now
      /\ 1 <= entry[b].ref /\ entry[b].ref <= now
  BY EntryNumbers
<1>2. CASE now' = now + 1 /\ entry' = [entry EXCEPT ![b] = Touch(@, d, now + 1)]
  <2>1. entry'[b] = [data |-> d, last |-> now + 1, ref |-> entry[b].ref + 1]
    BY <1>2 DEF Touch
  <2>2. entry'[b] \in [data : Data \cup {Nothing}, last : 1..now', ref : 1..now']
    BY <1>1, <1>2, <2>1
  <2>3. DOMAIN entry' = DOMAIN entry /\ \A k \in DOMAIN entry \ {b} : entry'[k] = entry[k]
    BY <1>2
  <2>4. entry' = [k \in DOMAIN entry' |-> entry'[k]]
    BY <1>2
  <2>5. entry'[b].last > now /\ entry'[b].data = d
    BY <1>1, <2>1
  <2> QED BY <1>1, <1>2, <2>2, <2>3, <2>4, <2>5 DEF EntryStep
<1>3. CASE now' = now /\ entry' = [entry EXCEPT ![b].data = Nothing]
  <2>1. entry[b] \in [data : Data \cup {Nothing}, last : 1..now, ref : 1..now]
    BY DEF TypeOK
  <2>2. entry'[b] = [entry[b] EXCEPT !.data = Nothing]
    BY <1>3
  <2>3. /\ entry'[b] \in [data : Data \cup {Nothing}, last : 1..now', ref : 1..now']
        /\ entry'[b].last = entry[b].last /\ entry'[b].data = Nothing
    BY <1>3, <2>1, <2>2
  <2>4. DOMAIN entry' = DOMAIN entry /\ \A k \in DOMAIN entry \ {b} : entry'[k] = entry[k]
    BY <1>3
  <2>5. entry' = [k \in DOMAIN entry' |-> entry'[k]]
    BY <1>3
  <2> QED BY <1>1, <1>3, <2>3, <2>4, <2>5 DEF EntryStep
<1> QED BY <1>2, <1>3

\* A step that changes one entry and keeps the blocks that are present.
LEMMA SameBlocksInv ==
  ASSUME IInv, NEW b, EntryStep(b), DOMAIN entry' = DOMAIN entry, size' = size,
         up' = up, answer' \in Data \cup {Nothing}
  PROVE  IInv'
<1>1. TypeOK /\ SizeExact /\ AccessTimesDiffer /\ DataLatest
  BY DEF IInv
<1>2. /\ DOMAIN entry' \subseteq Ids /\ IsFiniteSet(DOMAIN entry')
      /\ entry' \in [DOMAIN entry' -> [data : Data \cup {Nothing}, last : 1..now', ref : 1..now']]
      /\ AccessTimesDiffer' /\ DataLatest'
  BY <1>1, EntryStepKeeps
<1>3. TypeOK'
  BY <1>1, <1>2 DEF TypeOK, EntryStep
<1>4. SizeExact'
  BY <1>1 DEF SizeExact
<1> QED BY <1>2, <1>3, <1>4 DEF IInv

\* cache_lookup.
LEMMA LookupInv ==
  ASSUME IInv, NEW b \in Ids, CacheLookup(b)
  PROVE  IInv'
<1>1. TypeOK /\ SizeExact /\ AccessTimesDiffer /\ DataLatest
  BY DEF IInv
<1>2. CASE b \in DOMAIN entry
  <2>1. /\ now' = now + 1 /\ entry' = [entry EXCEPT ![b] = Touch(@, @.data, now + 1)]
        /\ answer' = entry[b].data /\ up' = up /\ size' = size /\ latest' = latest
    BY <1>2 DEF CacheLookup
  <2>2. entry[b].data \in Data \cup {Nothing} /\ entry[b].data \in {latest[b], Nothing}
    BY <1>1, <1>2, EntryNumbers DEF DataLatest
  <2>3. entry' = [entry EXCEPT ![b] = Touch(@, entry[b].data, now + 1)]
    BY <2>1
  <2>4. latest' \in [Ids -> Data \cup {Nothing}]
    BY <1>1, <2>1 DEF TypeOK
  <2>5. EntryStep(b) /\ DOMAIN entry' = DOMAIN entry
    BY <1>2, <2>1, <2>2, <2>3, <2>4, TouchEffect
  <2> QED BY <2>1, <2>2, <2>5, SameBlocksInv
<1>3. CASE b \notin DOMAIN entry
  <2>1. UNCHANGED <<up, entry, size, now, latest>> /\ answer' = Nothing
    BY <1>3 DEF CacheLookup
  <2> QED BY <1>1, <2>1 DEF IInv, TypeOK, SizeExact, AccessTimesDiffer, DataLatest
<1> QED BY <1>2, <1>3

\* cache_insert of a block that is present.
LEMMA UpdateInv ==
  ASSUME IInv, NEW b \in Ids, NEW d \in Data, Update(b, d)
  PROVE  IInv'
<1>1. TypeOK
  BY DEF IInv
<1>2. /\ b \in DOMAIN entry
      /\ \/ now' = now + 1 /\ entry' = [entry EXCEPT ![b] = Touch(@, d, now + 1)]
         \/ now' = now /\ entry' = [entry EXCEPT ![b].data = Nothing]
      /\ latest' = [latest EXCEPT ![b] = d]
      /\ up' = up /\ size' = size /\ answer' = answer
  BY DEF Update
<1>3. /\ latest' \in [Ids -> Data \cup {Nothing}] /\ latest'[b] = d
      /\ \A k \in Ids \ {b} : latest'[k] = latest[k]
  BY <1>1, <1>2 DEF TypeOK
<1>4. EntryStep(b) /\ DOMAIN entry' = DOMAIN entry
  BY <1>2, <1>3, TouchEffect
<1>5. answer' \in Data \cup {Nothing}
  BY <1>1, <1>2 DEF TypeOK
<1> QED BY <1>2, <1>4, <1>5, SameBlocksInv

\* cache_insert of another block: what goes by the policy goes, and b's entry comes or,
\* without memory, does not.
LEMMA InsertEffect ==
  ASSUME IInv, NEW b \in Ids, NEW d \in Data, Insert(b, d)
  PROVE  \E gone \in Evictions(now + 1) :
           /\ gone \subseteq DOMAIN entry /\ b \notin DOMAIN entry
           /\ size < Capacity => gone = {}
           /\ ByPolicy(gone, now + 1)
           /\ DOMAIN entry' \in {DOMAIN entry \ gone, (DOMAIN entry \ gone) \cup {b}}
           /\ EntryStep(b)
           /\ size' = Cardinality(DOMAIN entry') /\ size' \in Nat /\ size' <= Capacity
<1> USE DEF IInv
<1>1. PICK gone \in Evictions(now + 1) :
        LET kept == Restrict(entry, DOMAIN entry \ gone)
            left == SizeAfter(gone)
            time == IF size < Capacity THEN now ELSE now + 1
        IN  \/ entry' = kept /\ size' = left /\ now' = time
            \/ /\ entry' = [k \in DOMAIN kept \cup {b} |->
                              IF k = b THEN NewEntry(d, time + 1) ELSE kept[k]]
               /\ size' = left + 1 /\ now' = time + 1
  BY DEF Insert
<1>2. /\ b \notin DOMAIN entry /\ latest' = [latest EXCEPT ![b] = d]
      /\ latest \in [Ids -> Data \cup {Nothing}] /\ now \in Nat
  BY DEF Insert, TypeOK
<1>3. /\ gone \subseteq DOMAIN entry
      /\ IsFiniteSet(DOMAIN entry \ gone)
      /\ SizeAfter(gone) = Cardinality(DOMAIN entry \ gone)
      /\ SizeAfter(gone) \in Nat /\ SizeAfter(gone) < Capacity
      /\ size < Capacity => gone = {}
      /\ ByPolicy(gone, now + 1)
  BY EvictionEffect
<1> DEFINE kept == Restrict(entry, DOMAIN entry \ gone)
           time == IF size < Capacity THEN now ELSE now + 1
<1>4. /\ DOMAIN kept = DOMAIN entry \ gone
      /\ kept = [k \in DOMAIN entry \ gone |-> kept[k]]
      /\ \A k \in DOMAIN entry \ gone : kept[k] = entry[k]
  BY DEF Restrict
<1>5. time \in Nat /\ now <= time
  BY <1>2
<1>6. /\ latest' \in [Ids -> Data \cup {Nothing}] /\ latest'[b] = d
      /\ \A k \in Ids \ {b} : latest'[k] = latest[k]
  BY <1>2
<1>7. Capacity \in Nat
  BY CacheAssumption
<1>8. \/ entry' = kept /\ size' = SizeAfter(gone) /\ now' = time
      \/ /\ entry' = [k \in DOMAIN kept \cup {b} |-> IF k = b THEN NewEntry(d, time + 1) ELSE kept[k]]
         /\ size' = SizeAfter(gone) + 1 /\ now' = time + 1
  BY <1>1
<1> HIDE DEF kept, time
<1>9. CASE entry' = kept /\ size' = SizeAfter(gone) /\ now' = time
  <2>1. DOMAIN entry' = DOMAIN entry \ gone
    BY <1>4, <1>9
  <2>2. EntryStep(b)
    BY <1>2, <1>4, <1>5, <1>6, <1>9, <2>1 DEF EntryStep
  <2>3. size' = Cardinality(DOMAIN entry') /\ size' \in Nat /\ size' <= Capacity
    BY <1>3, <1>7, <1>9, <2>1
  <2> QED BY <1>2, <1>3, <2>1, <2>2, <2>3
<1>10. CASE /\ entry' = [k \in DOMAIN kept \cup {b} |-> IF k = b THEN NewEntry(d, time + 1) ELSE kept[k]]
            /\ size' = SizeAfter(gone) + 1 /\ now' = time + 1
  <2>1. /\ DOMAIN entry' = (DOMAIN entry \ gone) \cup {b}
        /\ entry' = [k \in DOMAIN entry' |-> entry'[k]]
        /\ entry'[b] = NewEntry(d, time + 1)
        /\ \A k \in DOMAIN entry' \ {b} : entry'[k] = entry[k]
    BY <1>2, <1>4, <1>10
  <2>2. /\ entry'[b] \in [data : Data \cup {Nothing}, last : 1..now', ref : 1..now']
        /\ entry'[b].last > now /\ entry'[b].data = d
    BY <1>2, <1>5, <1>10, <2>1 DEF NewEntry
  <2>3. now' \in Nat /\ now <= now'
    BY <1>2, <1>5, <1>10
  <2>4. EntryStep(b)
    BY <1>2, <1>6, <2>1, <2>2, <2>3 DEF EntryStep
  <2>5. Cardinality(DOMAIN entry') = Cardinality(DOMAIN entry \ gone) + 1
    BY <1>2, <1>3, <2>1, FS_AddElement
  <2>6. size' = Cardinality(DOMAIN entry') /\ size' \in Nat /\ size' <= Capacity
    BY <1>3, <1>7, <1>10, <2>5
  <2> QED BY <1>2, <1>3, <2>1, <2>4, <2>6
<1> QED BY <1>8, <1>9, <1>10

\* So insertions keep the invariant.
LEMMA InsertInv ==
  ASSUME IInv, NEW b \in Ids, NEW d \in Data, Insert(b, d)
  PROVE  IInv'
<1>1. TypeOK /\ SizeExact /\ AccessTimesDiffer /\ DataLatest
  BY DEF IInv
<1>2. /\ EntryStep(b)
      /\ size' = Cardinality(DOMAIN entry') /\ size' \in Nat /\ size' <= Capacity
  BY InsertEffect
<1>3. /\ DOMAIN entry' \subseteq Ids /\ IsFiniteSet(DOMAIN entry')
      /\ entry' \in [DOMAIN entry' -> [data : Data \cup {Nothing}, last : 1..now', ref : 1..now']]
      /\ AccessTimesDiffer' /\ DataLatest'
  BY <1>1, <1>2, EntryStepKeeps
<1>4. up' = up /\ answer' = answer
  BY DEF Insert
<1>5. TypeOK'
  BY <1>1, <1>2, <1>3, <1>4 DEF TypeOK, EntryStep
<1> QED BY <1>2, <1>3, <1>5 DEF IInv, SizeExact

\* Every step keeps the invariant.
LEMMA NextInv ==
  ASSUME IInv, [Next]_vars
  PROVE  IInv'
<1>1. CASE CacheInit
  BY <1>1 DEF CacheInit, IInv, TypeOK, SizeExact, AccessTimesDiffer, DataLatest
<1>2. CASE CacheShutdown
  BY <1>2, ShutdownInv
<1>3. ASSUME NEW b \in Ids, CacheLookup(b)
      PROVE  IInv'
  BY <1>3, LookupInv
<1>4. ASSUME NEW b \in Ids, NEW d \in Data, Update(b, d)
      PROVE  IInv'
  BY <1>4, UpdateInv
<1>5. ASSUME NEW b \in Ids, NEW d \in Data, Insert(b, d)
      PROVE  IInv'
  BY <1>5, InsertInv
<1>6. CASE UNCHANGED vars
  BY <1>6 DEF vars, IInv, TypeOK, SizeExact, AccessTimesDiffer, DataLatest
<1> QED BY <1>1, <1>2, <1>3, <1>4, <1>5, <1>6 DEF Next

\* The inductive invariant holds throughout.
THEOREM Invariance == Spec => []IInv
<1>1. Init => IInv
  BY InitInv
<1>2. IInv /\ [Next]_vars => IInv'
  BY NextInv
<1> QED BY <1>1, <1>2, PTL DEF Spec

\* Type correctness of the cache: in particular no access is later than the clock.
THEOREM TypeCorrect == Spec => []TypeOK
<1>1. IInv => TypeOK
  BY DEF IInv
<1> QED BY <1>1, Invariance, PTL

\* current_size counts the entries and stays within the capacity, whatever evictions and
\* failing allocations come together.
THEOREM SizeExactAlways == Spec => []SizeExact
<1>1. IInv => SizeExact
  BY DEF IInv
<1> QED BY <1>1, Invariance, PTL

\* Phase 2 of an eviction has one coldest entry: no two were last accessed at one time.
THEOREM AccessTimesDifferAlways == Spec => []AccessTimesDiffer
<1>1. IInv => AccessTimesDiffer
  BY DEF IInv
<1> QED BY <1>1, Invariance, PTL

\* Evictions come from a full cache and take stale entries of the first bucket that has
\* one, or the coldest entry if nothing is stale.
THEOREM EvictionPolicyAlways == Spec => EvictionPolicy
<1> DEFINE Gone == DOMAIN entry \ DOMAIN entry'
           Policy == up' /\ Gone # {} => /\ Cardinality(DOMAIN entry) = Capacity
                                         /\ ByPolicy(Gone, now + 1)
<1>1. ASSUME IInv, [Next]_vars
      PROVE  Policy
  <2>1. CASE CacheInit
    BY <2>1 DEF CacheInit
  <2>2. CASE CacheShutdown
    BY <2>2 DEF CacheShutdown
  <2>3. ASSUME NEW b \in Ids, CacheLookup(b)
        PROVE  Policy
    BY <2>3 DEF CacheLookup
  <2>4. ASSUME NEW b \in Ids, NEW d \in Data, Update(b, d)
        PROVE  Policy
    BY <2>4 DEF Update
  <2>5. ASSUME NEW b \in Ids, NEW d \in Data, Insert(b, d)
        PROVE  Policy
    <3>1. PICK gone \in Evictions(now + 1) :
            /\ gone \subseteq DOMAIN entry /\ b \notin DOMAIN entry
            /\ size < Capacity => gone = {}
            /\ ByPolicy(gone, now + 1)
            /\ DOMAIN entry' \in {DOMAIN entry \ gone, (DOMAIN entry \ gone) \cup {b}}
      BY <1>1, <2>5, InsertEffect
    <3>2. Gone = gone
      BY <3>1
    <3>3. size = Cardinality(DOMAIN entry) /\ size \in Nat /\ size <= Capacity /\ Capacity \in Nat
      BY <1>1, CacheAssumption DEF IInv, SizeExact, TypeOK
    <3>4. Gone # {} => Cardinality(DOMAIN entry) = Capacity
      BY <3>1, <3>2, <3>3
    <3>5. ByPolicy(Gone, now + 1)
      BY <3>1, <3>2
    <3> HIDE DEF Gone
    <3> QED BY <3>4, <3>5
  <2>6. CASE UNCHANGED vars
    BY <2>6 DEF vars
  <2> QED BY <1>1, <2>1, <2>2, <2>3, <2>4, <2>5, <2>6 DEF Next
<1>2. Policy => EvictionStep
  BY DEF EvictionStep
<1> HIDE DEF Policy
<1>3. IInv /\ [Next]_vars => EvictionStep
  BY <1>1, <1>2
<1> QED BY <1>3, Invariance, PTL DEF Spec, EvictionPolicy

\* The cache is a map that forgets.
THEOREM Refinement == Spec => NeverStale
<1>1. Init => Map!Init
  BY DEF Init, Map!Init
<1>2. ASSUME IInv, [Next]_vars
      PROVE  [Map!Next]_(Map!mapVars)
  <2>1. CASE CacheInit
    BY <2>1 DEF CacheInit, Map!mapVars
  <2>2. CASE CacheShutdown
    BY <2>2 DEF CacheShutdown, Map!Next, Map!ForgetAll
  <2>3. ASSUME NEW b \in Ids, CacheLookup(b)
        PROVE  [Map!Next]_(Map!mapVars)
    <3>1. Map!Get(b)
      BY <1>2, <2>3 DEF CacheLookup, Touch, Map!Get, IInv, DataLatest
    <3> QED BY <3>1 DEF Map!Next
  <2>4. ASSUME NEW b \in Ids, NEW d \in Data, Update(b, d)
        PROVE  [Map!Next]_(Map!mapVars)
    <3>1. Map!Put(b, d)
      BY <2>4 DEF Update, Map!Put
    <3> QED BY <3>1 DEF Map!Next
  <2>5. ASSUME NEW b \in Ids, NEW d \in Data, Insert(b, d)
        PROVE  [Map!Next]_(Map!mapVars)
    <3>1. DOMAIN entry' \subseteq DOMAIN entry \cup {b}
          /\ \A k \in DOMAIN entry' \ {b} : entry'[k] = entry[k]
      BY <1>2, <2>5, InsertEffect DEF EntryStep
    <3>2. Map!Put(b, d)
      BY <2>5, <3>1 DEF Insert, Map!Put
    <3> QED BY <3>2 DEF Map!Next
  <2>6. CASE UNCHANGED vars
    BY <2>6 DEF vars, Map!mapVars
  <2> QED BY <1>2, <2>1, <2>2, <2>3, <2>4, <2>5, <2>6 DEF Next
<1> QED BY <1>1, <1>2, Invariance, PTL DEF Spec, NeverStale, Map!Spec
=============================================================================
