--------------------------- MODULE WorkingSetCache ---------------------------
(***************************************************************************)
(* The working-set block cache: src/src/cache/cache.c, working_set.c and   *)
(* the logical clock of src/src/utils/time.c.                              *)
(*                                                                         *)
(* The cache has no lock: a call runs alone, from its first line to its    *)
(* last.  Calls that return at once (no cache, no data, a second           *)
(* cache_init) change nothing and are left out.  malloc may fail.          *)
(***************************************************************************)
EXTENDS Integers, FiniteSets, Functions

CONSTANTS
  Ids,       \* the blocks' ids
  Data,      \* what a block may hold
  Nothing,   \* NULL
  Capacity,  \* the arguments of cache_init
  Tau,
  MaxTime    \* bound: the clock

\* A capacity of 0 has no buckets: cache_init accepts it, and the first call after it
\* divides by zero.
ASSUME CacheAssumption ==
  /\ Ids \subseteq Nat /\ Tau \in Nat /\ MaxTime \in Nat
  /\ Capacity \in Nat \ {0}
  /\ Nothing \notin Data

VARIABLES
  up,      \* g_cache is not NULL
  entry,   \* the hash table: id -> data, last_access_time and ref_count
  size,    \* current_size
  now,     \* global_time
  answer,  \* what the latest cache_lookup returned
  latest   \* history: id -> the data of the latest cache_insert

vars == <<up, entry, size, now, answer, latest>>

Init ==
  /\ up = FALSE /\ entry = <<>> /\ size = 0 /\ now = 0
  /\ answer = Nothing /\ latest = [b \in Ids |-> Nothing]

\* hash_block_id, with the table_size of cache_init.
Bucket(b) == b % (2 * Capacity)

\* Mutant: the clock is read once more than it is stored.
TouchLater(e, d, time) == [data |-> d, last |-> time + 1, ref |-> e.ref + 1]

\* cache_update_access, at the time ws_current_time gives.
Touch(e, d, time) == [data |-> d, last |-> time, ref |-> e.ref + 1]

\* Mutant: the clock is not advanced for a new entry.
NewEntryEarly(d, time) == [data |-> d, last |-> time - 1, ref |-> 1]

\* What cache_insert links, at the time ws_current_time gives.
NewEntry(d, time) == [data |-> d, last |-> time, ref |-> 1]

----------------------------------------------------------------------------
\* cache_evict_if_needed, at the given time.

\* ws_is_in_working_set.
InWorkingSet(b, time) == time - entry[b].last <= Tau

Stale(time) == {b \in DOMAIN entry : ~InWorkingSet(b, time)}

\* Phase 1: bucket by bucket, all that is stale, as long as the cache is full.
Sweep(time) ==
  {b \in Stale(time) :
     size - Cardinality({c \in Stale(time) : Bucket(c) < Bucket(b)}) >= Capacity}

\* Mutant: age alone decides.
ColderByAge(b, c) == entry[b].last <= entry[c].last

\* b goes before c in phase 2.
Colder(b, c) ==
  \/ entry[b].ref < entry[c].ref
  \/ entry[b].ref = entry[c].ref /\ entry[b].last <= entry[c].last

\* Mutant: current_size goes down once per eviction.
SizeAfterOne(gone) == IF gone = {} THEN size ELSE size - 1

\* current_size goes down with every entry that is freed.
SizeAfter(gone) == size - Cardinality(gone)

\* What an insertion may evict; in phase 2, the coldest of what the sweep has left.
Evictions(time) ==
  IF size < Capacity THEN {{}}
  ELSE IF SizeAfter(Sweep(time)) < Capacity THEN {Sweep(time)}
  ELSE {Sweep(time) \cup {b} :
          b \in {k \in DOMAIN entry \ Sweep(time) :
                   \A c \in DOMAIN entry \ Sweep(time) : Colder(k, c)}}

----------------------------------------------------------------------------
\* The calls.

\* cache_init; both of its allocations succeed, or nothing changes.
CacheInit == up = FALSE /\ up' = TRUE /\ UNCHANGED <<entry, size, now, answer, latest>>

CacheShutdown ==
  /\ up /\ up' = FALSE
  /\ entry' = <<>> /\ size' = 0
  /\ UNCHANGED <<now, answer, latest>>

\* cache_lookup: a hit is an access, even of an entry that has lost its data.
CacheLookup(b) ==
  /\ up
  /\ \/ /\ b \in DOMAIN entry /\ now < MaxTime
        /\ now' = now + 1
        /\ entry' = [entry EXCEPT ![b] = Touch(@, @.data, now + 1)]
        /\ answer' = entry[b].data
     \/ /\ b \notin DOMAIN entry
        /\ answer' = Nothing /\ UNCHANGED <<entry, now>>
  /\ UNCHANGED <<up, size, latest>>

\* Mutant: the old data are kept if there is no memory for the new.
UpdateOrKeep(b, d) ==
  /\ up /\ b \in DOMAIN entry /\ now < MaxTime
  /\ \/ now' = now + 1 /\ entry' = [entry EXCEPT ![b] = Touch(@, d, now + 1)]
     \/ UNCHANGED <<now, entry>>
  /\ latest' = [latest EXCEPT ![b] = d]
  /\ UNCHANGED <<up, size, answer>>

\* cache_insert of a block that is present. Its old data are freed first; if there is no
\* memory for the new, the entry stays without data.
Update(b, d) ==
  /\ up /\ b \in DOMAIN entry /\ now < MaxTime
  /\ \/ now' = now + 1 /\ entry' = [entry EXCEPT ![b] = Touch(@, d, now + 1)]
     \/ UNCHANGED now /\ entry' = [entry EXCEPT ![b].data = Nothing]
  /\ latest' = [latest EXCEPT ![b] = d]
  /\ UNCHANGED <<up, size, answer>>

\* cache_insert of another block: the eviction stands even if there is no memory for the
\* new entry. The clock ticks for an eviction and for an entry.
Insert(b, d) ==
  /\ up /\ b \notin DOMAIN entry /\ now + 2 <= MaxTime
  /\ \E gone \in Evictions(now + 1) :
       LET kept == Restrict(entry, DOMAIN entry \ gone)
           left == SizeAfter(gone)
           time == IF size < Capacity THEN now ELSE now + 1
       IN  \/ entry' = kept /\ size' = left /\ now' = time
           \/ /\ entry' = [k \in DOMAIN kept \cup {b} |->
                             IF k = b THEN NewEntry(d, time + 1) ELSE kept[k]]
              /\ size' = left + 1 /\ now' = time + 1
  /\ latest' = [latest EXCEPT ![b] = d]
  /\ UNCHANGED <<up, answer>>

Next ==
  \/ CacheInit \/ CacheShutdown
  \/ \E b \in Ids : \/ CacheLookup(b)
                    \/ \E d \in Data : Update(b, d) \/ Insert(b, d)

Spec == Init /\ [][Next]_vars

----------------------------------------------------------------------------
\* Properties.

\* The type invariant. An access is never later than the clock, so that the unsigned
\* age of ws_is_in_working_set does not wrap.
TypeOK ==
  /\ up \in BOOLEAN /\ size \in Nat /\ now \in Nat
  /\ answer \in Data \cup {Nothing} /\ latest \in [Ids -> Data \cup {Nothing}]
  /\ DOMAIN entry \subseteq Ids /\ IsFiniteSet(DOMAIN entry)
  /\ entry \in [DOMAIN entry -> [data : Data \cup {Nothing}, last : 1..now, ref : 1..now]]

\* current_size is the number of entries, through sweeps that take several of a bucket,
\* evictions whose insertion then fails and updates that fail; and it is never more
\* than the capacity.
SizeExact == size = Cardinality(DOMAIN entry) /\ size <= Capacity

\* Two entries never have the same access time, so that phase 2 has one coldest entry,
\* wherever it starts to look.
AccessTimesDiffer ==
  \A b, c \in DOMAIN entry : b # c => entry[b].last # entry[c].last

\* An entry holds the latest data inserted for its block, or has lost them.
DataLatest == \A b \in DOMAIN entry : entry[b].data \in {latest[b], Nothing}

\* The inductive invariant.
IInv == TypeOK /\ SizeExact /\ AccessTimesDiffer /\ DataLatest

\* An entry has left the working set.
Old(b, time) == time - entry[b].last > Tau

\* b has no more references than c and, if as many, no later access.
UsedLess(b, c) ==
  \/ entry[b].ref < entry[c].ref
  \/ entry[b].ref = entry[c].ref /\ entry[b].last <= entry[c].last

\* The entries that go have all left the working set, and no entry of a lower bucket has;
\* or no entry has left it, and the one that goes was used the least.
ByPolicy(gone, time) ==
  \/ \A b \in gone : /\ Old(b, time)
                    /\ \A c \in DOMAIN entry : Old(c, time) => Bucket(c) >= Bucket(b)
  \/ \E b \in gone :
       /\ gone = {b}
       /\ \A c \in DOMAIN entry : ~Old(c, time) /\ UsedLess(b, c)

\* Insertions evict by the policy, and only from a full cache.
EvictionStep ==
  up' /\ DOMAIN entry \ DOMAIN entry' # {} =>
    /\ Cardinality(DOMAIN entry) = Capacity
    /\ ByPolicy(DOMAIN entry \ DOMAIN entry', now + 1)

EvictionPolicy == [][EvictionStep]_vars

\* The cache is a map that forgets: it never answers with anything but the latest data
\* inserted, whatever was evicted or could not be allocated since.
Map == INSTANCE ForgetfulMap
         WITH known <- {b \in DOMAIN entry : entry[b].data # Nothing}
NeverStale == Map!Spec
=============================================================================
