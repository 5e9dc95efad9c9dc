---------------------------- MODULE VfsCoreProofs ----------------------------
(***************************************************************************)
(* Proofs about VfsCore, for any paths, mountpoints and table sizes.       *)
(***************************************************************************)
EXTENDS VfsCore, VfsPathsProofs, FiniteSetTheorems

----------------------------------------------------------------------------
\* Orphans and their handles.

LEMMA LowestIsLeast ==
  ASSUME NEW n \in Nat, NEW T, T \subseteq 1..n, T # {}
  PROVE  Lowest(T) \in T
  <1>1. T \in SUBSET Nat
    OBVIOUS
  <1>2. \E x \in T : \A y \in T : x <= y
    BY <1>1, LeastNatural
  <1> QED
    BY <1>2 DEF Lowest

\* A handle for a new dentry is in a slot that was free, or there is none.
LEMMA SlotTaken ==
  ASSUME DOMAIN fhs \subseteq Slots, NEW dentry, FhAlloc(dentry)
  PROVE  \/ FreeSlots = {} /\ fhs' = fhs
         \/ /\ FreeSlots # {}
            /\ \E s \in Slots \ DOMAIN fhs :
                 /\ DOMAIN fhs' = DOMAIN fhs \cup {s} /\ fhs'[s] = dentry
                 /\ \A r \in DOMAIN fhs : fhs'[r] = fhs[r]
  <1>1. CASE FreeSlots = {}
    BY <1>1 DEF FhAlloc
  <1>2. CASE FreeSlots # {}
    <2>1. PICK s \in Slots \ DOMAIN fhs : s = Lowest(FreeSlots)
      BY <1>2, LowestIsLeast, BoundsAssumption DEF FreeSlots, Slots
    <2>2. fhs' = With(fhs, s, dentry)
      BY <1>2, <2>1 DEF FhAlloc
    <2>3. /\ DOMAIN fhs' = DOMAIN fhs \cup {s} /\ fhs'[s] = dentry
          /\ \A r \in DOMAIN fhs : fhs'[r] = fhs[r]
      BY <2>1, <2>2 DEF With
    <2> QED
      BY <1>2, <2>3
  <1> QED
    BY <1>1, <1>2

LEMMA OpenCreatKeeps ==
  ASSUME KeepersInv, NEW path, NEW flags, OpenCreat(path, flags)
  PROVE  KeepersInv'
  <1>1. PICK o \in OrphanIds \ DOMAIN orphans : o = NewOrphan
    BY LowestIsLeast, BoundsAssumption DEF OpenCreat, NewOrphan, OrphanIds
  <1>2. DOMAIN orphans' = DOMAIN orphans \cup {o}
    BY <1>1 DEF OpenCreat, With
  <1>3. CASE FreeSlots = {} /\ fhs' = fhs /\ lost' = lost \cup {o}
    BY <1>1, <1>2, <1>3 DEF KeepersInv
  <1>4. CASE FreeSlots # {} /\ lost' = lost
    <2>1. PICK s \in Slots \ DOMAIN fhs :
            /\ DOMAIN fhs' = DOMAIN fhs \cup {s} /\ fhs'[s] = <<"orphan", o>>
            /\ \A r \in DOMAIN fhs : fhs'[r] = fhs[r]
      BY <1>1, <1>4, SlotTaken DEF OpenCreat, KeepersInv
    <2>2. /\ DOMAIN orphans' \subseteq OrphanIds /\ DOMAIN fhs' \subseteq Slots
          /\ lost' \subseteq DOMAIN orphans' /\ o \notin lost'
      BY <1>1, <1>2, <1>4, <2>1 DEF KeepersInv
    <2>3. \A r \in DOMAIN fhs : fhs[r] # <<"orphan", o>>
      BY <1>1 DEF KeepersInv
    <2>4. \A r \in DOMAIN fhs' :
            \/ fhs'[r][1] = "tree"
            \/ fhs'[r] = <<"orphan", fhs'[r][2]>> /\ fhs'[r][2] \in DOMAIN orphans' \ lost'
      BY <1>2, <1>4, <2>1, <2>2 DEF KeepersInv
    <2>5. \A q, r \in DOMAIN fhs' : fhs'[q] = fhs'[r] /\ fhs'[q][1] = "orphan" => q = r
      BY <2>1, <2>3 DEF KeepersInv
    <2>6. \A p \in DOMAIN orphans' \ lost' : \E r \in DOMAIN fhs' : fhs'[r] = <<"orphan", p>>
      BY <1>2, <1>4, <2>1 DEF KeepersInv
    <2> QED
      BY <2>2, <2>4, <2>5, <2>6 DEF KeepersInv
  <1>5. FreeSlots = {} \/ FreeSlots # {}
    OBVIOUS
  <1> QED
    BY <1>1, <1>3, <1>4 DEF OpenCreat, FhAlloc

LEMMA OpenTreeKeeps ==
  ASSUME KeepersInv, NEW path, NEW flags, OpenTree(path, flags)
  PROVE  KeepersInv'
  <1>1. UNCHANGED <<orphans, lost>>
    BY DEF OpenTree
  <1>2. CASE UNCHANGED fhs
    BY <1>1, <1>2 DEF KeepersInv
  <1>3. ASSUME NEW dentry, dentry[1] = "tree", FhAlloc(dentry)
        PROVE  KeepersInv'
    <2>1. CASE fhs' = fhs
      BY <2>1, <1>1 DEF KeepersInv
    <2>2. ASSUME NEW s \in Slots \ DOMAIN fhs,
                 DOMAIN fhs' = DOMAIN fhs \cup {s}, fhs'[s] = dentry,
                 \A r \in DOMAIN fhs : fhs'[r] = fhs[r]
          PROVE  KeepersInv'
      <3>1. \A q, r \in DOMAIN fhs' : fhs'[q] = fhs'[r] /\ fhs'[q][1] = "orphan" => q = r
        BY <1>3, <2>2 DEF KeepersInv
      <3> QED
        BY <1>1, <1>3, <2>2, <3>1 DEF KeepersInv
    <2> QED
      BY <1>3, <2>1, <2>2, SlotTaken DEF KeepersInv
  <1>4. \A id, names : <<"tree", id, names>>[1] = "tree"
    OBVIOUS
  <1> QED
    BY <1>2, <1>3, <1>4 DEF OpenTree

LEMMA CloseKeeps ==
  ASSUME KeepersInv, NEW s \in Slots, Close(s)
  PROVE  KeepersInv'
  <1>1. /\ s \in DOMAIN fhs /\ lost' = lost
        /\ DOMAIN fhs' = DOMAIN fhs \ {s} /\ \A r \in DOMAIN fhs' : fhs'[r] = fhs[r]
    BY DEF Close, Restrict
  <1>2. \A o \in DOMAIN orphans' : o \in DOMAIN orphans
    BY DEF Close, Restrict
  <1>3. \A o \in DOMAIN orphans : o \in DOMAIN orphans' <=> fhs[s] # <<"orphan", o>>
    BY DEF Close, Restrict, KeepersInv
  <1>4. lost' \subseteq DOMAIN orphans'
    <2> SUFFICES ASSUME NEW o \in lost PROVE fhs[s] # <<"orphan", o>>
      BY <1>1, <1>3 DEF KeepersInv
    <2> QED
      BY <1>1 DEF KeepersInv
  <1>5. ASSUME NEW r \in DOMAIN fhs', fhs'[r][1] # "tree"
        PROVE  fhs'[r] = <<"orphan", fhs'[r][2]>> /\ fhs'[r][2] \in DOMAIN orphans' \ lost'
    <2>1. fhs[r] = <<"orphan", fhs[r][2]>> /\ fhs[r][2] \in DOMAIN orphans \ lost
      BY <1>1, <1>5 DEF KeepersInv
    <2>2. fhs[s] # fhs[r]
      BY <1>1, <2>1 DEF KeepersInv
    <2> QED
      BY <1>1, <1>3, <2>1, <2>2
  <1>6. \A q, r \in DOMAIN fhs' : fhs'[q] = fhs'[r] /\ fhs'[q][1] = "orphan" => q = r
    BY <1>1 DEF KeepersInv
  <1>7. \A o \in DOMAIN orphans' \ lost' : \E r \in DOMAIN fhs' : fhs'[r] = <<"orphan", o>>
    BY <1>1, <1>2, <1>3 DEF KeepersInv
  <1>8. DOMAIN orphans' \subseteq OrphanIds /\ DOMAIN fhs' \subseteq Slots
    BY <1>1, <1>2 DEF KeepersInv
  <1> QED
    BY <1>4, <1>5, <1>6, <1>7, <1>8 DEF KeepersInv

LEMMA ShutdownKeeps ==
  ASSUME KeepersInv, Shutdown
  PROVE  KeepersInv'
  <1>1. DOMAIN orphans' = lost /\ lost' = lost /\ DOMAIN fhs' = {}
    BY DEF Shutdown, Restrict
  <1> QED
    BY <1>1 DEF KeepersInv

LEMMA WriteKeeps ==
  ASSUME KeepersInv, NEW s \in Slots, NEW end, Write(s, end)
  PROVE  KeepersInv'
  <1>1. DOMAIN orphans' = DOMAIN orphans /\ UNCHANGED <<fhs, lost>>
    BY DEF Write
  <1> QED
    BY <1>1 DEF KeepersInv

\* Every orphan has its one handle, until it is closed, whatever calls follow each other.
LEMMA KeepersInvariance ==
  Spec => []KeepersInv
  <1>1. Init => KeepersInv
    BY DEF Init, KeepersInv
  <1>2. KeepersInv /\ [Next]_vars => KeepersInv'
    <2> SUFFICES ASSUME KeepersInv, [Next]_vars PROVE KeepersInv'
      OBVIOUS
    <2>1. CASE UNCHANGED <<orphans, fhs, lost>>
      BY <2>1 DEF KeepersInv
    <2>2. CASE Shutdown
      BY <2>2, ShutdownKeeps
    <2>3. ASSUME NEW path \in Paths, NEW flags \in Flags, Open(path, flags) PROVE KeepersInv'
      BY <2>3, OpenCreatKeeps, OpenTreeKeeps DEF Open
    <2>4. ASSUME NEW s \in Slots, Close(s) PROVE KeepersInv'
      BY <2>4, CloseKeeps
    <2>5. ASSUME NEW s \in Slots, NEW end \in 1..MaxSize, Write(s, end) PROVE KeepersInv'
      BY <2>5, WriteKeeps
    <2>6. CASE \/ VfsInit
               \/ \E mp \in Mountpoints, posix \in BOOLEAN : Mount(mp, posix)
               \/ \E mp \in Mountpoints : Unmount(mp)
               \/ \E path \in Paths : Resolve(path) \/ Stat(path) \/ Readdir(path)
               \/ \E s \in Slots : ReadsFreed(s)
      BY <2>1, <2>6 DEF VfsInit, Mount, Unmount, Resolve, Stat, Readdir, ReadsFreed
    <2> QED
      BY <2>1, <2>2, <2>3, <2>4, <2>5, <2>6 DEF Next, vars
  <1> QED
    BY <1>1, <1>2, PTL DEF Spec

\* Every dentry without a parent is kept by exactly one handle, or was dropped by an open
\* that found the table full.
THEOREM OrphansOwnedAlways ==
  Spec => []OrphansOwned
  <1>1. ASSUME KeepersInv PROVE OrphansOwned
    <2> SUFFICES ASSUME NEW o \in DOMAIN orphans
                 PROVE  Cardinality({s \in DOMAIN fhs : fhs[s] = <<"orphan", o>>}) =
                          IF o \in lost THEN 0 ELSE 1
      BY DEF OrphansOwned
    <2>1. CASE o \in lost
      <3>1. {s \in DOMAIN fhs : fhs[s] = <<"orphan", o>>} = {}
        BY <1>1, <2>1 DEF KeepersInv
      <3> QED
        BY <2>1, <3>1, FS_EmptySet
    <2>2. CASE o \notin lost
      <3>1. PICK s \in DOMAIN fhs : fhs[s] = <<"orphan", o>>
        BY <1>1, <2>2 DEF KeepersInv
      <3>2. \A r \in DOMAIN fhs : fhs[r] = <<"orphan", o>> => r = s
        BY <1>1, <3>1 DEF KeepersInv
      <3>3. {r \in DOMAIN fhs : fhs[r] = <<"orphan", o>>} = {s}
        BY <3>1, <3>2
      <3> QED
        BY <2>2, <3>3, FS_Singleton
    <2> QED
      BY <2>1, <2>2
  <1> QED
    BY <1>1, KeepersInvariance, PTL

----------------------------------------------------------------------------
\* Mounts and their trees.

LEMMA SeqOfItself ==
  ASSUME NEW S, NEW s \in Seq(S)
  PROVE  /\ s \in Seq({s[i] : i \in DOMAIN s})
         /\ Len(s) \in Nat /\ DOMAIN s = 1..Len(s)
  <1>1. Len(s) \in Nat /\ DOMAIN s = 1..Len(s) /\ s \in [1..Len(s) -> S]
    BY LenProperties
  <1>2. PICK T : T = {s[i] : i \in DOMAIN s}
    OBVIOUS
  <1>3. s \in [1..Len(s) -> T]
    BY <1>1, <1>2
  <1>4. s \in Seq(T)
    BY <1>1, <1>3, SeqDef
  <1> QED
    BY <1>1, <1>2, <1>4

\* The mounts are a list.
LEMMA MountList ==
  ASSUME MountsInv
  PROVE  Len(mounts) \in Nat /\ DOMAIN mounts = 1..Len(mounts)
  <1>1. PICK S : mounts \in Seq(S)
    BY DEF MountsInv
  <1> QED
    BY <1>1, SeqOfItself

\* The trees of ms are still there in ns, with what was in them and no more than
\* directories beside it.
TreeKeeps(tree, new) ==
  /\ \A q \in DOMAIN tree : q \in DOMAIN new /\ new[q].kind = tree[q].kind
  /\ \A q \in DOMAIN new \ DOMAIN tree : new[q].kind = "dir"

Keeps(m, n) ==
  /\ IsMount(n) /\ n.id = m.id /\ n.mp = m.mp /\ n.posix = m.posix
  /\ TreeKeeps(m.tree, n.tree)

Grows(ms, ns) ==
  /\ ns = [i \in DOMAIN ms |-> ns[i]]
  /\ \A i \in DOMAIN ms : Keeps(ms[i], ns[i])

\* A mount with another tree.
LEMMA TreeReplaced ==
  ASSUME NEW m, IsMount(m), NEW tree, IsTree(tree), TreeKeeps(m.tree, tree)
  PROVE  LET n == [m EXCEPT !.tree = tree]
         IN  Keeps(m, n) /\ n.tree = tree /\ n.opened = m.opened
  <1> DEFINE F == {"id", "mp", "posix", "opened", "tree"}
             n == [m EXCEPT !.tree = tree]
  <1>1. m = [f \in F |-> m[f]]
    BY DEF IsMount
  <1>2. DOMAIN m = F
    BY <1>1
  <1>3. n = [f \in F |-> IF f = "tree" THEN tree ELSE m[f]]
    BY <1>2
  <1>4. /\ n.tree = tree /\ n = [f \in F |-> n[f]] /\ n.opened = m.opened
        /\ n.id = m.id /\ n.mp = m.mp /\ n.posix = m.posix
    BY <1>3
  <1> HIDE DEF n
  <1> QED
    BY <1>4 DEF Keeps, IsMount, n

\* A mount whose backend has opened a file.
LEMMA OpenedReplaced ==
  ASSUME NEW m, IsMount(m), NEW opened
  PROVE  LET n == [m EXCEPT !.opened = opened]
         IN  Keeps(m, n) /\ n.tree = m.tree /\ n.opened = opened
  <1> DEFINE F == {"id", "mp", "posix", "opened", "tree"}
             n == [m EXCEPT !.opened = opened]
  <1>1. m = [f \in F |-> m[f]]
    BY DEF IsMount
  <1>2. DOMAIN m = F
    BY <1>1
  <1>3. n = [f \in F |-> IF f = "opened" THEN opened ELSE m[f]]
    BY <1>2
  <1>4. /\ n.tree = m.tree /\ n = [f \in F |-> n[f]] /\ n.opened = opened
        /\ n.id = m.id /\ n.mp = m.mp /\ n.posix = m.posix
    BY <1>3
  <1> HIDE DEF n
  <1> QED
    BY <1>4 DEF Keeps, TreeKeeps, IsMount, n

\* A tree in which one inode has changed, but for its kind.
LEMMA InodeReplaced ==
  ASSUME NEW tree, IsTree(tree), NEW q, NEW inode,
         q \in DOMAIN tree => IsInode(inode) /\ inode.kind = tree[q].kind
  PROVE  LET new == [tree EXCEPT ![q] = inode]
         IN  /\ IsTree(new) /\ DOMAIN new = DOMAIN tree
             /\ \A r \in DOMAIN tree : new[r].kind = tree[r].kind
  <1> DEFINE new == [tree EXCEPT ![q] = inode]
  <1>1. DOMAIN new = DOMAIN tree /\ new = [r \in DOMAIN new |-> new[r]]
    OBVIOUS
  <1>2. \A r \in DOMAIN tree : new[r] = IF r = q THEN inode ELSE tree[r]
    OBVIOUS
  <1> HIDE DEF new
  <1>3. \A r \in DOMAIN tree : IsInode(new[r]) /\ new[r].kind = tree[r].kind
    BY <1>2 DEF IsTree
  <1> QED
    BY <1>1, <1>3 DEF IsTree, new

\* Fields of an inode other than its kind.
LEMMA FieldsReplaced ==
  ASSUME NEW n, IsInode(n), NEW v
  PROVE  /\ IsInode([n EXCEPT !.size = v]) /\ [n EXCEPT !.size = v].kind = n.kind
         /\ IsInode([n EXCEPT !.bh = v]) /\ [n EXCEPT !.bh = v].kind = n.kind
         /\ IsInode([n EXCEPT !.file = v]) /\ [n EXCEPT !.file = v].kind = n.kind
  <1> DEFINE F == {"kind", "size", "bh", "file"}
  <1>1. n = [f \in F |-> n[f]] /\ n.kind \in {"dir", "reg"}
    BY DEF IsInode
  <1>2. DOMAIN n = F
    BY <1>1
  <1>3. /\ [n EXCEPT !.size = v] = [f \in F |-> IF f = "size" THEN v ELSE n[f]]
        /\ [n EXCEPT !.bh = v] = [f \in F |-> IF f = "bh" THEN v ELSE n[f]]
        /\ [n EXCEPT !.file = v] = [f \in F |-> IF f = "file" THEN v ELSE n[f]]
    BY <1>2
  <1> QED
    BY <1>1, <1>3 DEF IsInode

\* A walk only adds directories.
LEMMA GrownTree ==
  ASSUME NEW tree, IsTree(tree), NEW names
  PROVE  /\ IsTree(Grown(tree, names))
         /\ DOMAIN Grown(tree, names) = DOMAIN tree \cup Prefixes(names)
         /\ \A q \in DOMAIN tree : Grown(tree, names)[q] = tree[q]
         /\ \A q \in Prefixes(names) \ DOMAIN tree : Grown(tree, names)[q] = Dir
  <1>1. IsInode(Dir)
    BY DEF IsInode, Dir
  <1> QED
    BY <1>1 DEF IsTree, Grown

----------------------------------------------------------------------------
\* The steps.

\* What TreesOnlyGrow says of a step.
TreesKept ==
  \A i \in DOMAIN mounts, j \in DOMAIN mounts' :
    mounts[i].id = mounts'[j].id =>
      \A q \in DOMAIN mounts[i].tree :
        /\ q \in DOMAIN mounts'[j].tree
        /\ mounts'[j].tree[q].kind = mounts[i].tree[q].kind

Safe == MountsInv' /\ FilesInv' /\ TreesKept /\ OnlyDirsAdded

\* A list of as many mounts that keep their ids, and the handles of before with new ones
\* that name files which are there.
LEMMA GrowsStep ==
  ASSUME MountsInv, FilesInv, Grows(mounts, mounts'),
         \A s \in DOMAIN fhs' :
           \/ s \in DOMAIN fhs /\ fhs'[s] = fhs[s]
           \/ fhs'[s][1] # "tree"
           \/ \E w \in DOMAIN mounts :
                /\ fhs'[s][2] = mounts[w].id
                /\ fhs'[s][3] \in DOMAIN mounts'[w].tree /\ mounts'[w].tree[fhs'[s][3]].kind = "reg"
  PROVE  Safe
  <1>1. /\ DOMAIN mounts' = DOMAIN mounts
        /\ \A i \in DOMAIN mounts : Keeps(mounts[i], mounts'[i])
    BY DEF Grows
  <1>2. mounts' \in Seq({mounts'[i] : i \in DOMAIN mounts'}) /\ Len(mounts') = Len(mounts)
    <2>1. Len(mounts) \in Nat /\ DOMAIN mounts = 1..Len(mounts)
      BY MountList
    <2>2. mounts' \in [1..Len(mounts) -> {mounts'[i] : i \in DOMAIN mounts'}]
      BY <1>1, <2>1 DEF Grows
    <2> QED
      BY <2>1, <2>2
  <1>3. MountsInv'
    BY <1>1, <1>2 DEF MountsInv, Keeps, TreeKeeps
  <1>4. FilesInv'
    <2> SUFFICES ASSUME NEW s \in DOMAIN fhs', NEW i \in DOMAIN mounts,
                        fhs'[s][1] = "tree", fhs'[s][2] = mounts'[i].id
                 PROVE  fhs'[s][3] \in DOMAIN mounts'[i].tree /\ mounts'[i].tree[fhs'[s][3]].kind = "reg"
      BY <1>1 DEF FilesInv
    <2>1. Keeps(mounts[i], mounts'[i])
      BY <1>1
    <2>2. CASE s \in DOMAIN fhs /\ fhs'[s] = fhs[s]
      BY <2>1, <2>2 DEF FilesInv, Keeps, TreeKeeps
    <2>3. CASE \E w \in DOMAIN mounts :
                 /\ fhs'[s][2] = mounts[w].id
                 /\ fhs'[s][3] \in DOMAIN mounts'[w].tree /\ mounts'[w].tree[fhs'[s][3]].kind = "reg"
      BY <2>1, <2>3 DEF MountsInv, Keeps, TreeKeeps
    <2> QED
      BY <2>2, <2>3
  <1>5. TreesKept
    BY <1>1 DEF MountsInv, Keeps, TreeKeeps, TreesKept
  <1>6. OnlyDirsAdded
    BY <1>1 DEF MountsInv, Keeps, TreeKeeps, OnlyDirsAdded
  <1> QED
    BY <1>3, <1>4, <1>5, <1>6 DEF Safe

LEMMA GrowsTwice ==
  ASSUME NEW a, NEW b, NEW c, Grows(a, b), Grows(b, c)
  PROVE  Grows(a, c)
  BY DEF Grows, Keeps, TreeKeeps

LEMMA GrowsItself ==
  ASSUME MountsInv
  PROVE  Grows(mounts, mounts)
  <1>1. mounts = [i \in DOMAIN mounts |-> mounts[i]]
    <2>1. \A S : \A s \in Seq(S) : s = [i \in DOMAIN s |-> s[i]]
      OBVIOUS
    <2> QED
      BY <2>1 DEF MountsInv
  <1> QED
    BY <1>1 DEF Grows, Keeps, TreeKeeps, MountsInv

LEMMA ResolvedGrows ==
  ASSUME MountsInv, NEW path
  PROVE  /\ Grows(mounts, Resolved(path))
         /\ \A i \in DOMAIN mounts :
              /\ Resolved(path)[i].opened = mounts[i].opened
              /\ Resolved(path)[i].tree =
                   IF i = WalkMount(path) THEN Grown(mounts[i].tree, Walk(path)) ELSE mounts[i].tree
  <1> DEFINE w == WalkMount(path)
             names == Walk(path)
             new == Resolved(path)
  <1>1. new = [mounts EXCEPT ![w].tree = Grown(@, names)]
    BY DEF Resolved
  <1>2. mounts = [i \in DOMAIN mounts |-> mounts[i]] /\ \A i \in DOMAIN mounts : Keeps(mounts[i], mounts[i])
    BY GrowsItself DEF Grows
  <1> HIDE DEF w, names, new
  <1>3. DOMAIN new = DOMAIN mounts /\ new = [i \in DOMAIN new |-> new[i]]
    BY <1>1, <1>2
  <1>4. ASSUME NEW i \in DOMAIN mounts
        PROVE  /\ Keeps(mounts[i], new[i]) /\ new[i].opened = mounts[i].opened
               /\ new[i].tree = IF i = w THEN Grown(mounts[i].tree, names) ELSE mounts[i].tree
    <2>1. CASE i # w
      BY <1>1, <1>2, <2>1
    <2>2. CASE i = w
      <3>1. new[i] = [mounts[i] EXCEPT !.tree = Grown(mounts[i].tree, names)]
        BY <1>1, <2>2
      <3>2. IsMount(mounts[i]) /\ IsTree(mounts[i].tree)
        BY DEF MountsInv, IsMount
      <3>3. PICK old : old = mounts[i].tree
        OBVIOUS
      <3>4. PICK tree : tree = Grown(old, names)
        OBVIOUS
      <3>5. IsTree(old)
        BY <3>2, <3>3
      <3>6. /\ IsTree(Grown(old, names))
            /\ DOMAIN Grown(old, names) = DOMAIN old \cup Prefixes(names)
            /\ \A q \in DOMAIN old : Grown(old, names)[q] = old[q]
            /\ \A q \in Prefixes(names) \ DOMAIN old : Grown(old, names)[q] = Dir
        BY <3>5, GrownTree
      <3>7. IsTree(tree) /\ \A q \in DOMAIN mounts[i].tree : q \in DOMAIN tree /\ tree[q].kind = mounts[i].tree[q].kind
        BY <3>3, <3>4, <3>6
      <3>10. \A q \in DOMAIN tree \ DOMAIN mounts[i].tree : tree[q].kind = "dir"
        <4>1. Dir.kind = "dir"
          BY DEF Dir
        <4> QED
          BY <3>3, <3>4, <3>6, <4>1
      <3>11. TreeKeeps(mounts[i].tree, tree)
        BY <3>7, <3>10 DEF TreeKeeps
      <3>8. new[i] = [mounts[i] EXCEPT !.tree = tree]
        BY <3>1, <3>3, <3>4
      <3>9. Keeps(mounts[i], new[i]) /\ new[i].tree = tree /\ new[i].opened = mounts[i].opened
        BY <3>2, <3>7, <3>8, <3>11, TreeReplaced
      <3> QED
        BY <2>2, <3>3, <3>4, <3>9
    <2> QED
      BY <2>1, <2>2
  <1> QED
    BY <1>3, <1>4 DEF Grows, new, w, names

\* A list of mounts, with what the backend of one has opened.
LEMMA OpenedGrows ==
  ASSUME NEW ms, ms = [i \in DOMAIN ms |-> ms[i]], \A i \in DOMAIN ms : IsMount(ms[i]), NEW b, NEW file
  PROVE  /\ Grows(ms, Opened(ms, b, file))
         /\ \A i \in DOMAIN ms :
              /\ Opened(ms, b, file)[i].tree = ms[i].tree
              /\ Opened(ms, b, file)[i].opened =
                   IF i = b THEN Append(ms[i].opened, file) ELSE ms[i].opened
  <1> DEFINE new == Opened(ms, b, file)
  <1>1. new = [ms EXCEPT ![b].opened = Append(@, file)]
    BY DEF Opened
  <1> HIDE DEF new
  <1>2. DOMAIN new = DOMAIN ms /\ new = [i \in DOMAIN new |-> new[i]]
    BY <1>1
  <1>3. ASSUME NEW i \in DOMAIN ms
        PROVE  /\ Keeps(ms[i], new[i]) /\ new[i].tree = ms[i].tree
               /\ new[i].opened = IF i = b THEN Append(ms[i].opened, file) ELSE ms[i].opened
    <2>1. CASE i # b
      BY <1>1, <2>1 DEF Keeps, TreeKeeps
    <2>2. CASE i = b
      <3>1. new[i] = [ms[i] EXCEPT !.opened = Append(ms[i].opened, file)]
        BY <1>1, <2>2
      <3>2. PICK o : o = Append(ms[i].opened, file)
        OBVIOUS
      <3>3. new[i] = [ms[i] EXCEPT !.opened = o] /\ IsMount(ms[i])
        BY <3>1, <3>2
      <3>4. Keeps(ms[i], new[i]) /\ new[i].tree = ms[i].tree /\ new[i].opened = o
        BY <3>3, OpenedReplaced
      <3> QED
        BY <2>2, <3>2, <3>4
    <2> QED
      BY <2>1, <2>2
  <1> QED
    BY <1>2, <1>3 DEF Grows, new

\* A list of mounts in which one tree has another inode.
InodeSet(ms, w, q, inode) == [ms EXCEPT ![w].tree[q] = inode]

\* It keeps what was there if the inode is of the same kind.
LEMMA InodeGrows ==
  ASSUME NEW ms, ms = [i \in DOMAIN ms |-> ms[i]], \A i \in DOMAIN ms : IsMount(ms[i]),
         NEW w, NEW q, NEW inode,
         IsInode(ms[w].tree[q]) => IsInode(inode) /\ inode.kind = ms[w].tree[q].kind
  PROVE  /\ Grows(ms, InodeSet(ms, w, q, inode))
         /\ \A i \in DOMAIN ms :
              /\ InodeSet(ms, w, q, inode)[i].opened = ms[i].opened
              /\ InodeSet(ms, w, q, inode)[i].tree =
                   IF i = w THEN [ms[i].tree EXCEPT ![q] = inode] ELSE ms[i].tree
  <1>1. PICK ns : ns = InodeSet(ms, w, q, inode)
    OBVIOUS
  <1>2. ns = [ms EXCEPT ![w].tree[q] = inode]
    BY <1>1 DEF InodeSet
  <1>3. DOMAIN ns = DOMAIN ms /\ ns = [i \in DOMAIN ns |-> ns[i]]
    BY <1>2
  <1>4. ASSUME NEW i \in DOMAIN ms
        PROVE  /\ Keeps(ms[i], ns[i]) /\ ns[i].opened = ms[i].opened
               /\ ns[i].tree = IF i = w THEN [ms[i].tree EXCEPT ![q] = inode] ELSE ms[i].tree
    <2>1. CASE i # w
      BY <1>2, <2>1 DEF Keeps, TreeKeeps
    <2>2. CASE i = w
      <3>1. PICK tree : tree = [ms[i].tree EXCEPT ![q] = inode]
        OBVIOUS
      <3>2. ns[i] = [ms[i] EXCEPT !.tree = tree]
        BY <1>2, <2>2, <3>1
      <3>3. IsMount(ms[i]) /\ IsTree(ms[i].tree)
        BY DEF IsMount
      <3>4. q \in DOMAIN ms[i].tree => IsInode(inode) /\ inode.kind = ms[i].tree[q].kind
        BY <2>2, <3>3 DEF IsTree
      <3>5. /\ IsTree(tree) /\ DOMAIN tree = DOMAIN ms[i].tree
            /\ \A r \in DOMAIN ms[i].tree : tree[r].kind = ms[i].tree[r].kind
        BY <3>1, <3>3, <3>4, InodeReplaced
      <3>7. TreeKeeps(ms[i].tree, tree)
        BY <3>5 DEF TreeKeeps
      <3>6. Keeps(ms[i], ns[i]) /\ ns[i].tree = tree /\ ns[i].opened = ms[i].opened
        BY <3>2, <3>3, <3>5, <3>7, TreeReplaced
      <3> QED
        BY <2>2, <3>1, <3>6
    <2> QED
      BY <2>1, <2>2
  <1> QED
    BY <1>1, <1>3, <1>4 DEF Grows

\* There is an id for a new mount that no mount has, and no handle either.
LEMMA FreshId ==
  ASSUME MountsInv, DOMAIN fhs \subseteq Slots, Len(mounts) < MaxMounts
  PROVE  FreeId \in Ids /\ ~Live(FreeId) /\ UsersOf(FreeId) = {}
  <1> DEFINE Free == {id \in Ids : ~Live(id) /\ UsersOf(id) = {}}
             T == 1..(MaxMounts + MaxFH)
             R == T \ {MaxMounts}
             IndexOfMount(id) == CHOOSE i \in DOMAIN mounts : mounts[i].id = id
             UserOf(id) == CHOOSE s \in DOMAIN fhs : s \in UsersOf(id)
             f == [id \in T |-> IF Live(id) THEN IndexOfMount(id) ELSE MaxMounts + UserOf(id)]
  <1>1. /\ MaxMounts \in Nat /\ MaxFH \in Nat /\ MaxMounts # 0
        /\ Len(mounts) \in Nat /\ DOMAIN mounts = 1..Len(mounts)
    BY MountList, BoundsAssumption
  <1>2. ASSUME Free = {} PROVE FALSE
    <2>1. ASSUME NEW id \in T, Live(id)
          PROVE  f[id] \in DOMAIN mounts /\ mounts[f[id]].id = id /\ f[id] \in R /\ f[id] < MaxMounts
      <3>1. IndexOfMount(id) \in DOMAIN mounts /\ mounts[IndexOfMount(id)].id = id
        BY <2>1 DEF Live
      <3>2. f[id] = IndexOfMount(id)
        BY <2>1
      <3> HIDE DEF f, IndexOfMount
      <3> QED
        BY <1>1, <3>1, <3>2
    <2>2. ASSUME NEW id \in T, ~Live(id)
          PROVE  UserOf(id) \in UsersOf(id) /\ UserOf(id) \in 1..MaxFH /\ f[id] = MaxMounts + UserOf(id)
      <3>1. UsersOf(id) # {}
        BY <1>2, <2>2 DEF Ids
      <3>2. UserOf(id) \in UsersOf(id) /\ UserOf(id) \in DOMAIN fhs
        BY <3>1 DEF UsersOf
      <3>3. f[id] = MaxMounts + UserOf(id)
        BY <2>2
      <3> QED
        BY <3>2, <3>3 DEF Slots
    <2>3. ASSUME NEW id \in T PROVE f[id] \in R
      <3>1. CASE Live(id)
        BY <3>1, <2>1
      <3>2. CASE ~Live(id)
        <4>1. PICK u \in 1..MaxFH : f[id] = MaxMounts + u
          BY <3>2, <2>2
        <4> HIDE DEF f
        <4> QED
          BY <1>1, <4>1
      <3> QED
        BY <3>1, <3>2
    <2>4. f \in [T -> R]
      BY <2>3
    <2>5. /\ IsFiniteSet(T) /\ IsFiniteSet(R)
          /\ Cardinality(R) < Cardinality(T)
      <3>1. IsFiniteSet(T) /\ Cardinality(T) = MaxMounts + MaxFH
        <4>1. PICK n \in Nat : n = MaxMounts + MaxFH /\ n >= 1
          BY <1>1
        <4>2. IsFiniteSet(1..n) /\ Cardinality(1..n) = n
          BY <4>1, FS_Interval
        <4> QED
          BY <4>1, <4>2
      <3>2. MaxMounts \in T
        BY <1>1
      <3>3. IsFiniteSet(R) /\ Cardinality(R) = Cardinality(T) - 1
        BY <3>1, <3>2, FS_RemoveElement
      <3> QED
        BY <1>1, <3>1, <3>3
    <2>6. PICK a, b \in T : a # b /\ f[a] = f[b]
      <3> HIDE DEF f, T, R
      <3> QED
        BY <2>4, <2>5, FS_PigeonHole
    <2>7. CASE Live(a) /\ Live(b)
      BY <2>1, <2>6, <2>7
    <2>8. CASE ~Live(a) /\ ~Live(b)
      <3>1. UserOf(a) = UserOf(b)
        <4>1. /\ UserOf(a) \in 1..MaxFH /\ f[a] = MaxMounts + UserOf(a)
              /\ UserOf(b) \in 1..MaxFH /\ f[b] = MaxMounts + UserOf(b)
          BY <2>2, <2>8
        <4> HIDE DEF UserOf
        <4>2. PICK u, v \in 1..MaxFH : u = UserOf(a) /\ v = UserOf(b)
          BY <4>1
        <4>3. MaxMounts + u = MaxMounts + v
          BY <2>6, <4>1, <4>2
        <4>4. u = v
          BY <1>1, <4>3
        <4> QED
          BY <4>2, <4>4
      <3>2. UserOf(a) \in UsersOf(a) /\ UserOf(a) \in UsersOf(b)
        BY <2>2, <2>8, <3>1
      <3> HIDE DEF UserOf
      <3> QED
        BY <2>6, <3>2 DEF UsersOf
    <2>9. ASSUME NEW c \in T, NEW d \in T, Live(c), ~Live(d), f[c] = f[d] PROVE FALSE
      <3>1. PICK u \in 1..MaxFH : f[d] = MaxMounts + u
        BY <2>2, <2>9
      <3>2. f[c] < MaxMounts
        BY <2>1, <2>9
      <3> HIDE DEF f
      <3> QED
        BY <1>1, <2>9, <3>1, <3>2
    <2> QED
      BY <2>6, <2>7, <2>8, <2>9
  <1>3. FreeId \in Free
    <2>1. FreeId = Lowest(Free)
      BY DEF FreeId
    <2>2. Free \subseteq 1..(MaxMounts + MaxFH)
      BY DEF Ids
    <2>3. MaxMounts + MaxFH \in Nat
      BY <1>1
    <2> HIDE DEF Free
    <2> QED
      BY <1>2, <2>1, <2>2, <2>3, LowestIsLeast
  <1> QED
    BY <1>3

IsList(ms) == ms \in Seq({ms[i] : i \in DOMAIN ms})

FreshMount(mp, posix, tree) ==
  [id |-> FreeId, mp |-> mp, posix |-> posix, opened |-> <<>>, tree |-> tree]

\* The list with a new mount at its head.
LEMMA NewMountList ==
  ASSUME MountsInv, NEW mp, NEW posix, NEW tree, mounts' = NewMount(mp, posix, tree)
  PROVE  /\ mounts'[1] = FreshMount(mp, posix, tree) /\ IsList(mounts')
         /\ Len(mounts') = 1 + Len(mounts) /\ DOMAIN mounts' = 1..(1 + Len(mounts))
         /\ \A i \in DOMAIN mounts' : i # 1 => i - 1 \in DOMAIN mounts /\ mounts'[i] = mounts[i - 1]
         /\ \A i \in DOMAIN mounts : i + 1 \in DOMAIN mounts' /\ mounts'[i + 1] = mounts[i]
  <1>1. PICK m : m = FreshMount(mp, posix, tree)
    OBVIOUS
  <1>2. mounts' = <<m>> \o mounts
    BY <1>1 DEF NewMount, FreshMount
  <1> DEFINE M == {mounts[i] : i \in DOMAIN mounts} \cup {m}
  <1>3. mounts \in Seq(M) /\ <<m>> \in Seq(M) /\ Len(<<m>>) = 1 /\ <<m>>[1] = m
    BY SeqMonotonic DEF MountsInv
  <1> HIDE DEF M
  <1>4. /\ mounts' \in Seq(M) /\ Len(mounts') = 1 + Len(mounts)
        /\ \A i \in 1..(1 + Len(mounts)) : mounts'[i] = IF i <= 1 THEN m ELSE mounts[i - 1]
    BY <1>2, <1>3, ConcatProperties
  <1>5. Len(mounts) \in Nat /\ DOMAIN mounts = 1..Len(mounts) /\ DOMAIN mounts' = 1..(1 + Len(mounts))
    BY <1>4, MountList
  <1>6. IsList(mounts')
    BY <1>4, SeqOfItself DEF IsList
  <1>7. /\ mounts'[1] = m
        /\ \A i \in DOMAIN mounts' : i # 1 => i - 1 \in DOMAIN mounts /\ mounts'[i] = mounts[i - 1]
        /\ \A i \in DOMAIN mounts : i + 1 \in DOMAIN mounts' /\ mounts'[i + 1] = mounts[i]
    BY <1>4, <1>5
  <1> QED
    BY <1>1, <1>4, <1>5, <1>6, <1>7

\* A new mount, with no handle in it.
LEMMA NewMountStep ==
  ASSUME MountsInv, FilesInv, DOMAIN fhs \subseteq Slots, Len(mounts) < MaxMounts,
         NEW mp \in Mountpoints \cup {Root}, NEW posix, NEW tree, IsTree(tree),
         mounts' = NewMount(mp, posix, tree), fhs' = fhs
  PROVE  Safe
  <1>1. PICK m : m = FreshMount(mp, posix, tree) /\ mounts'[1] = m
    BY NewMountList
  <1>2. /\ IsList(mounts') /\ Len(mounts') = 1 + Len(mounts) /\ DOMAIN mounts' = 1..(1 + Len(mounts))
        /\ \A i \in DOMAIN mounts' : i # 1 => i - 1 \in DOMAIN mounts /\ mounts'[i] = mounts[i - 1]
    BY NewMountList
  <1>3. m.id = FreeId /\ IsMount(m)
    BY <1>1, FreshId DEF IsMount, FreshMount
  <1>6. Len(mounts) \in Nat /\ DOMAIN mounts = 1..Len(mounts) /\ DOMAIN mounts' = 1..(1 + Len(mounts))
    BY <1>2, MountList
  <1>7. \A i \in DOMAIN mounts' : mounts'[i] = m \/ (i - 1 \in DOMAIN mounts /\ mounts'[i] = mounts[i - 1])
    BY <1>1, <1>2
  <1>8. mounts'[1] = m /\ \A i \in DOMAIN mounts' : i # 1 => i - 1 \in DOMAIN mounts /\ mounts'[i] = mounts[i - 1]
    BY <1>1, <1>2
  <1>9. \A i \in DOMAIN mounts : mounts[i].id # m.id
    BY <1>3, FreshId DEF Live
  <1>10. MountsInv'
    <2>1. mounts' \in Seq({mounts'[i] : i \in DOMAIN mounts'})
      BY <1>2 DEF IsList
    <2>2. Len(mounts') <= MaxMounts
      BY <1>2, <1>6, BoundsAssumption
    <2>3. \A i \in DOMAIN mounts' : IsMount(mounts'[i])
      BY <1>3, <1>7 DEF MountsInv
    <2>4. \A i, j \in DOMAIN mounts' : mounts'[i].id = mounts'[j].id => i = j
      <3> SUFFICES ASSUME NEW i \in DOMAIN mounts', NEW j \in DOMAIN mounts', mounts'[i].id = mounts'[j].id
                   PROVE  i = j
        OBVIOUS
      <3>1. i # 1 /\ j # 1 => i - 1 = j - 1
        BY <1>8 DEF MountsInv
      <3>2. i = 1 <=> j = 1
        BY <1>8, <1>9
      <3> QED
        BY <1>6, <3>1, <3>2
    <2> QED
      BY <2>1, <2>2, <2>3, <2>4 DEF MountsInv
  <1>11. FilesInv'
    <2>1. \A s \in DOMAIN fhs : fhs[s][1] = "tree" => fhs[s][2] # m.id
      BY <1>3, FreshId DEF UsersOf
    <2> QED
      BY <1>7, <2>1 DEF FilesInv
  <1>12. TreesKept
    BY <1>7, <1>9 DEF TreesKept, MountsInv
  <1>13. OnlyDirsAdded
    BY <1>7, <1>9 DEF OnlyDirsAdded, MountsInv
  <1> QED
    BY <1>10, <1>11, <1>12, <1>13 DEF Safe

LEMMA InitSafe ==
  ASSUME MountsInv, FilesInv, DOMAIN fhs \subseteq Slots, VfsInit
  PROVE  Safe
  <1>1. IsTree(SampleTree)
    <2>1. IsInode(Dir) /\ IsInode(Reg(0, None))
      BY DEF IsInode, Dir, Reg
    <2> QED
      BY <2>1 DEF IsTree, SampleTree
  <1>2. /\ Len(mounts) < MaxMounts /\ fhs' = fhs
        /\ mounts' = NewMount(Root, FALSE, SampleTree)
    BY DEF VfsInit
  <1> QED
    BY <1>1, <1>2, NewMountStep

LEMMA MountSafe ==
  ASSUME MountsInv, FilesInv, DOMAIN fhs \subseteq Slots,
         NEW mp \in Mountpoints, NEW posix, Mount(mp, posix)
  PROVE  Safe
  <1>1. IsTree(EmptyTree)
    <2>1. IsInode(Dir)
      BY DEF IsInode, Dir
    <2> QED
      BY <2>1 DEF IsTree, EmptyTree
  <1>2. /\ Len(mounts) < MaxMounts /\ fhs' = fhs
        /\ mounts' = NewMount(mp, posix, EmptyTree)
    BY DEF Mount
  <1> QED
    BY <1>1, <1>2, NewMountStep

LEMMA ShutdownSafe ==
  ASSUME MountsInv, FilesInv, Shutdown
  PROVE  Safe
  <1>1. mounts' = <<>> /\ DOMAIN mounts' = {} /\ Len(mounts') = 0 /\ DOMAIN fhs' = {}
    BY DEF Shutdown
  <1>2. mounts' \in Seq({mounts'[i] : i \in DOMAIN mounts'})
    BY <1>1, EmptySeq
  <1> QED
    BY <1>1, <1>2, BoundsAssumption DEF Safe, MountsInv, FilesInv, TreesKept, OnlyDirsAdded

\* A list without its i-th element.
LEMMA Cut ==
  ASSUME NEW S, NEW s \in Seq(S), NEW i \in 1..Len(s)
  PROVE  /\ RemoveAt(s, i) \in Seq(S) /\ Len(RemoveAt(s, i)) = Len(s) - 1
         /\ \A j \in 1..(Len(s) - 1) : RemoveAt(s, i)[j] = IF j < i THEN s[j] ELSE s[j + 1]
  <1>1. Len(s) \in Nat /\ \A j \in 1..Len(s) : s[j] \in S
    BY LenProperties
  <1>2. PICK a : a = SubSeq(s, 1, i - 1)
    OBVIOUS
  <1>3. PICK b : b = SubSeq(s, i + 1, Len(s))
    OBVIOUS
  <1>4. a \in Seq(S) /\ Len(a) = i - 1 /\ \A j \in 1..(i - 1) : a[j] = s[j]
    <2>1. 1 \in Int /\ i - 1 \in Int /\ \A j \in 1..(i - 1) : s[j] \in S
      BY <1>1
    <2>2. /\ a \in Seq(S) /\ Len(a) = IF 1 <= i - 1 THEN i - 1 - 1 + 1 ELSE 0
          /\ \A j \in 1..(i - 1 - 1 + 1) : a[j] = s[1 + j - 1]
      BY <1>2, <2>1, SubSeqProperties
    <2> QED
      BY <1>1, <2>2
  <1>5. b \in Seq(S) /\ Len(b) = Len(s) - i /\ \A j \in 1..(Len(s) - i) : b[j] = s[i + j]
    <2>1. i + 1 \in Int /\ Len(s) \in Int /\ \A j \in (i + 1)..Len(s) : s[j] \in S
      BY <1>1
    <2>2. /\ b \in Seq(S) /\ Len(b) = IF i + 1 <= Len(s) THEN Len(s) - (i + 1) + 1 ELSE 0
          /\ \A j \in 1..(Len(s) - (i + 1) + 1) : b[j] = s[i + 1 + j - 1]
      BY <1>3, <2>1, SubSeqProperties
    <2>3. \A j \in 1..(Len(s) - i) : i + 1 + j - 1 = i + j
      BY <1>1
    <2>4. Len(s) - (i + 1) + 1 = Len(s) - i
      BY <1>1
    <2>5. \A j \in 1..(Len(s) - i) : b[j] = s[i + j]
      BY <2>2, <2>3, <2>4
    <2> QED
      BY <1>1, <2>2, <2>5
  <1>6. RemoveAt(s, i) = a \o b
    BY <1>2, <1>3 DEF RemoveAt
  <1>7. /\ a \o b \in Seq(S) /\ Len(a \o b) = Len(a) + Len(b)
        /\ \A j \in 1..(Len(a) + Len(b)) : (a \o b)[j] = IF j <= Len(a) THEN a[j] ELSE b[j - Len(a)]
    BY <1>4, <1>5, ConcatProperties
  <1>8. ASSUME NEW j \in 1..(Len(s) - 1)
        PROVE  (a \o b)[j] = IF j < i THEN s[j] ELSE s[j + 1]
    <2>1. (a \o b)[j] = IF j <= i - 1 THEN a[j] ELSE b[j - (i - 1)]
      BY <1>1, <1>4, <1>5, <1>7
    <2>2. CASE j < i
      <3>1. j \in 1..(i - 1)
        BY <2>2
      <3> QED
        BY <1>4, <2>1, <2>2, <3>1
    <2>3. CASE ~(j < i)
      <3>1. j - (i - 1) \in 1..(Len(s) - i) /\ i + (j - (i - 1)) = j + 1 /\ ~(j <= i - 1)
        BY <1>1, <2>3
      <3> QED
        BY <1>5, <2>1, <2>3, <3>1
    <2> QED
      BY <2>2, <2>3
  <1> QED
    BY <1>1, <1>4, <1>5, <1>6, <1>7, <1>8

\* The list without the mount that was unmounted, which was at the mountpoint.
LEMMA UnmountList ==
  ASSUME MountsInv, NEW mp, Unmount(mp)
  PROVE  \E i \in 1..Len(mounts) :
           /\ mounts[i].mp = mp /\ (Tidy => UsersOf(mounts[i].id) = {})
           /\ IsList(mounts') /\ Len(mounts') = Len(mounts) - 1 /\ DOMAIN mounts' = 1..(Len(mounts) - 1)
           /\ \A j \in DOMAIN mounts' :
                \/ j \in DOMAIN mounts /\ j < i /\ mounts'[j] = mounts[j]
                \/ j + 1 \in DOMAIN mounts /\ ~(j < i) /\ mounts'[j] = mounts[j + 1]
  <1>1. Len(mounts) \in Nat /\ DOMAIN mounts = 1..Len(mounts)
    BY MountList
  <1>2. PICK i \in 1..Len(mounts) :
          /\ mounts' = RemoveAt(mounts, i)
          /\ mounts[i].mp = mp /\ (Tidy => UsersOf(mounts[i].id) = {})
    <2> DEFINE I == {j \in 1..Len(Mps) : Mps[j] = mp}
               i == SelectInSeq(Mps, LAMBDA m : m = mp)
    <2>1. i # 0 /\ mounts' = RemoveAt(mounts, i) /\ (Tidy => UsersOf(mounts[i].id) = {})
      BY DEF Unmount, MountDestroy
    <2>2. i = IF I # {} THEN CHOOSE x \in I : \A y \in I : x <= y ELSE 0
      BY DEF SelectInSeq, Min
    <2>3. Len(Mps) = Len(mounts) /\ \A j \in 1..Len(mounts) : Mps[j] = mounts[j].mp
      BY <1>1 DEF Mps
    <2>4. I \subseteq 1..Len(mounts) /\ I \in SUBSET Nat /\ \A j \in I : mounts[j].mp = mp
      BY <1>1, <2>3
    <2> HIDE DEF I, i
    <2>5. I # {}
      BY <2>1, <2>2
    <2>6. \E x \in I : \A y \in I : x <= y
      BY <2>4, <2>5, LeastNatural
    <2>7. i \in I
      BY <2>2, <2>5, <2>6
    <2> QED
      BY <2>1, <2>4, <2>7
  <1> DEFINE M == {mounts[j] : j \in DOMAIN mounts}
  <1>3. mounts \in Seq(M)
    BY DEF MountsInv
  <1> HIDE DEF M
  <1>4. /\ mounts' \in Seq(M) /\ Len(mounts') = Len(mounts) - 1
        /\ \A j \in 1..(Len(mounts) - 1) : mounts'[j] = IF j < i THEN mounts[j] ELSE mounts[j + 1]
    BY <1>2, <1>3, Cut
  <1>5. DOMAIN mounts' = 1..(Len(mounts) - 1) /\ IsList(mounts')
    BY <1>4, SeqOfItself DEF IsList
  <1>6. \A j \in DOMAIN mounts' :
          \/ j \in DOMAIN mounts /\ j < i /\ mounts'[j] = mounts[j]
          \/ j + 1 \in DOMAIN mounts /\ ~(j < i) /\ mounts'[j] = mounts[j + 1]
    BY <1>1, <1>4, <1>5
  <1> QED
    BY <1>2, <1>4, <1>5, <1>6

\* Unmounting takes one mount out of the list, with its tree: the handles into it dangle,
\* and the other trees are as they were.
LEMMA UnmountSafe ==
  ASSUME MountsInv, FilesInv, NEW mp, Unmount(mp)
  PROVE  Safe
  <1>1. Len(mounts) \in Nat /\ DOMAIN mounts = 1..Len(mounts)
    BY MountList
  <1>2. PICK i \in 1..Len(mounts) :
          /\ IsList(mounts') /\ Len(mounts') = Len(mounts) - 1 /\ DOMAIN mounts' = 1..(Len(mounts) - 1)
          /\ \A j \in DOMAIN mounts' :
               \/ j \in DOMAIN mounts /\ j < i /\ mounts'[j] = mounts[j]
               \/ j + 1 \in DOMAIN mounts /\ ~(j < i) /\ mounts'[j] = mounts[j + 1]
    BY UnmountList
  <1>3. fhs' = fhs
    BY DEF Unmount
  <1>5. DOMAIN mounts' = 1..(Len(mounts) - 1) /\ mounts' \in Seq({mounts'[j] : j \in DOMAIN mounts'})
    BY <1>2 DEF IsList
  <1>6. \A j \in DOMAIN mounts' :
          \/ j \in DOMAIN mounts /\ j < i /\ mounts'[j] = mounts[j]
          \/ j + 1 \in DOMAIN mounts /\ ~(j < i) /\ mounts'[j] = mounts[j + 1]
    BY <1>2
  <1>7. MountsInv'
    <2>1. \A j \in DOMAIN mounts' : IsMount(mounts'[j])
      BY <1>6 DEF MountsInv
    <2>2. ASSUME NEW j \in DOMAIN mounts', NEW k \in DOMAIN mounts', mounts'[j].id = mounts'[k].id
          PROVE  j = k
      <3>1. j \in Nat /\ k \in Nat
        BY <1>5
      <3>2. CASE j < i /\ k < i
        BY <1>6, <2>2, <3>2 DEF MountsInv
      <3>3. CASE ~(j < i) /\ ~(k < i)
        <4>1. j + 1 = k + 1
          BY <1>6, <2>2, <3>3 DEF MountsInv
        <4> QED
          BY <3>1, <4>1
      <3>4. CASE j < i /\ ~(k < i)
        <4>1. j = k + 1
          BY <1>6, <2>2, <3>4 DEF MountsInv
        <4> QED
          BY <1>2, <3>1, <3>4, <4>1
      <3>5. CASE ~(j < i) /\ k < i
        <4>1. j + 1 = k
          BY <1>6, <2>2, <3>5 DEF MountsInv
        <4> QED
          BY <1>2, <3>1, <3>5, <4>1
      <3> QED
        BY <3>2, <3>3, <3>4, <3>5
    <2>3. Len(mounts') <= MaxMounts
      BY <1>1, <1>2, BoundsAssumption DEF MountsInv
    <2> QED
      BY <1>5, <2>1, <2>2, <2>3 DEF MountsInv
  <1>8. \A j \in DOMAIN mounts' : \E k \in DOMAIN mounts : mounts'[j] = mounts[k]
    BY <1>6
  <1>9. FilesInv'
    BY <1>3, <1>8 DEF FilesInv
  <1>10. TreesKept
    BY <1>8 DEF TreesKept, MountsInv
  <1>11. OnlyDirsAdded
    BY <1>8 DEF OnlyDirsAdded, MountsInv
  <1> QED
    BY <1>7, <1>9, <1>10, <1>11 DEF Safe

LEMMA ResolveSafe ==
  ASSUME MountsInv, FilesInv, NEW path, Resolve(path)
  PROVE  Safe
  <1>1. mounts' = Resolved(path) /\ fhs' = fhs
    BY DEF Resolve
  <1>2. Grows(mounts, mounts')
    BY <1>1, ResolvedGrows
  <1> QED
    BY <1>1, <1>2, GrowsStep

\* The mounts are left alone, and no handle of a tree is new.
LEMMA MountsAlone ==
  ASSUME MountsInv, FilesInv, mounts' = mounts,
         \A s \in DOMAIN fhs' : (s \in DOMAIN fhs /\ fhs'[s] = fhs[s]) \/ fhs'[s][1] # "tree"
  PROVE  Safe
  <1>1. Grows(mounts, mounts')
    BY GrowsItself
  <1> QED
    BY <1>1, GrowsStep

LEMMA CloseSafe ==
  ASSUME MountsInv, FilesInv, NEW s, Close(s)
  PROVE  Safe
  <1>1. mounts' = mounts /\ \A r \in DOMAIN fhs' : r \in DOMAIN fhs /\ fhs'[r] = fhs[r]
    BY DEF Close, Restrict
  <1> QED
    BY <1>1, MountsAlone

\* Fields of an inode in a tree.
SizeSet(ms, w, q, v) == [ms EXCEPT ![w].tree[q].size = v]
BhSet(ms, w, q, v) == [ms EXCEPT ![w].tree[q].bh = v]
FileSet(ms, w, q, v) == [ms EXCEPT ![w].tree[q].file = v]

LEMMA FieldGrows ==
  ASSUME NEW ms, ms = [i \in DOMAIN ms |-> ms[i]], \A i \in DOMAIN ms : IsMount(ms[i]),
         NEW w, NEW q, NEW v
  PROVE  /\ Grows(ms, SizeSet(ms, w, q, v))
         /\ Grows(ms, BhSet(ms, w, q, v))
         /\ Grows(ms, FileSet(ms, w, q, v))
         /\ \A i \in DOMAIN ms : /\ BhSet(ms, w, q, v)[i].opened = ms[i].opened
                                  /\ FileSet(ms, w, q, v)[i].opened = ms[i].opened
  <1>1. PICK n : n = ms[w].tree[q]
    OBVIOUS
  <1>2. ASSUME NEW inode, IsInode(n) => IsInode(inode) /\ inode.kind = n.kind
        PROVE  /\ Grows(ms, InodeSet(ms, w, q, inode))
               /\ \A i \in DOMAIN ms : InodeSet(ms, w, q, inode)[i].opened = ms[i].opened
    <2>1. IsInode(ms[w].tree[q]) => IsInode(inode) /\ inode.kind = ms[w].tree[q].kind
      BY <1>1, <1>2
    <2>2. Grows(ms, InodeSet(ms, w, q, inode))
      BY <2>1, InodeGrows
    <2>3. \A i \in DOMAIN ms :
            /\ InodeSet(ms, w, q, inode)[i].opened = ms[i].opened
            /\ InodeSet(ms, w, q, inode)[i].tree =
                 IF i = w THEN [ms[i].tree EXCEPT ![q] = inode] ELSE ms[i].tree
      BY <2>1, InodeGrows
    <2> QED
      BY <2>2, <2>3
  <1>3. ASSUME IsInode(n)
        PROVE  /\ IsInode([n EXCEPT !.size = v]) /\ [n EXCEPT !.size = v].kind = n.kind
               /\ IsInode([n EXCEPT !.bh = v]) /\ [n EXCEPT !.bh = v].kind = n.kind
               /\ IsInode([n EXCEPT !.file = v]) /\ [n EXCEPT !.file = v].kind = n.kind
    BY <1>3, FieldsReplaced
  <1>4. /\ SizeSet(ms, w, q, v) = InodeSet(ms, w, q, [n EXCEPT !.size = v])
        /\ BhSet(ms, w, q, v) = InodeSet(ms, w, q, [n EXCEPT !.bh = v])
        /\ FileSet(ms, w, q, v) = InodeSet(ms, w, q, [n EXCEPT !.file = v])
    BY <1>1 DEF SizeSet, BhSet, FileSet, InodeSet
  <1>5. PICK a, b, c : a = [n EXCEPT !.size = v] /\ b = [n EXCEPT !.bh = v] /\ c = [n EXCEPT !.file = v]
    OBVIOUS
  <1>6. \A x \in {a, b, c} : IsInode(n) => IsInode(x) /\ x.kind = n.kind
    BY <1>3, <1>5
  <1>7. \A x \in {a, b, c} :
          /\ Grows(ms, InodeSet(ms, w, q, x))
          /\ \A i \in DOMAIN ms : InodeSet(ms, w, q, x)[i].opened = ms[i].opened
    BY <1>2, <1>6
  <1> QED
    BY <1>4, <1>5, <1>7

LEMMA MountsAreMounts ==
  ASSUME MountsInv
  PROVE  mounts = [i \in DOMAIN mounts |-> mounts[i]] /\ \A i \in DOMAIN mounts : IsMount(mounts[i])
  BY GrowsItself DEF Grows, MountsInv

LEMMA WriteSafe ==
  ASSUME MountsInv, FilesInv, NEW s, NEW end, Write(s, end)
  PROVE  Safe
  <1>1. fhs' = fhs
    BY DEF Write
  <1>2. CASE mounts' = mounts
    BY <1>1, <1>2, MountsAlone
  <1>3. ASSUME NEW w, NEW q, mounts' = [mounts EXCEPT ![w].tree[q].size = Grow(@, end)]
        PROVE  Safe
    <2>1. PICK v : mounts' = SizeSet(mounts, w, q, v)
      BY <1>3 DEF SizeSet
    <2>2. Grows(mounts, mounts')
      BY <2>1, MountsAreMounts, FieldGrows
    <2> QED
      BY <1>1, <2>2, GrowsStep
  <1> QED
    BY <1>2, <1>3 DEF Write

LEMMA OpenCreatSafe ==
  ASSUME MountsInv, FilesInv, DOMAIN fhs \subseteq Slots, NEW path, NEW flags, OpenCreat(path, flags)
  PROVE  Safe
  <1>1. PICK b, file, dentry :
          /\ mounts' = Opened(mounts, b, file)
          /\ FhAlloc(dentry) /\ dentry[1] = "orphan"
    <2>1. <<"orphan", NewOrphan>>[1] = "orphan"
      OBVIOUS
    <2> QED
      BY <2>1 DEF OpenCreat
  <1>2. Grows(mounts, mounts')
    BY <1>1, MountsAreMounts, OpenedGrows
  <1>3. \A s \in DOMAIN fhs' : (s \in DOMAIN fhs /\ fhs'[s] = fhs[s]) \/ fhs'[s] = dentry
    BY <1>1, SlotTaken
  <1> QED
    BY <1>1, <1>2, <1>3, GrowsStep

\* The walk ends at a dentry of the mount's tree.
LEMMA TargetThere ==
  ASSUME MountsInv, NEW path \in Paths, ResolveError(path) = "OK"
  PROVE  /\ WalkMount(path) \in DOMAIN mounts
         /\ Walk(path) \in DOMAIN Resolved(path)[WalkMount(path)].tree
  <1>1. PICK w : w = WalkMount(path)
    OBVIOUS
  <1>2. Len(mounts) \in Nat /\ DOMAIN mounts = 1..Len(mounts) /\ Len(Mps) = Len(mounts)
    BY MountList DEF Mps
  <1>3. w \in DOMAIN mounts
    <2>1. w # 0
      BY <1>1 DEF ResolveError
    <2>2. w \in 0..Len(Mps)
      BY <1>1, <1>2, BestInTable DEF WalkMount, Best
    <2> QED
      BY <1>2, <2>1, <2>2
  <1>4. PICK names \in Seq(STRING \cup {Empty}) : names = Walk(path)
    <2>1. Walk(path) = WalkNames(NormalizePath(path), mounts[w].mp)
      BY <1>1, <1>3 DEF Walk, NormOf, Mps
    <2>2. Len(mounts[w].mp) \in Nat
      <3>1. mounts[w].mp \in Mountpoints \cup {Root} /\ Len(Root) \in Nat
        BY <1>3 DEF MountsInv, IsMount, Root
      <3> QED
        BY <3>1, PathsAssumption
    <2>3. path \in Seq(STRING)
      BY PathsAssumption
    <2>4. NormalizePath(path) \in Seq(STRING \cup {Empty})
      BY <2>3, NormalForm
    <2> QED
      BY <2>1, <2>2, <2>4, WalkTyped
  <1>5. names \in Prefixes(names)
    <2>1. SubSeq(names, 1, Len(names)) = names /\ Len(names) \in 0..Len(names)
      BY SubSeqFull
    <2> QED
      BY <2>1 DEF Prefixes
  <1>6. PICK tree : tree = mounts[w].tree /\ IsTree(tree)
    BY <1>3 DEF MountsInv, IsMount
  <1>7. Resolved(path)[w].tree = Grown(tree, names)
    <2>1. Resolved(path)[w] = [mounts[w] EXCEPT !.tree = Grown(tree, names)]
      BY <1>1, <1>2, <1>3, <1>4, <1>6, MountsAreMounts DEF Resolved
    <2>2. "tree" \in DOMAIN mounts[w]
      BY <1>3 DEF MountsInv, IsMount
    <2> QED
      BY <2>1, <2>2
  <1>8. names \in DOMAIN Grown(tree, names)
    <2>1. DOMAIN Grown(tree, names) = DOMAIN tree \cup Prefixes(names)
      BY <1>6, GrownTree
    <2> QED
      BY <1>5, <2>1
  <1> QED
    BY <1>1, <1>3, <1>4, <1>7, <1>8

\* What an open that reaches the backend makes of the mounts.
OpenedBehind(r, w, q, b, file, n) ==
  [Opened(r, b, file) EXCEPT ![w].tree[q].bh = n, ![w].tree[q].file = file]

LEMMA OpenedBehindGrows ==
  ASSUME NEW ms, NEW r, Grows(ms, r), NEW w, NEW q, NEW b, NEW file, NEW n
  PROVE  Grows(r, OpenedBehind(r, w, q, b, file, n))
  <1>1. PICK o : o = Opened(r, b, file)
    OBVIOUS
  <1>2. PICK p : p = BhSet(o, w, q, n)
    OBVIOUS
  <1>3. PICK ns : ns = OpenedBehind(r, w, q, b, file, n) /\ ns = FileSet(p, w, q, file)
    BY <1>1, <1>2 DEF OpenedBehind, BhSet, FileSet
  <1>4. r = [i \in DOMAIN r |-> r[i]] /\ \A i \in DOMAIN r : IsMount(r[i])
    BY DEF Grows, Keeps, TreeKeeps
  <1>5. Grows(r, o)
    BY <1>1, <1>4, OpenedGrows
  <1>6. o = [i \in DOMAIN o |-> o[i]] /\ \A i \in DOMAIN o : IsMount(o[i])
    BY <1>5 DEF Grows, Keeps, TreeKeeps
  <1>7. Grows(o, p)
    BY <1>2, <1>6, FieldGrows
  <1>8. p = [i \in DOMAIN p |-> p[i]] /\ \A i \in DOMAIN p : IsMount(p[i])
    BY <1>7 DEF Grows, Keeps, TreeKeeps
  <1>9. Grows(p, ns)
    BY <1>3, <1>8, FieldGrows
  <1> QED
    BY <1>3, <1>5, <1>7, <1>9, GrowsTwice

\* An open of a dentry in a tree leaves the list of mounts as it was.
LEMMA OpenTreeGrows ==
  ASSUME MountsInv, NEW path, NEW flags, OpenTree(path, flags)
  PROVE  Grows(mounts, mounts')
  <1>1. PICK r : r = Resolved(path)
    OBVIOUS
  <1>2. Grows(mounts, r)
    BY <1>1, ResolvedGrows
  <1>3. CASE mounts' = r
    BY <1>2, <1>3
  <1>4. ASSUME NEW w, NEW q, NEW b, NEW file, NEW n, mounts' = OpenedBehind(r, w, q, b, file, n)
        PROVE  Grows(mounts, mounts')
    <2>1. Grows(r, mounts')
      BY <1>2, <1>4, OpenedBehindGrows
    <2> QED
      BY <1>2, <2>1, GrowsTwice
  <1>5. \/ mounts' = Resolved(path)
        \/ mounts' = OpenedBehind(Resolved(path), WalkMount(path), Walk(path),
                                  Best(path), HostFile(path), NextHandle(Best(path)))
    BY DEF OpenTree, OpenedBehind
  <1> QED
    BY <1>1, <1>3, <1>4, <1>5

\* A handle of a tree's file names one: a directory is refused before there is a handle.
LEMMA OpenTreeSafe ==
  ASSUME MountsInv, FilesInv, DOMAIN fhs \subseteq Slots, NEW path \in Paths, NEW flags, OpenTree(path, flags)
  PROVE  Safe
  <1>1. PICK w, q, r : w = WalkMount(path) /\ q = Walk(path) /\ r = Resolved(path)
    OBVIOUS
  <1>2. Grows(mounts, r)
    BY <1>1, ResolvedGrows
  <1>3. w \in DOMAIN mounts /\ q \in DOMAIN r[w].tree
    BY <1>1, TargetThere DEF OpenTree
  <1>4. CASE mounts' = r /\ fhs' = fhs
    BY <1>2, <1>4, GrowsStep
  <1>5. ASSUME TreeOpenError(path) = "OK", Grows(r, mounts'), FhAlloc(<<"tree", mounts[w].id, q>>)
        PROVE  Safe
    <2>1. Grows(mounts, mounts')
      BY <1>2, <1>5, GrowsTwice
    <2>2. r[w].tree[q].kind = "reg"
      <3>1. r[w].tree[q].kind # "dir"
        BY <1>1, <1>5 DEF TreeOpenError, Target
      <3>2. IsInode(r[w].tree[q])
        BY <1>2, <1>3 DEF Grows, Keeps, TreeKeeps, IsMount, IsTree
      <3> QED
        BY <3>1, <3>2 DEF IsInode
    <2>3. q \in DOMAIN mounts'[w].tree /\ mounts'[w].tree[q].kind = "reg"
      BY <1>2, <1>3, <1>5, <2>2 DEF Grows, Keeps, TreeKeeps
    <2>4. PICK dentry : dentry = <<"tree", mounts[w].id, q>>
      OBVIOUS
    <2>5. \A s \in DOMAIN fhs' : (s \in DOMAIN fhs /\ fhs'[s] = fhs[s]) \/ fhs'[s] = dentry
      BY <1>5, <2>4, SlotTaken
    <2>6. dentry[2] = mounts[w].id /\ dentry[3] = q
      BY <2>4
    <2> QED
      BY <1>3, <2>1, <2>3, <2>5, <2>6, GrowsStep
  <1>6. CASE TreeOpenError(path) = "OK" /\ mounts' = r /\ FhAlloc(<<"tree", mounts[w].id, q>>)
    <2>1. Grows(r, r)
      BY <1>2 DEF Grows, Keeps, TreeKeeps
    <2> QED
      BY <1>5, <1>6, <2>1
  <1>7. ASSUME NEW b, NEW file, NEW n, TreeOpenError(path) = "OK",
               mounts' = OpenedBehind(r, w, q, b, file, n), FhAlloc(<<"tree", mounts[w].id, q>>)
        PROVE  Safe
    <2>1. Grows(r, mounts')
      BY <1>2, <1>7, OpenedBehindGrows
    <2> QED
      BY <1>5, <1>7, <2>1
  <1>8. \/ mounts' = Resolved(path) /\ fhs' = fhs
        \/ /\ TreeOpenError(path) = "OK"
           /\ FhAlloc(<<"tree", mounts[WalkMount(path)].id, Walk(path)>>)
           /\ \/ mounts' = Resolved(path)
              \/ mounts' = OpenedBehind(Resolved(path), WalkMount(path), Walk(path),
                                        Best(path), HostFile(path), NextHandle(Best(path)))
    BY DEF OpenTree, OpenedBehind
  <1> QED
    BY <1>1, <1>4, <1>6, <1>7, <1>8

----------------------------------------------------------------------------
\* The theorems.

CoreInv == KeepersInv /\ MountsInv /\ FilesInv

LEMMA StepIsSafe ==
  ASSUME CoreInv, [Next]_vars
  PROVE  Safe
  <1>1. MountsInv /\ FilesInv /\ DOMAIN fhs \subseteq Slots
    BY DEF CoreInv, KeepersInv
  <1>2. CASE UNCHANGED <<mounts, fhs>>
    BY <1>1, <1>2, MountsAlone
  <1>3. CASE VfsInit
    BY <1>1, <1>3, InitSafe
  <1>4. CASE Shutdown
    BY <1>1, <1>4, ShutdownSafe
  <1>5. ASSUME NEW mp \in Mountpoints, NEW posix \in BOOLEAN, Mount(mp, posix) PROVE Safe
    BY <1>1, <1>5, MountSafe
  <1>6. ASSUME NEW mp \in Mountpoints, Unmount(mp) PROVE Safe
    BY <1>1, <1>6, UnmountSafe
  <1>7. ASSUME NEW path \in Paths, Resolve(path) \/ Stat(path) \/ Readdir(path) PROVE Safe
    BY <1>1, <1>7, ResolveSafe DEF Stat, Readdir
  <1>8. ASSUME NEW path \in Paths, NEW flags \in Flags, Open(path, flags) PROVE Safe
    BY <1>1, <1>8, OpenCreatSafe, OpenTreeSafe DEF Open
  <1>9. ASSUME NEW s \in Slots, Close(s) \/ ReadsFreed(s) PROVE Safe
    BY <1>1, <1>2, <1>9, CloseSafe DEF ReadsFreed
  <1>10. ASSUME NEW s \in Slots, NEW end \in 1..MaxSize, Write(s, end) PROVE Safe
    BY <1>1, <1>10, WriteSafe
  <1> QED
    BY <1>2, <1>3, <1>4, <1>5, <1>6, <1>7, <1>8, <1>9, <1>10 DEF Next, vars

\* The mounts, the trees below them and the handles fit together, after any sequence of
\* calls.
THEOREM CoreInvariance ==
  Spec => []CoreInv
  <1>1. Init => MountsInv /\ FilesInv
    <2> SUFFICES ASSUME Init PROVE MountsInv /\ FilesInv
      OBVIOUS
    <2>1. mounts = <<>> /\ DOMAIN mounts = {} /\ Len(mounts) = 0 /\ DOMAIN fhs = {}
      BY DEF Init
    <2>2. mounts \in Seq({mounts[i] : i \in DOMAIN mounts})
      BY <2>1, EmptySeq
    <2> QED
      BY <2>1, <2>2, BoundsAssumption DEF MountsInv, FilesInv
  <1>2. KeepersInv /\ (MountsInv /\ FilesInv) /\ [Next]_vars => (MountsInv /\ FilesInv)'
    BY StepIsSafe DEF CoreInv, Safe
  <1> QED
    BY <1>1, <1>2, KeepersInvariance, PTL DEF Spec, CoreInv

\* Every handle names a dentry that is still there, a regular file's, unless the mount it
\* was opened in is gone.
THEOREM HandlesLiveAlways ==
  Spec => []HandlesLive
  <1>1. ASSUME CoreInv PROVE HandlesLive
    <2> SUFFICES ASSUME NEW s \in DOMAIN fhs
                 PROVE  IF fhs[s][1] = "orphan" THEN fhs[s][2] \in DOMAIN orphans
                        ELSE Dangling(s) \/ \E i \in DOMAIN mounts :
                               /\ mounts[i].id = fhs[s][2]
                               /\ fhs[s][3] \in DOMAIN mounts[i].tree
                               /\ mounts[i].tree[fhs[s][3]].kind = "reg"
      BY DEF HandlesLive
    <2>1. CASE fhs[s][1] = "orphan"
      BY <1>1, <2>1 DEF CoreInv, KeepersInv
    <2>2. CASE fhs[s][1] # "orphan"
      <3>1. fhs[s][1] = "tree"
        BY <1>1, <2>2 DEF CoreInv, KeepersInv
      <3>2. CASE Dangling(s)
        BY <2>2, <3>2
      <3>3. CASE \E i \in DOMAIN mounts : mounts[i].id = fhs[s][2]
        BY <1>1, <2>2, <3>1, <3>3 DEF CoreInv, FilesInv
      <3> QED
        BY <3>1, <3>2, <3>3 DEF Dangling, Live
    <2> QED
      BY <2>1, <2>2
  <1> QED
    BY <1>1, CoreInvariance, PTL

\* As long as its mount stays, a dentry stays and keeps its type.
THEOREM TreesOnlyGrowAlways ==
  Spec => TreesOnlyGrow
  <1>1. CoreInv /\ [Next]_vars => [TreesKept]_vars
    BY StepIsSafe DEF Safe
  <1> QED
    BY <1>1, CoreInvariance, PTL DEF Spec, TreesOnlyGrow, TreesKept
----------------------------------------------------------------------------
\* Types.

AreShaped(ms) == \A i \in DOMAIN ms : IsShaped(ms[i])

\* The inodes that the code makes.
LEMMA MadeInodes ==
  /\ Dir \in Inodes /\ Reg(0, None) \in Inodes
  /\ \A bh \in 0..MaxOpened, file \in Files : Reg(bh, file) \in Inodes
  <1>1. 0 \in 0..MaxSize /\ 0 \in 0..MaxOpened
    BY BoundsAssumption
  <1> QED
    BY <1>1 DEF Dir, Reg, Inodes, None

LEMMA FieldsTyped ==
  ASSUME NEW n \in Inodes
  PROVE  /\ \A v \in 0..MaxSize : [n EXCEPT !.size = v] \in Inodes
         /\ \A v \in 0..MaxOpened : [n EXCEPT !.bh = v] \in Inodes
         /\ \A v \in Files : [n EXCEPT !.file = v] \in Inodes
  BY DEF Inodes

\* Another inode of the same kind in a tree.
LEMMA InodeShaped ==
  ASSUME NEW ms, ms = [i \in DOMAIN ms |-> ms[i]], \A i \in DOMAIN ms : IsMount(ms[i]), AreShaped(ms),
         NEW w, NEW q, NEW inode,
         IsInode(ms[w].tree[q]) => IsInode(inode) /\ inode.kind = ms[w].tree[q].kind,
         w \in DOMAIN ms /\ q \in DOMAIN ms[w].tree => inode \in Inodes
  PROVE  AreShaped(InodeSet(ms, w, q, inode))
  <1>1. PICK ns : ns = InodeSet(ms, w, q, inode)
    OBVIOUS
  <1>2. /\ Grows(ms, ns)
        /\ \A i \in DOMAIN ms :
             /\ ns[i].opened = ms[i].opened
             /\ ns[i].tree = IF i = w THEN [ms[i].tree EXCEPT ![q] = inode] ELSE ms[i].tree
    BY <1>1, InodeGrows
  <1>3. ASSUME NEW i \in DOMAIN ms
        PROVE  IsShaped(ns[i])
    <2>1. IsShaped(ms[i]) /\ ns[i].posix = ms[i].posix /\ ns[i].mp = ms[i].mp
      BY <1>2 DEF AreShaped, Grows, Keeps, TreeKeeps
    <2>2. \A r \in DOMAIN ns[i].tree : ns[i].tree[r] \in Inodes
      BY <1>2, <2>1 DEF IsShaped
    <2> QED
      BY <1>2, <2>1, <2>2 DEF IsShaped
  <1> QED
    BY <1>1, <1>2, <1>3 DEF AreShaped, Grows

\* Another value in a field of an inode.
LEMMA FieldShaped ==
  ASSUME NEW ms, ms = [i \in DOMAIN ms |-> ms[i]], \A i \in DOMAIN ms : IsMount(ms[i]), AreShaped(ms),
         NEW w, NEW q, NEW v
  PROVE  /\ v \in Files => AreShaped(FileSet(ms, w, q, v))
         /\ v \in 0..MaxOpened => AreShaped(BhSet(ms, w, q, v))
         /\ (w \in DOMAIN ms /\ q \in DOMAIN ms[w].tree => v \in 0..MaxSize) =>
              AreShaped(SizeSet(ms, w, q, v))
  <1>1. PICK n : n = ms[w].tree[q]
    OBVIOUS
  <1>2. ASSUME NEW inode, IsInode(n) => IsInode(inode) /\ inode.kind = n.kind,
               w \in DOMAIN ms /\ q \in DOMAIN ms[w].tree => inode \in Inodes
        PROVE  AreShaped(InodeSet(ms, w, q, inode))
    BY <1>1, <1>2, InodeShaped
  <1>3. ASSUME IsInode(n)
        PROVE  /\ IsInode([n EXCEPT !.size = v]) /\ [n EXCEPT !.size = v].kind = n.kind
               /\ IsInode([n EXCEPT !.bh = v]) /\ [n EXCEPT !.bh = v].kind = n.kind
               /\ IsInode([n EXCEPT !.file = v]) /\ [n EXCEPT !.file = v].kind = n.kind
    BY <1>3, FieldsReplaced
  <1>4. /\ SizeSet(ms, w, q, v) = InodeSet(ms, w, q, [n EXCEPT !.size = v])
        /\ BhSet(ms, w, q, v) = InodeSet(ms, w, q, [n EXCEPT !.bh = v])
        /\ FileSet(ms, w, q, v) = InodeSet(ms, w, q, [n EXCEPT !.file = v])
    BY <1>1 DEF SizeSet, BhSet, FileSet, InodeSet
  <1>5. w \in DOMAIN ms /\ q \in DOMAIN ms[w].tree => n \in Inodes
    BY <1>1 DEF AreShaped, IsShaped
  <1>6. ASSUME v \in Files PROVE AreShaped(FileSet(ms, w, q, v))
    <2>1. PICK c : c = [n EXCEPT !.file = v]
      OBVIOUS
    <2>2. w \in DOMAIN ms /\ q \in DOMAIN ms[w].tree => c \in Inodes
      BY <1>5, <1>6, <2>1, FieldsTyped
    <2>3. FileSet(ms, w, q, v) = InodeSet(ms, w, q, c)
      BY <1>4, <2>1
    <2>4. IsInode(n) => IsInode(c) /\ c.kind = n.kind
      BY <1>3, <2>1
    <2>5. AreShaped(InodeSet(ms, w, q, c))
      BY <1>2, <2>2, <2>4
    <2> QED
      BY <2>3, <2>5
  <1>7. ASSUME v \in 0..MaxOpened PROVE AreShaped(BhSet(ms, w, q, v))
    <2>1. PICK c : c = [n EXCEPT !.bh = v]
      OBVIOUS
    <2>2. w \in DOMAIN ms /\ q \in DOMAIN ms[w].tree => c \in Inodes
      BY <1>5, <1>7, <2>1, FieldsTyped
    <2>3. BhSet(ms, w, q, v) = InodeSet(ms, w, q, c)
      BY <1>4, <2>1
    <2>4. IsInode(n) => IsInode(c) /\ c.kind = n.kind
      BY <1>3, <2>1
    <2>5. AreShaped(InodeSet(ms, w, q, c))
      BY <1>2, <2>2, <2>4
    <2> QED
      BY <2>3, <2>5
  <1>8. ASSUME w \in DOMAIN ms /\ q \in DOMAIN ms[w].tree => v \in 0..MaxSize
        PROVE  AreShaped(SizeSet(ms, w, q, v))
    <2>1. PICK c : c = [n EXCEPT !.size = v]
      OBVIOUS
    <2>2. w \in DOMAIN ms /\ q \in DOMAIN ms[w].tree => c \in Inodes
      BY <1>5, <1>8, <2>1, FieldsTyped
    <2>3. SizeSet(ms, w, q, v) = InodeSet(ms, w, q, c)
      BY <1>4, <2>1
    <2>4. IsInode(n) => IsInode(c) /\ c.kind = n.kind
      BY <1>3, <2>1
    <2>5. AreShaped(InodeSet(ms, w, q, c))
      BY <1>2, <2>2, <2>4
    <2> QED
      BY <2>3, <2>5
  <1> QED
    BY <1>6, <1>7, <1>8

\* What a walk adds are directories.
LEMMA ResolvedShaped ==
  ASSUME MountsInv, AreShaped(mounts), NEW path
  PROVE  AreShaped(Resolved(path))
  <1>1. PICK r : r = Resolved(path)
    OBVIOUS
  <1>2. /\ Grows(mounts, r)
        /\ \A i \in DOMAIN mounts :
             /\ r[i].opened = mounts[i].opened
             /\ r[i].tree = IF i = WalkMount(path) THEN Grown(mounts[i].tree, Walk(path)) ELSE mounts[i].tree
    BY <1>1, ResolvedGrows
  <1>3. ASSUME NEW i \in DOMAIN mounts
        PROVE  IsShaped(r[i])
    <2>1. IsShaped(mounts[i]) /\ r[i].posix = mounts[i].posix /\ r[i].mp = mounts[i].mp
      BY <1>2 DEF AreShaped, Grows, Keeps, TreeKeeps
    <2>2. \A q \in DOMAIN r[i].tree : r[i].tree[q] \in Inodes
      <3>1. CASE i # WalkMount(path)
        BY <1>2, <2>1, <3>1 DEF IsShaped
      <3>2. CASE i = WalkMount(path)
        <4>1. PICK tree, names : tree = mounts[i].tree /\ names = Walk(path)
          OBVIOUS
        <4>2. IsTree(tree)
          BY <4>1 DEF MountsInv, IsMount
        <4>3. /\ DOMAIN Grown(tree, names) = DOMAIN tree \cup Prefixes(names)
              /\ \A q \in DOMAIN tree : Grown(tree, names)[q] = tree[q]
              /\ \A q \in Prefixes(names) \ DOMAIN tree : Grown(tree, names)[q] = Dir
          BY <4>2, GrownTree
        <4>4. \A q \in DOMAIN Grown(tree, names) :
                (q \in DOMAIN tree /\ Grown(tree, names)[q] = tree[q]) \/ Grown(tree, names)[q] = Dir
          BY <4>3
        <4>5. r[i].tree = Grown(tree, names)
          BY <1>2, <3>2, <4>1
        <4> QED
          BY <2>1, <4>1, <4>4, <4>5, MadeInodes DEF IsShaped
      <3> QED
        BY <3>1, <3>2
    <2> QED
      BY <1>2, <2>1, <2>2 DEF IsShaped
  <1> QED
    BY <1>1, <1>2, <1>3 DEF AreShaped, Grows

\* One file more is open in a backend that may open one more.
LEMMA OpenedShaped ==
  ASSUME NEW ms, ms = [i \in DOMAIN ms |-> ms[i]], \A i \in DOMAIN ms : IsMount(ms[i]), AreShaped(ms),
         NEW b \in DOMAIN ms, Len(ms[b].opened) < MaxOpened, NEW file \in Files
  PROVE  AreShaped(Opened(ms, b, file))
  <1>1. PICK ns : ns = Opened(ms, b, file)
    OBVIOUS
  <1>2. /\ Grows(ms, ns)
        /\ \A i \in DOMAIN ms :
             /\ ns[i].tree = ms[i].tree
             /\ ns[i].opened = IF i = b THEN Append(ms[i].opened, file) ELSE ms[i].opened
    BY <1>1, OpenedGrows
  <1>3. ASSUME NEW i \in DOMAIN ms
        PROVE  IsShaped(ns[i])
    <2>1. IsShaped(ms[i]) /\ ns[i].posix = ms[i].posix /\ ns[i].mp = ms[i].mp
      BY <1>2 DEF AreShaped, Grows, Keeps, TreeKeeps
    <2>2. PICK o \in Seq(Files) : o = ms[i].opened
      BY <2>1 DEF IsShaped
    <2>3. ns[i].opened \in Seq(Files) /\ Len(ns[i].opened) <= MaxOpened
      <3>1. CASE i # b
        BY <1>2, <2>1, <3>1 DEF IsShaped
      <3>2. CASE i = b
        <4>1. Append(o, file) \in Seq(Files) /\ Len(Append(o, file)) = Len(o) + 1
          OBVIOUS
        <4>2. Len(o) < MaxOpened /\ Len(o) \in Nat /\ MaxOpened \in Nat
          BY <2>2, <3>2, BoundsAssumption
        <4>3. ns[i].opened = Append(o, file)
          BY <1>2, <2>2, <3>2
        <4> QED
          BY <4>1, <4>2, <4>3
      <3> QED
        BY <3>1, <3>2
    <2> QED
      BY <1>2, <2>1, <2>3 DEF IsShaped
  <1> QED
    BY <1>1, <1>2, <1>3 DEF AreShaped, Grows

\* The file that a backend is asked for.
LEMMA AskedFor ==
  ASSUME MountsInv, AreShaped(mounts), NEW path \in Paths, HasBackend(path)
  PROVE  /\ Best(path) \in DOMAIN mounts /\ mounts[Best(path)].posix
         /\ HostFile(path) \in Files
  <1>1. Len(mounts) \in Nat /\ DOMAIN mounts = 1..Len(mounts) /\ Len(Mps) = Len(mounts)
    BY MountList DEF Mps
  <1>2. PICK b : b = Best(path)
    OBVIOUS
  <1>3. b \in DOMAIN mounts /\ mounts[b].posix
    <2>1. b \in 0..Len(Mps)
      BY <1>1, <1>2, BestInTable DEF Best
    <2> QED
      BY <1>1, <1>2, <2>1 DEF HasBackend
  <1>4. Mps[b] = mounts[b].mp /\ mounts[b].mp \in Mountpoints
    BY <1>3 DEF Mps, AreShaped, IsShaped
  <1> QED
    BY <1>2, <1>3, <1>4 DEF HostFile, Files
OrphansShaped(os) == \A o \in DOMAIN os : os[o] \in [inode : Inodes, mount : Ids]

\* A mount at the head of the list, with no file open and a tree of inodes as they are made.
LEMMA NewMountShaped ==
  ASSUME MountsInv, AreShaped(mounts), NEW mp, NEW posix \in BOOLEAN, NEW tree,
         posix => mp \in Mountpoints, \A q \in DOMAIN tree : tree[q] \in Inodes,
         mounts' = NewMount(mp, posix, tree)
  PROVE  AreShaped(mounts')
  <1>1. PICK m : m = FreshMount(mp, posix, tree) /\ mounts'[1] = m
    BY NewMountList
  <1>2. \A i \in DOMAIN mounts' : i # 1 => i - 1 \in DOMAIN mounts /\ mounts'[i] = mounts[i - 1]
    BY NewMountList
  <1>3. /\ m.mp = mp /\ m.posix = posix /\ m.opened = <<>> /\ m.tree = tree
    BY <1>1 DEF FreshMount
  <1>4. <<>> \in Seq(Files) /\ Len(<<>>) <= MaxOpened
    BY EmptySeq, BoundsAssumption
  <1>5. IsShaped(m)
    BY <1>3, <1>4 DEF IsShaped
  <1> QED
    BY <1>1, <1>2, <1>5 DEF AreShaped

LEMMA WriteShaped ==
  ASSUME CoreInv, AreShaped(mounts), OrphansShaped(orphans),
         NEW s, NEW end \in 1..MaxSize, Write(s, end)
  PROVE  AreShaped(mounts') /\ OrphansShaped(orphans')
  <1>1. \A size \in 0..MaxSize : Grow(size, end) \in 0..MaxSize
    BY BoundsAssumption DEF Grow
  <1>2. MountsInv
    BY DEF CoreInv
  <1>3. ASSUME NEW w, NEW q, mounts' = [mounts EXCEPT ![w].tree[q].size = Grow(@, end)]
        PROVE  AreShaped(mounts')
    <2>1. PICK v : v = Grow(mounts[w].tree[q].size, end)
      OBVIOUS
    <2>2. mounts' = SizeSet(mounts, w, q, v)
      BY <1>3, <2>1 DEF SizeSet
    <2>3. w \in DOMAIN mounts /\ q \in DOMAIN mounts[w].tree => v \in 0..MaxSize
      BY <1>1, <2>1 DEF AreShaped, IsShaped, Inodes
    <2> QED
      BY <1>2, <2>2, <2>3, MountsAreMounts, FieldShaped
  <1>4. ASSUME NEW k, orphans' = [orphans EXCEPT ![k].inode.size = Grow(@, end)]
        PROVE  OrphansShaped(orphans')
    <2>1. DOMAIN orphans' = DOMAIN orphans /\ \A o \in DOMAIN orphans : o # k => orphans'[o] = orphans[o]
      BY <1>4
    <2>2. k \in DOMAIN orphans => orphans'[k] \in [inode : Inodes, mount : Ids]
      <3> SUFFICES ASSUME k \in DOMAIN orphans PROVE orphans'[k] \in [inode : Inodes, mount : Ids]
        OBVIOUS
      <3>1. PICK r \in [inode : Inodes, mount : Ids] : r = orphans[k]
        BY DEF OrphansShaped
      <3>2. PICK n \in Inodes : n = r.inode
        BY <3>1
      <3>3. PICK v \in 0..MaxSize : v = Grow(n.size, end)
        BY <1>1, <3>2 DEF Inodes
      <3>4. PICK new \in Inodes : new = [n EXCEPT !.size = v]
        BY FieldsTyped
      <3>5. orphans'[k] = [r EXCEPT !.inode = new]
        BY <1>4, <3>1, <3>2, <3>3, <3>4
      <3> QED
        BY <3>5
    <2> QED
      BY <2>1, <2>2 DEF OrphansShaped
  <1> QED
    BY <1>3, <1>4 DEF Write

LEMMA OpenCreatShaped ==
  ASSUME CoreInv, AreShaped(mounts), OrphansShaped(orphans),
         NEW path \in Paths, NEW flags, OpenCreat(path, flags)
  PROVE  AreShaped(mounts') /\ OrphansShaped(orphans')
  <1>1. MountsInv
    BY DEF CoreInv
  <1>2. PICK b, file : b = Best(path) /\ file = HostFile(path)
    OBVIOUS
  <1>3. b \in DOMAIN mounts /\ file \in Files /\ Len(mounts[b].opened) < MaxOpened
    BY <1>1, <1>2, AskedFor DEF OpenCreat
  <1>4. mounts' = Opened(mounts, b, file)
    BY <1>2 DEF OpenCreat
  <1>5. AreShaped(mounts')
    BY <1>1, <1>3, <1>4, MountsAreMounts, OpenedShaped
  <1>6. PICK n \in 0..MaxOpened : n = NextHandle(b)
    <2>1. Len(mounts[b].opened) \in Nat /\ MaxOpened \in Nat
      BY <1>3, BoundsAssumption DEF AreShaped, IsShaped
    <2> QED
      BY <1>3, <2>1 DEF NextHandle
  <1>7. PICK new \in [inode : Inodes, mount : Ids] : new = [inode |-> Reg(n, file), mount |-> mounts[b].id]
    <2>1. Reg(n, file) \in Inodes
      BY <1>3, <1>6, MadeInodes
    <2>2. mounts[b].id \in Ids
      BY <1>1, <1>3 DEF MountsInv, IsMount
    <2> QED
      BY <2>1, <2>2
  <1>8. PICK o : orphans' = With(orphans, o, new)
    BY <1>2, <1>6, <1>7 DEF OpenCreat
  <1>9. OrphansShaped(orphans')
    BY <1>8 DEF With, OrphansShaped
  <1> QED
    BY <1>5, <1>9

LEMMA OpenTreeShaped ==
  ASSUME CoreInv, AreShaped(mounts), NEW path \in Paths, NEW flags, OpenTree(path, flags)
  PROVE  AreShaped(mounts')
  <1>1. MountsInv
    BY DEF CoreInv
  <1>2. PICK w, q, r, b, file, n :
          /\ w = WalkMount(path) /\ q = Walk(path) /\ r = Resolved(path)
          /\ b = Best(path) /\ file = HostFile(path) /\ n = NextHandle(b)
    OBVIOUS
  <1>3. AreShaped(r) /\ Grows(mounts, r) /\ \A i \in DOMAIN mounts : r[i].opened = mounts[i].opened
    BY <1>1, <1>2, ResolvedShaped, ResolvedGrows
  <1>4. \/ mounts' = r
        \/ /\ HasBackend(path) /\ Len(mounts[b].opened) < MaxOpened
           /\ mounts' = OpenedBehind(r, w, q, b, file, n)
    BY <1>2 DEF OpenTree, OpenedBehind, NeedsBackend
  <1>5. ASSUME HasBackend(path), Len(mounts[b].opened) < MaxOpened,
               mounts' = OpenedBehind(r, w, q, b, file, n)
        PROVE  AreShaped(mounts')
    <2>1. b \in DOMAIN mounts /\ file \in Files
      BY <1>1, <1>2, <1>5, AskedFor
    <2>2. n \in 0..MaxOpened
      <3>1. Len(mounts[b].opened) \in Nat /\ MaxOpened \in Nat
        BY <2>1, BoundsAssumption DEF AreShaped, IsShaped
      <3> QED
        BY <1>2, <1>5, <3>1 DEF NextHandle
    <2>3. PICK o, p : o = Opened(r, b, file) /\ p = BhSet(o, w, q, n)
      OBVIOUS
    <2>4. mounts' = FileSet(p, w, q, file)
      BY <1>5, <2>3 DEF OpenedBehind, BhSet, FileSet
    <2>5. r = [i \in DOMAIN r |-> r[i]] /\ \A i \in DOMAIN r : IsMount(r[i])
      BY <1>3 DEF Grows, Keeps, TreeKeeps
    <2>6. b \in DOMAIN r /\ Len(r[b].opened) < MaxOpened
      BY <1>3, <1>5, <2>1 DEF Grows
    <2>7. Grows(r, o) /\ AreShaped(o)
      BY <1>3, <2>1, <2>3, <2>5, <2>6, OpenedGrows, OpenedShaped
    <2>8. o = [i \in DOMAIN o |-> o[i]] /\ \A i \in DOMAIN o : IsMount(o[i])
      BY <2>7 DEF Grows, Keeps, TreeKeeps
    <2>9. Grows(o, p) /\ AreShaped(p)
      BY <2>2, <2>3, <2>7, <2>8, FieldGrows, FieldShaped
    <2>10. p = [i \in DOMAIN p |-> p[i]] /\ \A i \in DOMAIN p : IsMount(p[i])
      BY <2>9 DEF Grows, Keeps, TreeKeeps
    <2> QED
      BY <2>1, <2>4, <2>9, <2>10, FieldShaped
  <1> QED
    BY <1>3, <1>4, <1>5

LEMMA ShapeStep ==
  ASSUME CoreInv, ShapeInv, [Next]_vars
  PROVE  ShapeInv'
  <1>1. /\ MountsInv /\ AreShaped(mounts) /\ OrphansShaped(orphans)
        /\ inited \in BOOLEAN /\ registered \in BOOLEAN /\ ub \in BOOLEAN
    BY DEF CoreInv, ShapeInv, AreShaped, OrphansShaped
  <1> SUFFICES /\ AreShaped(mounts') /\ OrphansShaped(orphans')
               /\ inited' \in BOOLEAN /\ registered' \in BOOLEAN /\ ub' \in BOOLEAN
    BY DEF ShapeInv, AreShaped, OrphansShaped
  <1>2. CASE UNCHANGED vars
    BY <1>1, <1>2 DEF vars
  <1>3. CASE VfsInit
    <2>1. \A q \in DOMAIN SampleTree : SampleTree[q] \in Inodes
      BY MadeInodes DEF SampleTree
    <2>2. AreShaped(mounts')
      BY <1>1, <1>3, <2>1, NewMountShaped DEF VfsInit
    <2> QED
      BY <1>1, <1>3, <2>2 DEF VfsInit
  <1>4. CASE Shutdown
    <2>1. AreShaped(mounts')
      BY <1>4 DEF Shutdown, AreShaped
    <2>2. OrphansShaped(orphans')
      BY <1>1, <1>4 DEF Shutdown, Restrict, OrphansShaped, CoreInv, KeepersInv
    <2>3. inited' \in BOOLEAN /\ registered' \in BOOLEAN /\ ub' \in BOOLEAN
      BY <1>1, <1>4 DEF Shutdown
    <2> QED
      BY <2>1, <2>2, <2>3
  <1>5. ASSUME NEW mp \in Mountpoints, NEW posix \in BOOLEAN, Mount(mp, posix)
        PROVE  AreShaped(mounts') /\ UNCHANGED <<inited, registered, orphans, ub>>
    <2>1. \A q \in DOMAIN EmptyTree : EmptyTree[q] \in Inodes
      BY MadeInodes DEF EmptyTree
    <2> QED
      BY <1>1, <1>5, <2>1, NewMountShaped DEF Mount
  <1>6. ASSUME NEW mp \in Mountpoints, Unmount(mp)
        PROVE  AreShaped(mounts') /\ UNCHANGED <<inited, registered, orphans, ub>>
    <2>1. \A j \in DOMAIN mounts' : \E i \in DOMAIN mounts : mounts'[j] = mounts[i]
      BY <1>1, <1>6, UnmountList
    <2> QED
      BY <1>1, <1>6, <2>1 DEF AreShaped, Unmount
  <1>7. ASSUME NEW path \in Paths, Resolve(path) \/ Stat(path) \/ Readdir(path)
        PROVE  AreShaped(mounts') /\ UNCHANGED <<inited, registered, orphans, ub>>
    <2>1. Resolve(path)
      BY <1>7 DEF Stat, Readdir
    <2> QED
      BY <1>1, <2>1, ResolvedShaped DEF Resolve
  <1>8. ASSUME NEW path \in Paths, NEW flags \in Flags, Open(path, flags)
        PROVE  AreShaped(mounts') /\ OrphansShaped(orphans') /\ UNCHANGED <<inited, registered, ub>>
    <2>1. CASE OpenCreat(path, flags)
      BY <1>1, <1>8, <2>1, OpenCreatShaped DEF Open
    <2>2. CASE OpenTree(path, flags)
      <3>1. orphans' = orphans
        BY <2>2 DEF OpenTree
      <3> QED
        BY <1>1, <1>8, <2>2, <3>1, OpenTreeShaped DEF Open
    <2> QED
      BY <1>8, <2>1, <2>2 DEF Open
  <1>9. ASSUME NEW s \in Slots, Close(s)
        PROVE  OrphansShaped(orphans') /\ UNCHANGED <<inited, registered, mounts, ub>>
    BY <1>1, <1>9 DEF Close, Restrict, OrphansShaped
  <1>10. ASSUME NEW s \in Slots, ReadsFreed(s)
         PROVE  ub' = TRUE /\ UNCHANGED <<inited, registered, mounts, orphans>>
    BY <1>10 DEF ReadsFreed
  <1>11. ASSUME NEW s \in Slots, NEW end \in 1..MaxSize, Write(s, end)
         PROVE  AreShaped(mounts') /\ OrphansShaped(orphans') /\ UNCHANGED <<inited, registered, ub>>
    <2>1. UNCHANGED <<inited, registered, ub>>
      BY <1>11 DEF Write
    <2> QED
      BY <1>1, <1>11, <2>1, WriteShaped
  <1> QED
    BY <1>1, <1>2, <1>3, <1>4, <1>5, <1>6, <1>7, <1>8, <1>9, <1>10, <1>11 DEF Next

LEMMA ShapeInvariance ==
  Spec => []ShapeInv
  <1>1. Init => ShapeInv
    <2> SUFFICES ASSUME Init PROVE ShapeInv
      OBVIOUS
    <2>1. DOMAIN mounts = {} /\ DOMAIN orphans = {} /\ inited = FALSE /\ registered = FALSE /\ ub = FALSE
      BY DEF Init
    <2> QED
      BY <2>1 DEF ShapeInv
  <1>2. CoreInv /\ ShapeInv /\ [Next]_vars => ShapeInv'
    BY ShapeStep
  <1> QED
    BY <1>1, <1>2, CoreInvariance, PTL DEF Spec

\* The mounts, inodes, orphans and handles are what their names say.
THEOREM TypeOKAlways ==
  Spec => []TypeOK
  <1>1. CoreInv /\ ShapeInv => TypeOK
    <2> SUFFICES ASSUME CoreInv, ShapeInv PROVE TypeOK
      OBVIOUS
    <2>1. \A i \in DOMAIN mounts : IsMount(mounts[i]) /\ IsShaped(mounts[i])
      BY DEF CoreInv, MountsInv, ShapeInv
    <2>2. \A i \in DOMAIN mounts :
            /\ mounts[i].id \in Ids /\ mounts[i].posix \in BOOLEAN
            /\ mounts[i].mp \in Mountpoints \cup {Root}
            /\ Len(mounts[i].opened) <= MaxOpened
            /\ \A q \in DOMAIN mounts[i].tree : mounts[i].tree[q] \in Inodes
      BY <2>1 DEF IsMount, IsShaped
    <2>3. \A o \in DOMAIN orphans : orphans[o].inode \in Inodes /\ orphans[o].mount \in Ids
      BY DEF ShapeInv
    <2> QED
      BY <2>2, <2>3 DEF TypeOK, CoreInv, MountsInv, KeepersInv, ShapeInv
  <1> QED
    BY <1>1, CoreInvariance, ShapeInvariance, PTL
----------------------------------------------------------------------------
\* What an open leaves behind.

LEMMA QuietMounts ==
  ASSUME DOMAIN orphans' \subseteq DOMAIN orphans, disk' = disk,
         DOMAIN mounts' = DOMAIN mounts,
         \A i \in DOMAIN mounts : mounts'[i].id = mounts[i].id /\ mounts'[i].opened = mounts[i].opened
  PROVE  NothingLeft
  <1>1. ASSUME NEW id \in Ids
        PROVE  OpenedOf(mounts', id) = OpenedOf(mounts, id)
    BY DEF OpenedOf
  <1> QED
    BY <1>1 DEF NothingLeft

\* The backend of a new mount has no file open, and its id was no mount's.
LEMMA QuietNewMount ==
  ASSUME MountsInv, DOMAIN fhs \subseteq Slots, Len(mounts) < MaxMounts,
         NEW mp, NEW posix, NEW tree, mounts' = NewMount(mp, posix, tree),
         orphans' = orphans, disk' = disk
  PROVE  NothingLeft
  <1>1. PICK m : m = FreshMount(mp, posix, tree) /\ mounts'[1] = m
    BY NewMountList
  <1>2. /\ 1 \in DOMAIN mounts'
        /\ \A i \in DOMAIN mounts' : i # 1 => i - 1 \in DOMAIN mounts /\ mounts'[i] = mounts[i - 1]
        /\ \A i \in DOMAIN mounts : i + 1 \in DOMAIN mounts' /\ mounts'[i + 1] = mounts[i]
    <2>1. Len(mounts) \in Nat /\ DOMAIN mounts' = 1..(1 + Len(mounts))
      BY MountList, NewMountList
    <2>2. /\ \A i \in DOMAIN mounts' : i # 1 => i - 1 \in DOMAIN mounts /\ mounts'[i] = mounts[i - 1]
          /\ \A i \in DOMAIN mounts : i + 1 \in DOMAIN mounts' /\ mounts'[i + 1] = mounts[i]
      BY NewMountList
    <2> QED
      BY <2>1, <2>2
  <1>3. m.opened = <<>> /\ \A i \in DOMAIN mounts : mounts[i].id # m.id
    BY <1>1, FreshId DEF FreshMount, Live
  <1>4. ASSUME NEW id \in Ids
        PROVE  OpenedOf(mounts', id) \in {OpenedOf(mounts, id), {<<>>}}
    <2>1. CASE id = m.id
      <3>1. {i \in DOMAIN mounts' : mounts'[i].id = id} = {1}
        BY <1>1, <1>2, <1>3, <2>1
      <3> QED
        BY <1>1, <1>3, <3>1 DEF OpenedOf
    <2>2. CASE id # m.id
      <3>1. ASSUME NEW x PROVE x \in OpenedOf(mounts', id) <=> x \in OpenedOf(mounts, id)
        <4>1. ASSUME NEW i \in DOMAIN mounts', mounts'[i].id = id, x = mounts'[i].opened
              PROVE  \E j \in DOMAIN mounts : mounts[j].id = id /\ x = mounts[j].opened
          BY <1>1, <1>2, <2>2, <4>1
        <4>2. ASSUME NEW j \in DOMAIN mounts, mounts[j].id = id, x = mounts[j].opened
              PROVE  \E i \in DOMAIN mounts' : mounts'[i].id = id /\ x = mounts'[i].opened
          BY <1>2, <4>2
        <4> QED
          BY <4>1, <4>2 DEF OpenedOf
      <3> QED
        BY <3>1
    <2> QED
      BY <2>1, <2>2
  <1> QED
    BY <1>4 DEF NothingLeft

LEMMA QuietUnmount ==
  ASSUME MountsInv, NEW mp, Unmount(mp)
  PROVE  NothingLeft
  <1>1. \A j \in DOMAIN mounts' : \E k \in DOMAIN mounts : mounts'[j] = mounts[k]
    BY UnmountList
  <1>2. ASSUME NEW id \in Ids
        PROVE  OpenedOf(mounts', id) \in {OpenedOf(mounts, id), {}}
    <2>1. CASE \A j \in DOMAIN mounts' : mounts'[j].id # id
      BY <2>1 DEF OpenedOf
    <2>2. ASSUME NEW j \in DOMAIN mounts', mounts'[j].id = id
          PROVE  OpenedOf(mounts', id) = OpenedOf(mounts, id)
      <3>1. PICK k \in DOMAIN mounts : mounts'[j] = mounts[k]
        BY <1>1
      <3>2. \A i \in DOMAIN mounts : mounts[i].id = id => i = k
        BY <2>2, <3>1 DEF MountsInv
      <3>3. \A i \in DOMAIN mounts' : mounts'[i].id = id => mounts'[i].opened = mounts[k].opened
        BY <1>1, <3>2
      <3> QED
        BY <2>2, <3>1, <3>2, <3>3 DEF OpenedOf
    <2> QED
      BY <2>1, <2>2
  <1> QED
    BY <1>2 DEF NothingLeft, Unmount

LEMMA QuietResolve ==
  ASSUME MountsInv, NEW path, mounts' = Resolved(path), orphans' = orphans, disk' = disk
  PROVE  NothingLeft
  <1>1. DOMAIN mounts' = DOMAIN mounts
    BY ResolvedGrows DEF Grows
  <1>2. \A i \in DOMAIN mounts : mounts'[i].id = mounts[i].id /\ mounts'[i].opened = mounts[i].opened
    BY ResolvedGrows DEF Grows, Keeps, TreeKeeps
  <1> QED
    BY <1>1, <1>2, QuietMounts

LEMMA QuietWrite ==
  ASSUME MountsInv, NEW s, NEW end, Write(s, end)
  PROVE  NothingLeft
  <1>1. DOMAIN orphans' \subseteq DOMAIN orphans /\ disk' = disk
    BY DEF Write
  <1>2. CASE mounts' = mounts
    BY <1>1, <1>2, QuietMounts
  <1>3. ASSUME NEW w, NEW q, mounts' = [mounts EXCEPT ![w].tree[q].size = Grow(@, end)]
        PROVE  NothingLeft
    <2>1. PICK n : n = mounts[w].tree[q]
      OBVIOUS
    <2>2. PICK inode : inode = [n EXCEPT !.size = Grow(n.size, end)]
      OBVIOUS
    <2>3. mounts' = InodeSet(mounts, w, q, inode)
      BY <1>3, <2>1, <2>2 DEF InodeSet
    <2>4. IsInode(mounts[w].tree[q]) => IsInode(inode) /\ inode.kind = mounts[w].tree[q].kind
      BY <2>1, <2>2, FieldsReplaced
    <2>5. mounts = [i \in DOMAIN mounts |-> mounts[i]] /\ \A i \in DOMAIN mounts : IsMount(mounts[i])
      BY MountsAreMounts
    <2>6. PICK ns : ns = InodeSet(mounts, w, q, inode)
      OBVIOUS
    <2>7. /\ Grows(mounts, ns)
          /\ \A i \in DOMAIN mounts :
               /\ ns[i].opened = mounts[i].opened
               /\ ns[i].tree = IF i = w THEN [mounts[i].tree EXCEPT ![q] = inode] ELSE mounts[i].tree
      BY <2>4, <2>5, <2>6, InodeGrows
    <2> QED
      BY <1>1, <2>3, <2>6, <2>7, QuietMounts DEF Grows, Keeps, TreeKeeps
  <1> QED
    BY <1>2, <1>3 DEF Write

\* One backend has opened one file more.
LEMMA OneOpened ==
  ASSUME MountsInv, DOMAIN mounts' = DOMAIN mounts, NEW b \in DOMAIN mounts, NEW file,
         \A i \in DOMAIN mounts :
           /\ mounts'[i].id = mounts[i].id
           /\ mounts'[i].opened = IF i = b THEN Append(mounts[i].opened, file) ELSE mounts[i].opened
  PROVE  \A id \in Ids : OpenedOf(mounts', id) =
           IF id = mounts[b].id THEN {Append(mounts[b].opened, file)} ELSE OpenedOf(mounts, id)
  <1> SUFFICES ASSUME NEW id \in Ids
               PROVE  OpenedOf(mounts', id) =
                        IF id = mounts[b].id THEN {Append(mounts[b].opened, file)} ELSE OpenedOf(mounts, id)
    OBVIOUS
  <1>1. CASE id = mounts[b].id
    <2>1. {i \in DOMAIN mounts' : mounts'[i].id = id} = {b}
      BY <1>1 DEF MountsInv
    <2> QED
      BY <1>1, <2>1 DEF OpenedOf
  <1>2. CASE id # mounts[b].id
    BY <1>2 DEF OpenedOf
  <1> QED
    BY <1>1, <1>2

\* What an open that reaches the backend makes of what the backends have open.
LEMMA OpenedBehindOpens ==
  ASSUME NEW ms, NEW r, Grows(ms, r), NEW w, NEW q, NEW b, NEW file, NEW n
  PROVE  \A i \in DOMAIN r : OpenedBehind(r, w, q, b, file, n)[i].opened =
           IF i = b THEN Append(r[i].opened, file) ELSE r[i].opened
  <1>1. PICK o : o = Opened(r, b, file)
    OBVIOUS
  <1>2. r = [i \in DOMAIN r |-> r[i]] /\ \A i \in DOMAIN r : IsMount(r[i])
    BY DEF Grows, Keeps
  <1>3. /\ Grows(r, o)
        /\ \A i \in DOMAIN r : o[i].opened = IF i = b THEN Append(r[i].opened, file) ELSE r[i].opened
    BY <1>1, <1>2, OpenedGrows
  <1>4. o = [i \in DOMAIN o |-> o[i]] /\ DOMAIN o = DOMAIN r /\ \A i \in DOMAIN o : IsMount(o[i])
    BY <1>3 DEF Grows, Keeps
  <1>5. PICK p : p = BhSet(o, w, q, n)
    OBVIOUS
  <1>6. Grows(o, p) /\ \A i \in DOMAIN o : p[i].opened = o[i].opened
    BY <1>4, <1>5, FieldGrows
  <1>7. p = [i \in DOMAIN p |-> p[i]] /\ DOMAIN p = DOMAIN o /\ \A i \in DOMAIN p : IsMount(p[i])
    BY <1>6 DEF Grows, Keeps
  <1>8. OpenedBehind(r, w, q, b, file, n) = FileSet(p, w, q, file)
    BY <1>1, <1>5 DEF OpenedBehind, BhSet, FileSet
  <1>9. \A i \in DOMAIN p : FileSet(p, w, q, file)[i].opened = p[i].opened
    BY <1>7, FieldGrows
  <1> QED
    BY <1>3, <1>4, <1>6, <1>7, <1>8, <1>9

\* What NothingWithoutHandle says of a step about what is not in a tree.
Accounted == DOMAIN fhs' \subseteq DOMAIN fhs => NothingLeft \/ Abandoned

LEMMA OpenCreatAccounted ==
  ASSUME CoreInv, AreShaped(mounts), NEW path \in Paths, NEW flags, OpenCreat(path, flags)
  PROVE  Accounted
  <1> SUFFICES ASSUME DOMAIN fhs' \subseteq DOMAIN fhs PROVE Abandoned
    BY DEF Accounted
  <1>1. MountsInv /\ KeepersInv /\ DOMAIN fhs \subseteq Slots
    BY DEF CoreInv, KeepersInv
  <1>2. FreeSlots = {}
    BY <1>1, SlotTaken DEF OpenCreat
  <1>3. PICK b, file : b = Best(path) /\ file = HostFile(path)
    OBVIOUS
  <1>4. b \in DOMAIN mounts /\ file \in Files
    BY <1>1, <1>3, AskedFor DEF OpenCreat
  <1>5. /\ Grows(mounts, Opened(mounts, b, file))
        /\ \A i \in DOMAIN mounts : Opened(mounts, b, file)[i].opened =
             IF i = b THEN Append(mounts[i].opened, file) ELSE mounts[i].opened
    BY <1>1, MountsAreMounts, OpenedGrows
  <1>6. mounts' = Opened(mounts, b, file)
    BY <1>3 DEF OpenCreat
  <1>7. /\ DOMAIN mounts' = DOMAIN mounts
        /\ \A i \in DOMAIN mounts :
             /\ mounts'[i].id = mounts[i].id
             /\ mounts'[i].opened = IF i = b THEN Append(mounts[i].opened, file) ELSE mounts[i].opened
    BY <1>5, <1>6 DEF Grows, Keeps
  <1>8. \A id \in Ids : OpenedOf(mounts', id) =
          IF id = mounts[b].id THEN {Append(mounts[b].opened, file)} ELSE OpenedOf(mounts, id)
    BY <1>1, <1>4, <1>7, OneOpened
  <1>9. PICK o \in OrphanIds \ DOMAIN orphans : o = NewOrphan
    BY LowestIsLeast, BoundsAssumption DEF OpenCreat, NewOrphan, OrphanIds
  <1>10. PICK inode : inode = Reg(NextHandle(b), file)
    OBVIOUS
  <1>11. DOMAIN orphans' = DOMAIN orphans \cup {o} /\ orphans'[o].inode = inode
    <2>1. orphans' = With(orphans, o, [inode |-> inode, mount |-> mounts[b].id])
      BY <1>3, <1>9, <1>10 DEF OpenCreat
    <2> QED
      BY <2>1 DEF With
  <1>12. lost' = lost \cup {o} /\ disk' = disk \cup {file} /\ lost \subseteq DOMAIN orphans
    BY <1>1, <1>2, <1>3, <1>9 DEF OpenCreat, KeepersInv
  <1>13. /\ DOMAIN orphans' \ DOMAIN orphans = lost' \ lost
         /\ \A x, y \in lost' \ lost : x = y /\ orphans'[x].inode = inode
    BY <1>9, <1>11, <1>12
  <1>14. inode = Reg(Len(mounts[b].opened) + 1, file)
    BY <1>10 DEF NextHandle
  <1> QED
    BY <1>2, <1>4, <1>8, <1>12, <1>13, <1>14 DEF Abandoned

LEMMA OpenTreeAccounted ==
  ASSUME CoreInv, AreShaped(mounts), NEW path \in Paths, NEW flags, OpenTree(path, flags)
  PROVE  Accounted
  <1> SUFFICES ASSUME DOMAIN fhs' \subseteq DOMAIN fhs PROVE NothingLeft \/ Abandoned
    BY DEF Accounted
  <1>1. MountsInv /\ KeepersInv /\ DOMAIN fhs \subseteq Slots
    BY DEF CoreInv, KeepersInv
  <1>2. UNCHANGED <<orphans, disk, lost>>
    BY DEF OpenTree
  <1>3. PICK w, q, r, b, file, n :
          /\ w = WalkMount(path) /\ q = Walk(path) /\ r = Resolved(path)
          /\ b = Best(path) /\ file = HostFile(path) /\ n = NextHandle(b)
    OBVIOUS
  <1>4. \/ mounts' = r
        \/ /\ HasBackend(path) /\ FhAlloc(<<"tree", mounts[w].id, q>>)
           /\ mounts' = OpenedBehind(r, w, q, b, file, n)
    BY <1>3 DEF OpenTree, OpenedBehind, NeedsBackend
  <1>5. CASE mounts' = r
    BY <1>1, <1>2, <1>3, <1>5, QuietResolve
  <1>6. CASE /\ HasBackend(path) /\ FhAlloc(<<"tree", mounts[w].id, q>>)
             /\ mounts' = OpenedBehind(r, w, q, b, file, n)
    <2>1. FreeSlots = {}
      BY <1>1, <1>6, SlotTaken
    <2>2. b \in DOMAIN mounts /\ file \in Files
      BY <1>1, <1>3, <1>6, AskedFor
    <2>3. Grows(mounts, r) /\ \A i \in DOMAIN mounts : r[i].opened = mounts[i].opened
      BY <1>1, <1>3, ResolvedGrows
    <2>4. Grows(r, mounts')
      BY <1>6, <2>3, OpenedBehindGrows
    <2>5. \A i \in DOMAIN r : mounts'[i].opened = IF i = b THEN Append(r[i].opened, file) ELSE r[i].opened
      BY <1>6, <2>3, OpenedBehindOpens
    <2>6. /\ DOMAIN mounts' = DOMAIN mounts
          /\ \A i \in DOMAIN mounts :
               /\ mounts'[i].id = mounts[i].id
               /\ mounts'[i].opened = IF i = b THEN Append(mounts[i].opened, file) ELSE mounts[i].opened
      BY <2>3, <2>4, <2>5 DEF Grows, Keeps
    <2>7. \A id \in Ids : OpenedOf(mounts', id) =
            IF id = mounts[b].id THEN {Append(mounts[b].opened, file)} ELSE OpenedOf(mounts, id)
      BY <1>1, <2>2, <2>6, OneOpened
    <2>8. /\ disk' \subseteq disk \cup {file} /\ DOMAIN orphans' \ DOMAIN orphans = lost' \ lost
          /\ lost' \ lost = {}
      BY <1>2
    <2> QED
      BY <2>1, <2>2, <2>7, <2>8 DEF Abandoned
  <1> QED
    BY <1>4, <1>5, <1>6

LEMMA StepIsAccounted ==
  ASSUME CoreInv, ShapeInv, [Next]_vars
  PROVE  Accounted
  <1>1. MountsInv /\ KeepersInv /\ DOMAIN fhs \subseteq Slots /\ AreShaped(mounts)
    BY DEF CoreInv, KeepersInv, ShapeInv, AreShaped
  <1>2. CASE DOMAIN orphans' \subseteq DOMAIN orphans /\ UNCHANGED <<mounts, disk>>
    BY <1>2, QuietMounts DEF Accounted
  <1>3. CASE VfsInit
    BY <1>1, <1>3, QuietNewMount DEF VfsInit, Accounted
  <1>4. CASE Shutdown
    <2>1. DOMAIN orphans' \subseteq DOMAIN orphans /\ disk' = disk /\ DOMAIN mounts' = {}
      BY <1>1, <1>4 DEF Shutdown, Restrict, KeepersInv
    <2> QED
      BY <2>1 DEF NothingLeft, OpenedOf, Accounted
  <1>5. ASSUME NEW mp \in Mountpoints, NEW posix \in BOOLEAN, Mount(mp, posix) PROVE Accounted
    BY <1>1, <1>5, QuietNewMount DEF Mount, Accounted
  <1>6. ASSUME NEW mp \in Mountpoints, Unmount(mp) PROVE Accounted
    BY <1>1, <1>6, QuietUnmount DEF Accounted
  <1>7. ASSUME NEW path \in Paths, Resolve(path) \/ Stat(path) \/ Readdir(path) PROVE Accounted
    BY <1>1, <1>7, QuietResolve DEF Stat, Readdir, Resolve, Accounted
  <1>8. ASSUME NEW path \in Paths, NEW flags \in Flags, Open(path, flags) PROVE Accounted
    BY <1>1, <1>8, OpenCreatAccounted, OpenTreeAccounted DEF Open
  <1>9. ASSUME NEW s \in Slots, Close(s) \/ ReadsFreed(s) PROVE Accounted
    BY <1>2, <1>9 DEF Close, ReadsFreed, Restrict
  <1>10. ASSUME NEW s \in Slots, NEW end \in 1..MaxSize, Write(s, end) PROVE Accounted
    BY <1>1, <1>10, QuietWrite DEF Accounted
  <1> QED
    BY <1>2, <1>3, <1>4, <1>5, <1>6, <1>7, <1>8, <1>9, <1>10 DEF Next, vars

\* Whatever a call does to the trees that stay, it adds only directories; and if it gives
\* out no handle it leaves no dentry without a parent, no file and no backend handle, but
\* for an open that finds the table full, which leaves one handle and at most one dentry.
THEOREM NothingWithoutHandleAlways ==
  Spec => NothingWithoutHandle
  <1>1. CoreInv /\ ShapeInv /\ [Next]_vars => [OnlyDirsAdded /\ Accounted]_vars
    BY StepIsSafe, StepIsAccounted DEF Safe
  <1> QED
    BY <1>1, CoreInvariance, ShapeInvariance, PTL DEF Spec, NothingWithoutHandle, Accounted
----------------------------------------------------------------------------
\* Which mount serves a path.

CountOf(ms, mp) == Cardinality({i \in DOMAIN ms : ms[i].mp = mp})
IdOf(ms, path) ==
  LET best == FindBestMount(path, [i \in DOMAIN ms |-> ms[i].mp])
  IN  IF best = 0 THEN 0 ELSE ms[best].id

\* The list ns is ms without its i-th mount.
Without(ms, ns, i) ==
  /\ Len(ms) \in Nat /\ DOMAIN ms = 1..Len(ms) /\ \A j \in DOMAIN ms : IsMount(ms[j])
  /\ i \in DOMAIN ms
  /\ Len(ns) = Len(ms) - 1 /\ DOMAIN ns = 1..(Len(ms) - 1)
  /\ \A j \in DOMAIN ns : ns[j] = ms[Skip(i, j)]

LEMMA WithoutSkips ==
  ASSUME NEW ms, NEW ns, NEW i, Without(ms, ns, i)
  PROVE  /\ \A j \in DOMAIN ns : Skip(i, j) \in DOMAIN ms \ {i} /\ ns[j] = ms[Skip(i, j)]
         /\ \A j, k \in DOMAIN ns : Skip(i, j) = Skip(i, k) => j = k
         /\ \A k \in DOMAIN ms \ {i} : \E j \in DOMAIN ns : k = Skip(i, j)
  <1>1. PICK n \in Nat : n = Len(ms) /\ DOMAIN ms = 1..n /\ DOMAIN ns = 1..(n - 1) /\ i \in 1..n
    BY DEF Without
  <1>2. \A j \in DOMAIN ns : Skip(i, j) \in DOMAIN ms \ {i} /\ ns[j] = ms[Skip(i, j)]
    BY <1>1 DEF Skip, Without
  <1>3. \A j, k \in DOMAIN ns : Skip(i, j) = Skip(i, k) => j = k
    BY <1>1 DEF Skip
  <1>4. ASSUME NEW k \in DOMAIN ms \ {i} PROVE \E j \in DOMAIN ns : k = Skip(i, j)
    <2>1. CASE k < i
      <3>1. k \in DOMAIN ns /\ k = Skip(i, k)
        BY <1>1, <1>4, <2>1 DEF Skip
      <3> QED
        BY <3>1
    <2>2. CASE ~(k < i)
      <3>1. k - 1 \in DOMAIN ns /\ k = Skip(i, k - 1)
        BY <1>1, <1>4, <2>2 DEF Skip
      <3> QED
        BY <3>1
    <2> QED
      BY <2>1, <2>2
  <1> QED
    BY <1>2, <1>3, <1>4

\* It has one mount less at that mount's mountpoint, and as many at every other.
LEMMA WithoutCounts ==
  ASSUME NEW ms, NEW ns, NEW i, Without(ms, ns, i), NEW mp
  PROVE  CountOf(ns, mp) # CountOf(ms, mp) <=> mp = ms[i].mp
  <1> DEFINE Long == {k \in DOMAIN ms : ms[k].mp = mp}
             Short == {j \in DOMAIN ns : ns[j].mp = mp}
             f == [j \in Short |-> Skip(i, j)]
  <1>1. IsFiniteSet(Long)
    <2>1. Len(ms) \in Nat /\ DOMAIN ms = 1..Len(ms)
      BY DEF Without
    <2>2. IsFiniteSet(DOMAIN ms)
      BY <2>1, FS_Interval
    <2>3. Long \in SUBSET DOMAIN ms
      OBVIOUS
    <2> HIDE DEF Long
    <2> QED
      BY <2>2, <2>3, FS_Subset
  <1>2. IsFiniteSet(Long \ {i}) /\
        Cardinality(Long \ {i}) = IF i \in Long THEN Cardinality(Long) - 1 ELSE Cardinality(Long)
    <2> HIDE DEF Long
    <2> QED
      BY <1>1, FS_RemoveElement
  <1>3. /\ \A j \in Short : Skip(i, j) \in Long \ {i}
        /\ \A j, k \in Short : Skip(i, j) = Skip(i, k) => j = k
        /\ \A k \in Long \ {i} : \E j \in Short : k = Skip(i, j)
    BY WithoutSkips
  <1>4. f \in [Short -> Long \ {i}] /\ \A j \in Short : f[j] = Skip(i, j)
    BY <1>3
  <1>5. f \in Injection(Short, Long \ {i}) /\ f \in Surjection(Short, Long \ {i})
    <2> HIDE DEF f, Short, Long
    <2>1. \A j, k \in Short : f[j] = f[k] => j = k
      BY <1>3, <1>4
    <2>2. \A k \in Long \ {i} : \E j \in Short : f[j] = k
      BY <1>3, <1>4
    <2> QED
      BY <1>4, <2>1, <2>2 DEF Injection, Surjection, IsInjective
  <1>6. Cardinality(Short) = Cardinality(Long \ {i})
    <2> HIDE DEF f, Short, Long
    <2> QED
      BY <1>2, <1>5, FS_Injection
  <1>7. Cardinality(Long) \in Nat
    <2> HIDE DEF Long
    <2> QED
      BY <1>1, FS_CardinalityType
  <1>8. i \in Long <=> mp = ms[i].mp
    BY DEF Without
  <1>9. CountOf(ns, mp) = Cardinality(Short) /\ CountOf(ms, mp) = Cardinality(Long)
    BY DEF CountOf
  <1> HIDE DEF Long, Short
  <1> QED
    BY <1>2, <1>6, <1>7, <1>8, <1>9

\* It serves every path that this mount could not have served as before.
LEMMA WithoutServes ==
  ASSUME NEW ms, NEW ns, NEW i, Without(ms, ns, i), NEW path,
         ~(ms[i].mp = Root \/ IsPrefix(ms[i].mp, path))
  PROVE  IdOf(ms, path) = IdOf(ns, path)
  <1> DEFINE S == STRING \cup {Empty}
             Mp(list) == [j \in DOMAIN list |-> list[j].mp]
  <1>1. PICK n \in Nat : n = Len(ms) /\ DOMAIN ms = 1..n /\ DOMAIN ns = 1..(n - 1) /\ i \in 1..n
    BY DEF Without
  <1>2. \A j \in DOMAIN ms : ms[j].mp \in Seq(S)
    <2>1. Root \in Seq(S) /\ \A p \in Mountpoints : p \in Seq(S)
      BY PathsAssumption, SeqMonotonic DEF Root
    <2> HIDE DEF S
    <2> QED
      BY <2>1 DEF Without, IsMount
  <1>3. \A j \in DOMAIN ns : Skip(i, j) \in DOMAIN ms /\ ns[j] = ms[Skip(i, j)]
    BY WithoutSkips
  <1>4. PICK long : long = Mp(ms)
    OBVIOUS
  <1>5. PICK short : short = Mp(ns)
    OBVIOUS
  <1>6. /\ long \in Seq(Seq(S)) /\ Len(long) = n
        /\ \A j \in 1..n : long[j] = ms[j].mp
    <2> HIDE DEF S
    <2> QED
      BY <1>1, <1>2, <1>4
  <1>7. /\ short \in Seq(Seq(S)) /\ Len(short) = n - 1
        /\ \A j \in 1..(n - 1) : short[j] = long[Skip(i, j)]
    <2>1. \A j \in 1..(n - 1) : short[j] = ns[j].mp /\ ns[j].mp = ms[Skip(i, j)].mp /\ Skip(i, j) \in 1..n
      BY <1>1, <1>3, <1>5
    <2>2. n - 1 \in Nat /\ short \in [1..(n - 1) -> Seq(S)]
      <3> HIDE DEF S
      <3> QED
        BY <1>1, <1>2, <1>5, <2>1
    <2>3. \A j \in 1..(n - 1) : short[j] = long[Skip(i, j)]
      BY <1>6, <2>1
    <2> HIDE DEF S
    <2> QED
      BY <2>2, <2>3
  <1>8. ~Serves(path, long, i)
    BY <1>1, <1>6 DEF Serves
  <1>9. PICK b : b = FindBestMount(path, short) /\ b \in 0..(n - 1)
    BY <1>1, <1>7, BestInTable
  <1>10. FindBestMount(path, long) = IF b = 0 THEN 0 ELSE Skip(i, b)
    <2>1. i \in 1..Len(long) /\ Len(short) = Len(long) - 1
      BY <1>1, <1>6, <1>7
    <2>2. \A j \in 1..Len(short) : short[j] = long[Skip(i, j)]
      BY <1>7
    <2>3. PICK T : T = S
      OBVIOUS
    <2>4. long \in Seq(Seq(T)) /\ short \in Seq(Seq(T))
      BY <1>6, <1>7, <2>3
    <2> HIDE DEF S
    <2>5. FindBestMount(path, long) =
            IF FindBestMount(path, short) = 0 THEN 0 ELSE Skip(i, FindBestMount(path, short))
      <3>1. OneLess(long, short, i)
        BY <2>1, <2>2 DEF OneLess
      <3> QED
        BY <1>8, <2>4, <3>1, BestWithout
    <2> QED
      BY <1>9, <2>5
  <1>11. IdOf(ms, path) = IF FindBestMount(path, long) = 0 THEN 0 ELSE ms[FindBestMount(path, long)].id
    BY <1>4 DEF IdOf
  <1>12. IdOf(ns, path) = IF b = 0 THEN 0 ELSE ns[b].id
    BY <1>5, <1>9 DEF IdOf
  <1>13. CASE b = 0
    BY <1>10, <1>11, <1>12, <1>13
  <1>14. CASE b # 0
    <2>1. b \in DOMAIN ns /\ Skip(i, b) \in DOMAIN ms /\ ns[b] = ms[Skip(i, b)]
      BY <1>1, <1>3, <1>9, <1>14
    <2>2. Skip(i, b) # 0
      BY <1>1, <2>1
    <2> QED
      BY <1>10, <1>11, <1>12, <1>14, <2>1, <2>2
  <1> QED
    BY <1>13, <1>14

\* What MountLocality says of a step.
Local ==
  Layout' # Layout =>
    LET changed == {mp \in Mountpoints \cup {Root} : CountAt(mp)' # CountAt(mp)}
    IN  \A path \in Paths :
          BestId(path)' # BestId(path) =>
            \/ inited' # inited
            \/ \E mp \in Mountpoints : changed = {mp} /\ (mp = Root \/ IsPrefix(mp, path))

LEMMA GrowsLocal ==
  ASSUME Grows(mounts, mounts')
  PROVE  Local
  <1>1. /\ DOMAIN mounts' = DOMAIN mounts
        /\ \A i \in DOMAIN mounts : mounts'[i].id = mounts[i].id /\ mounts'[i].mp = mounts[i].mp
    BY DEF Grows, Keeps, TreeKeeps
  <1>2. Layout' = Layout
    BY <1>1 DEF Layout
  <1> QED
    BY <1>2 DEF Local

\* One mount more or less, at a mountpoint that a caller has named.
LEMMA WithoutLocal ==
  ASSUME NEW mp \in Mountpoints,
         \/ \E i : Without(mounts', mounts, i) /\ mounts'[i].mp = mp
         \/ \E i : Without(mounts, mounts', i) /\ mounts[i].mp = mp
  PROVE  Local
  <1>1. /\ \A m : CountAt(m) = CountOf(mounts, m) /\ CountAt(m)' = CountOf(mounts', m)
        /\ \A p : BestId(p) = IdOf(mounts, p) /\ BestId(p)' = IdOf(mounts', p)
    BY DEF CountAt, CountOf, BestId, Best, Mps, IdOf
  <1>2. \A m : CountOf(mounts', m) # CountOf(mounts, m) <=> m = mp
    BY WithoutCounts
  <1>3. \A p : IdOf(mounts', p) # IdOf(mounts, p) => mp = Root \/ IsPrefix(mp, p)
    BY WithoutServes
  <1>4. {m \in Mountpoints \cup {Root} : CountAt(m)' # CountAt(m)} = {mp}
    BY <1>1, <1>2
  <1> QED
    BY <1>1, <1>3, <1>4 DEF Local

LEMMA MountLocal ==
  ASSUME MountsInv, MountsInv', NEW mp \in Mountpoints, NEW posix, Mount(mp, posix)
  PROVE  Local
  <1>1. mounts' = NewMount(mp, posix, EmptyTree)
    BY DEF Mount
  <1>2. PICK n \in Nat : n = Len(mounts) /\ DOMAIN mounts = 1..n
    BY MountList
  <1>3. /\ mounts'[1] = FreshMount(mp, posix, EmptyTree)
        /\ Len(mounts') = 1 + n /\ DOMAIN mounts' = 1..(1 + n)
        /\ \A j \in DOMAIN mounts : mounts'[j + 1] = mounts[j]
    BY <1>1, <1>2, NewMountList
  <1>4. mounts'[1].mp = mp
    BY <1>3 DEF FreshMount
  <1>5. \A j \in DOMAIN mounts : mounts[j] = mounts'[Skip(1, j)]
    BY <1>2, <1>3 DEF Skip
  <1>6. Without(mounts', mounts, 1)
    BY <1>2, <1>3, <1>5 DEF Without, MountsInv
  <1> QED
    BY <1>4, <1>6, WithoutLocal

LEMMA UnmountWithout ==
  ASSUME MountsInv, NEW mp, Unmount(mp)
  PROVE  \E i \in DOMAIN mounts :
           /\ Without(mounts, mounts', i) /\ mounts[i].mp = mp
           /\ Tidy => UsersOf(mounts[i].id) = {}
  <1>1. PICK i \in 1..Len(mounts) :
          /\ mounts[i].mp = mp /\ (Tidy => UsersOf(mounts[i].id) = {})
          /\ Len(mounts') = Len(mounts) - 1 /\ DOMAIN mounts' = 1..(Len(mounts) - 1)
          /\ \A j \in DOMAIN mounts' :
               \/ j \in DOMAIN mounts /\ j < i /\ mounts'[j] = mounts[j]
               \/ j + 1 \in DOMAIN mounts /\ ~(j < i) /\ mounts'[j] = mounts[j + 1]
    BY UnmountList
  <1>2. \A j \in DOMAIN mounts' : mounts'[j] = mounts[Skip(i, j)]
    BY <1>1 DEF Skip
  <1>3. Without(mounts, mounts', i)
    BY <1>1, <1>2, MountList DEF Without, MountsInv
  <1> QED
    BY <1>1, <1>3, MountList

LEMMA UnmountLocal ==
  ASSUME MountsInv, NEW mp \in Mountpoints, Unmount(mp)
  PROVE  Local
  BY UnmountWithout, WithoutLocal

LEMMA StepIsLocal ==
  ASSUME CoreInv, [Next]_vars
  PROVE  Local
  <1>1. MountsInv /\ MountsInv'
    BY StepIsSafe DEF CoreInv, Safe
  <1>2. CASE UNCHANGED mounts
    BY <1>1, <1>2, GrowsItself, GrowsLocal
  <1>3. CASE VfsInit \/ Shutdown
    <2>1. (~inited /\ inited') \/ (inited /\ ~inited')
      BY <1>3 DEF VfsInit, Shutdown
    <2>2. inited' # inited
      BY <2>1
    <2> QED
      BY <2>2 DEF Local
  <1>4. ASSUME NEW mp \in Mountpoints, NEW posix \in BOOLEAN, Mount(mp, posix) PROVE Local
    BY <1>1, <1>4, MountLocal
  <1>5. ASSUME NEW mp \in Mountpoints, Unmount(mp) PROVE Local
    BY <1>1, <1>5, UnmountLocal
  <1>6. ASSUME NEW path \in Paths, Resolve(path) \/ Stat(path) \/ Readdir(path) PROVE Local
    BY <1>1, <1>6, ResolvedGrows, GrowsLocal DEF Stat, Readdir, Resolve
  <1>7. ASSUME NEW path \in Paths, NEW flags \in Flags, Open(path, flags) PROVE Local
    <2>1. CASE OpenCreat(path, flags)
      <3>1. PICK b, file : mounts' = Opened(mounts, b, file)
        BY <2>1 DEF OpenCreat
      <3>2. Grows(mounts, mounts')
        BY <1>1, <3>1, MountsAreMounts, OpenedGrows
      <3> QED
        BY <3>2, GrowsLocal
    <2>2. CASE OpenTree(path, flags)
      BY <1>1, <2>2, OpenTreeGrows, GrowsLocal
    <2> QED
      BY <1>7, <2>1, <2>2 DEF Open
  <1>8. ASSUME NEW s \in Slots, Close(s) \/ ReadsFreed(s) PROVE Local
    BY <1>2, <1>8 DEF Close, ReadsFreed
  <1>9. ASSUME NEW s \in Slots, NEW end \in 1..MaxSize, Write(s, end) PROVE Local
    <2>1. ASSUME NEW w, NEW q, mounts' = [mounts EXCEPT ![w].tree[q].size = Grow(@, end)]
          PROVE  Local
      <3>1. PICK v : mounts' = SizeSet(mounts, w, q, v)
        BY <2>1 DEF SizeSet
      <3>2. Grows(mounts, mounts')
        BY <1>1, <3>1, MountsAreMounts, FieldGrows
      <3> QED
        BY <3>2, GrowsLocal
    <2> QED
      BY <1>2, <1>9, <2>1 DEF Write
  <1> QED
    BY <1>2, <1>3, <1>4, <1>5, <1>6, <1>7, <1>8, <1>9 DEF Next, vars

\* A mount or an unmount changes which mount serves a path only at and below its
\* mountpoint.
THEOREM MountLocalityAlways ==
  Spec => MountLocality
  <1>1. CoreInv /\ [Next]_vars => [Local]_vars
    BY StepIsLocal
  <1> QED
    BY <1>1, CoreInvariance, PTL DEF Spec, MountLocality, Local
----------------------------------------------------------------------------
\* The files that backends have open.

\* Callers mount at "/" or at names: with no slash at the end, and no dots.
PlainMountpoints == \A mp \in Mountpoints : mp = Root \/ mp \in Seq(STRING \ Special)

\* The mount chosen for a path serves it; the root mount only if no other does, and the
\* newest of those.
LEMMA BestServes ==
  ASSUME MountsInv, NEW path, NEW b, b = Best(path), b # 0
  PROVE  /\ b \in DOMAIN mounts
         /\ mounts[b].mp = Root \/ IsPrefix(mounts[b].mp, path)
         /\ mounts[b].mp = Root =>
              \A i \in DOMAIN mounts :
                IF mounts[i].mp = Root THEN b <= i ELSE ~IsPrefix(mounts[i].mp, path)
  <1> DEFINE S == STRING \cup {Empty}
  <1>1. PICK n \in Nat : n = Len(mounts) /\ DOMAIN mounts = 1..n
    BY MountList
  <1>2. \A i \in DOMAIN mounts : mounts[i].mp \in Seq(S) /\ mounts[i].mp # <<>>
    <2>1. Root \in Seq(S) /\ Root # <<>> /\ \A p \in Mountpoints : p \in Seq(S) /\ p # <<>>
      BY PathsAssumption, SeqMonotonic DEF Root
    <2> HIDE DEF S
    <2> QED
      BY <2>1 DEF MountsInv, IsMount
  <1>3. PICK mps : mps = Mps
    OBVIOUS
  <1>4. mps \in Seq(Seq(S)) /\ Len(mps) = n /\ \A i \in 1..n : mps[i] = mounts[i].mp
    <2> HIDE DEF S
    <2> QED
      BY <1>1, <1>2, <1>3 DEF Mps
  <1>5. Found(path, mps, n, b)
    <2>1. Found(path, mps, Len(mps), FindBestMount(path, mps))
      BY <1>4, BestMount
    <2> QED
      BY <1>3, <1>4, <2>1 DEF Best
  <1>6. b \in 1..n /\ Serves(path, mps, b)
    BY <1>5 DEF Found
  <1>7. ASSUME mounts[b].mp = Root, NEW i \in 1..n
        PROVE  IF mounts[i].mp = Root THEN b <= i ELSE ~IsPrefix(mounts[i].mp, path)
    <2>1. MpLen(mps[b]) = 1 /\ (mounts[i].mp = Root => MpLen(mps[i]) = 1)
      BY <1>4, <1>6, <1>7 DEF MpLen
    <2>2. Serves(path, mps, i) => MpLen(mps[i]) <= 1 /\ (MpLen(mps[i]) = 1 => b <= i)
      BY <1>5, <1>6, <2>1 DEF Found
    <2>3. mounts[i].mp # Root => MpLen(mps[i]) > 1
      <3>1. Len(mounts[i].mp) \in Nat \ {0}
        BY <1>1, <1>2, EmptySeq
      <3> QED
        BY <1>4, <3>1 DEF MpLen
    <2>4. Serves(path, mps, i) <=> mounts[i].mp = Root \/ IsPrefix(mounts[i].mp, path)
      BY <1>4 DEF Serves
    <2>5. mounts[i].mp = Root \/ (MpLen(mps[i]) > 1 => ~(MpLen(mps[i]) <= 1))
      <3>1. Len(mounts[i].mp) \in Nat
        BY <1>1, <1>2
      <3> QED
        BY <1>4, <3>1 DEF MpLen
    <2> QED
      BY <2>1, <2>2, <2>3, <2>4, <2>5
  <1> QED
    BY <1>1, <1>4, <1>6, <1>7 DEF Serves

\* No open of a dentry in a tree reaches a backend with a file: where a file is in a tree,
\* the root mount without a backend serves the path, and what a backend would have as a
\* file is walked below the backend's mountpoint.
LEMMA NoFileBehindTree ==
  ASSUME MountsInv, BackendFilesInv, PlainMountpoints, NEW path \in Paths,
         ResolveError(path) = "OK", NeedsBackend(path), TreeOpenError(path) = "OK"
  PROVE  FALSE
  <1>1. PICK w, q, b, norm : w = WalkMount(path) /\ q = Walk(path) /\ b = Best(path) /\ norm = NormalizePath(path)
    OBVIOUS
  <1>2. w \in DOMAIN mounts /\ q \in DOMAIN Resolved(path)[w].tree /\ w # 0 /\ w = Best(norm)
    BY <1>1, TargetThere DEF ResolveError, WalkMount, NormOf
  <1>3. mounts[w].mp = Root /\ ~mounts[w].posix
    <2>1. PICK tree : tree = mounts[w].tree /\ IsTree(tree)
      BY <1>2 DEF MountsInv, IsMount
    <2>2. Resolved(path)[w].tree = Grown(tree, q)
      BY <1>1, <1>2, <2>1, ResolvedGrows
    <2>3. Grown(tree, q)[q].kind # "dir"
      BY <1>1, <2>2 DEF TreeOpenError, Target
    <2>4. /\ DOMAIN Grown(tree, q) = DOMAIN tree \cup Prefixes(q)
          /\ \A r \in DOMAIN tree : Grown(tree, q)[r] = tree[r]
          /\ \A r \in Prefixes(q) \ DOMAIN tree : Grown(tree, q)[r] = Dir
      BY <2>1, GrownTree
    <2>5. q \in DOMAIN tree /\ tree[q].kind # "dir"
      BY <1>2, <2>2, <2>3, <2>4 DEF Dir
    <2>6. tree[q].kind = "reg"
      BY <2>1, <2>5 DEF IsTree, IsInode
    <2> QED
      BY <1>2, <2>1, <2>5, <2>6 DEF BackendFilesInv
  <1>4. b # 0 /\ mounts[b].posix
    BY <1>1 DEF NeedsBackend, HasBackend
  <1>5. /\ b \in DOMAIN mounts
        /\ mounts[b].mp = Root \/ IsPrefix(mounts[b].mp, path)
        /\ mounts[b].mp = Root =>
             \A i \in DOMAIN mounts :
               IF mounts[i].mp = Root THEN b <= i ELSE ~IsPrefix(mounts[i].mp, path)
    BY <1>1, <1>4, BestServes
  <1>6. \A i \in DOMAIN mounts : IF mounts[i].mp = Root THEN w <= i ELSE ~IsPrefix(mounts[i].mp, norm)
    BY <1>2, <1>3, BestServes
  <1>7. CASE mounts[b].mp = Root
    <2>1. b <= w /\ w <= b /\ b \in Nat /\ w \in Nat
      BY <1>2, <1>3, <1>5, <1>6, <1>7, MountList
    <2>2. b = w
      BY <2>1
    <2> QED
      BY <1>3, <1>4, <2>2
  <1>8. CASE mounts[b].mp # Root
    <2>1. PICK mp : mp = mounts[b].mp /\ mp # Root /\ IsPrefix(mp, path) /\ ~IsPrefix(mp, norm)
      BY <1>5, <1>6, <1>8
    <2>2. mp \in Mountpoints
      BY <1>5, <2>1 DEF MountsInv, IsMount
    <2>3. mp \in Seq(STRING \ Special) /\ mp # <<>> /\ path \in Seq(STRING)
      BY <2>1, <2>2, PathsAssumption DEF PlainMountpoints
    <2>4. Rel(path) = GetRelpath(path, mp)
      BY <1>1, <1>5, <2>1 DEF Rel, Mps
    <2>5. NamesFile(path)
      <3>1. BackendOpenError(path, "none") = "OK"
        BY DEF TreeOpenError
      <3> QED
        BY <3>1 DEF BackendOpenError, IsHostFile
    <2>6. NamesOne(GetRelpath(path, mp))
      BY <2>4, <2>5 DEF NamesFile, NamesOne
    <2> QED
      BY <1>1, <2>1, <2>3, <2>6, FileStaysBelow
  <1> QED
    BY <1>7, <1>8

\* The two parts of the invariant.
TreesPlain(ms) ==
  \A i \in DOMAIN ms : \A q \in DOMAIN ms[i].tree :
    /\ ms[i].tree[q].bh = 0
    /\ ms[i].tree[q].kind = "reg" => ms[i].mp = Root /\ ~ms[i].posix

OpenIn(ms, orphan) ==
  \E i \in DOMAIN ms :
    /\ ms[i].id = orphan.mount /\ ms[i].posix
    /\ orphan.inode.bh \in DOMAIN ms[i].opened
    /\ ms[i].opened[orphan.inode.bh] = orphan.inode.file

AllOpen(ms, os, gone) == \A o \in DOMAIN os \ gone : OpenIn(ms, os[o])

LEMMA TwoParts ==
  /\ BackendFilesInv <=> TreesPlain(mounts) /\ AllOpen(mounts, orphans, lost)
  /\ BackendFilesInv' <=> TreesPlain(mounts') /\ AllOpen(mounts', orphans', lost')
  BY DEF BackendFilesInv, TreesPlain, AllOpen, OpenIn

LEMMA PlainNewMount ==
  ASSUME MountsInv, NEW mp, NEW posix, NEW tree, mounts' = NewMount(mp, posix, tree),
         \A q \in DOMAIN tree : tree[q].bh = 0 /\ (tree[q].kind = "reg" => mp = Root /\ ~posix),
         BackendFilesInv, orphans' = orphans, lost' = lost
  PROVE  BackendFilesInv'
  <1>1. PICK m : m = FreshMount(mp, posix, tree) /\ mounts'[1] = m
    BY NewMountList
  <1>2. /\ \A i \in DOMAIN mounts' : i # 1 => i - 1 \in DOMAIN mounts /\ mounts'[i] = mounts[i - 1]
        /\ \A i \in DOMAIN mounts : i + 1 \in DOMAIN mounts' /\ mounts'[i + 1] = mounts[i]
    BY NewMountList
  <1>3. m.mp = mp /\ m.posix = posix /\ m.tree = tree
    BY <1>1 DEF FreshMount
  <1>4. \A i \in DOMAIN mounts' : mounts'[i] = m \/ \E j \in DOMAIN mounts : mounts'[i] = mounts[j]
    BY <1>1, <1>2
  <1>5. TreesPlain(mounts')
    BY <1>3, <1>4, TwoParts DEF TreesPlain
  <1>6. \A j \in DOMAIN mounts : \E i \in DOMAIN mounts' : mounts'[i] = mounts[j]
    BY <1>2
  <1>7. AllOpen(mounts', orphans, lost)
    BY <1>6, TwoParts DEF AllOpen, OpenIn
  <1> QED
    BY <1>5, <1>7, TwoParts

\* A mount that has no users leaves.
LEMMA PlainUnmount ==
  ASSUME CoreInv, BackendFilesInv, Tidy, NEW mp, Unmount(mp)
  PROVE  BackendFilesInv'
  <1>1. MountsInv /\ KeepersInv /\ orphans' = orphans /\ lost' = lost
    BY DEF CoreInv, Unmount
  <1>2. PICK k \in DOMAIN mounts : Without(mounts, mounts', k) /\ UsersOf(mounts[k].id) = {}
    BY <1>1, UnmountWithout
  <1>3. /\ \A j \in DOMAIN mounts' : \E i \in DOMAIN mounts : mounts'[j] = mounts[i]
        /\ \A i \in DOMAIN mounts : i # k => \E j \in DOMAIN mounts' : mounts'[j] = mounts[i]
    <2>1. /\ \A j \in DOMAIN mounts' : Skip(k, j) \in DOMAIN mounts \ {k} /\ mounts'[j] = mounts[Skip(k, j)]
          /\ \A i \in DOMAIN mounts \ {k} : \E j \in DOMAIN mounts' : i = Skip(k, j)
      BY <1>2, WithoutSkips
    <2> QED
      BY <2>1
  <1>4. TreesPlain(mounts')
    BY <1>3, TwoParts DEF TreesPlain
  <1>5. ASSUME NEW o \in DOMAIN orphans \ lost
        PROVE  OpenIn(mounts', orphans[o])
    <2>1. PICK i \in DOMAIN mounts :
            /\ mounts[i].id = orphans[o].mount /\ mounts[i].posix
            /\ orphans[o].inode.bh \in DOMAIN mounts[i].opened
            /\ mounts[i].opened[orphans[o].inode.bh] = orphans[o].inode.file
      BY DEF BackendFilesInv
    <2>2. PICK s \in DOMAIN fhs : fhs[s] = <<"orphan", o>>
      BY <1>1 DEF KeepersInv
    <2>3. s \in UsersOf(orphans[o].mount)
      <3>1. fhs[s][1] # "tree" /\ fhs[s][2] = o
        BY <2>2
      <3> QED
        BY <3>1 DEF UsersOf
    <2>4. i # k
      BY <1>2, <2>1, <2>3
    <2> QED
      BY <1>3, <2>1, <2>4 DEF OpenIn
  <1> QED
    BY <1>1, <1>4, <1>5, TwoParts DEF AllOpen

LEMMA PlainResolve ==
  ASSUME MountsInv, BackendFilesInv, NEW path, mounts' = Resolved(path), orphans' = orphans, lost' = lost
  PROVE  BackendFilesInv'
  <1>1. /\ Grows(mounts, mounts')
        /\ \A i \in DOMAIN mounts :
             /\ mounts'[i].opened = mounts[i].opened
             /\ mounts'[i].tree =
                  IF i = WalkMount(path) THEN Grown(mounts[i].tree, Walk(path)) ELSE mounts[i].tree
    BY ResolvedGrows
  <1>2. /\ DOMAIN mounts' = DOMAIN mounts
        /\ \A i \in DOMAIN mounts :
             /\ mounts'[i].id = mounts[i].id /\ mounts'[i].mp = mounts[i].mp
             /\ mounts'[i].posix = mounts[i].posix
    BY <1>1 DEF Grows, Keeps, TreeKeeps
  <1>3. ASSUME NEW i \in DOMAIN mounts, NEW q \in DOMAIN mounts'[i].tree
        PROVE  \/ q \in DOMAIN mounts[i].tree /\ mounts'[i].tree[q] = mounts[i].tree[q]
               \/ mounts'[i].tree[q] = Dir
    <2>1. CASE i # WalkMount(path)
      BY <1>1, <1>3, <2>1
    <2>2. CASE i = WalkMount(path)
      <3>1. PICK tree, names : tree = mounts[i].tree /\ names = Walk(path)
        OBVIOUS
      <3>2. IsTree(tree)
        BY <3>1 DEF MountsInv, IsMount
      <3>3. /\ DOMAIN Grown(tree, names) = DOMAIN tree \cup Prefixes(names)
            /\ \A r \in DOMAIN tree : Grown(tree, names)[r] = tree[r]
            /\ \A r \in Prefixes(names) \ DOMAIN tree : Grown(tree, names)[r] = Dir
        BY <3>2, GrownTree
      <3>4. mounts'[i].tree = Grown(tree, names)
        BY <1>1, <2>2, <3>1
      <3> QED
        BY <1>3, <3>1, <3>3, <3>4
    <2> QED
      BY <2>1, <2>2
  <1>4. Dir.bh = 0 /\ Dir.kind # "reg"
    BY DEF Dir
  <1>5. TreesPlain(mounts')
    BY <1>2, <1>3, <1>4, TwoParts DEF TreesPlain
  <1>6. AllOpen(mounts', orphans, lost)
    BY <1>1, <1>2, TwoParts DEF AllOpen, OpenIn
  <1> QED
    BY <1>5, <1>6, TwoParts

\* A write changes no more of an inode than its size.
LEMMA PlainWrite ==
  ASSUME CoreInv, ShapeInv, BackendFilesInv, NEW s, NEW end, Write(s, end)
  PROVE  BackendFilesInv'
  <1>1. MountsInv /\ lost' = lost
    BY DEF CoreInv, Write
  <1>2. ASSUME NEW w, NEW q, mounts' = [mounts EXCEPT ![w].tree[q].size = Grow(@, end)], orphans' = orphans
        PROVE  BackendFilesInv'
    <2>1. PICK n : n = mounts[w].tree[q]
      OBVIOUS
    <2>2. PICK inode : inode = [n EXCEPT !.size = Grow(n.size, end)]
      OBVIOUS
    <2>3. PICK ns : ns = InodeSet(mounts, w, q, inode) /\ mounts' = ns
      BY <1>2, <2>1, <2>2 DEF InodeSet
    <2>4. IsInode(mounts[w].tree[q]) => IsInode(inode) /\ inode.kind = mounts[w].tree[q].kind
      BY <2>1, <2>2, FieldsReplaced
    <2>5. mounts = [i \in DOMAIN mounts |-> mounts[i]] /\ \A i \in DOMAIN mounts : IsMount(mounts[i])
      BY <1>1, MountsAreMounts
    <2>6. /\ Grows(mounts, ns)
          /\ \A i \in DOMAIN mounts :
               /\ ns[i].opened = mounts[i].opened
               /\ ns[i].tree = IF i = w THEN [mounts[i].tree EXCEPT ![q] = inode] ELSE mounts[i].tree
      BY <2>3, <2>4, <2>5, InodeGrows
    <2>7. /\ DOMAIN ns = DOMAIN mounts
          /\ \A i \in DOMAIN mounts :
               ns[i].id = mounts[i].id /\ ns[i].mp = mounts[i].mp /\ ns[i].posix = mounts[i].posix
      BY <2>6 DEF Grows, Keeps, TreeKeeps
    <2>8. IsInode(n) => inode.bh = n.bh /\ inode.kind = n.kind
      BY <2>2 DEF IsInode
    <2>9. ASSUME NEW i \in DOMAIN mounts, NEW r \in DOMAIN ns[i].tree
          PROVE  /\ r \in DOMAIN mounts[i].tree
                 /\ ns[i].tree[r].bh = mounts[i].tree[r].bh /\ ns[i].tree[r].kind = mounts[i].tree[r].kind
      <3>1. CASE i # w \/ r # q
        BY <2>6, <2>9, <3>1
      <3>2. CASE i = w /\ r = q
        <4>1. r \in DOMAIN mounts[i].tree /\ ns[i].tree[r] = inode
          BY <2>6, <2>9, <3>2
        <4>2. IsInode(n)
          BY <2>1, <2>5, <3>2, <4>1 DEF IsMount, IsTree
        <4> QED
          BY <2>1, <2>8, <3>2, <4>1, <4>2
      <3> QED
        BY <3>1, <3>2
    <2>10. TreesPlain(ns)
      BY <2>7, <2>9, TwoParts DEF TreesPlain
    <2>11. AllOpen(ns, orphans, lost)
      <3>1. \A i \in DOMAIN mounts : ns[i].opened = mounts[i].opened
        BY <2>6
      <3>2. \A orphan : OpenIn(mounts, orphan) => OpenIn(ns, orphan)
        BY <2>7, <3>1 DEF OpenIn
      <3> QED
        BY <3>2, TwoParts DEF AllOpen
    <2> QED
      BY <1>1, <1>2, <2>3, <2>10, <2>11, TwoParts
  <1>3. ASSUME NEW k, orphans' = [orphans EXCEPT ![k].inode.size = Grow(@, end)], mounts' = mounts
        PROVE  BackendFilesInv'
    <2>1. DOMAIN orphans' = DOMAIN orphans /\ \A o \in DOMAIN orphans : o # k => orphans'[o] = orphans[o]
      BY <1>3
    <2>2. ASSUME k \in DOMAIN orphans
          PROVE  /\ orphans'[k].mount = orphans[k].mount
                 /\ orphans'[k].inode.bh = orphans[k].inode.bh /\ orphans'[k].inode.file = orphans[k].inode.file
      <3>1. PICK r \in [inode : Inodes, mount : Ids] : r = orphans[k]
        BY <2>2 DEF ShapeInv
      <3>2. PICK n \in Inodes : n = r.inode
        BY <3>1
      <3>3. PICK new : new = [n EXCEPT !.size = Grow(n.size, end)]
        OBVIOUS
      <3>4. new.bh = n.bh /\ new.file = n.file
        BY <3>2, <3>3 DEF Inodes
      <3>5. orphans'[k] = [r EXCEPT !.inode = new]
        BY <1>3, <2>2, <3>1, <3>2, <3>3
      <3> QED
        BY <3>1, <3>2, <3>4, <3>5
    <2>3. AllOpen(mounts, orphans', lost)
      BY <2>1, <2>2, TwoParts DEF AllOpen, OpenIn
    <2> QED
      BY <1>1, <1>3, <2>3, TwoParts
  <1> QED
    BY <1>2, <1>3 DEF Write

\* A new file is open under the number that its inode keeps.
LEMMA PlainOpenCreat ==
  ASSUME CoreInv, ShapeInv, BackendFilesInv, NEW path \in Paths, NEW flags, OpenCreat(path, flags)
  PROVE  BackendFilesInv'
  <1>1. MountsInv /\ AreShaped(mounts)
    BY DEF CoreInv, ShapeInv, AreShaped
  <1>2. PICK b, file, n : b = Best(path) /\ file = HostFile(path) /\ n = NextHandle(b)
    OBVIOUS
  <1>3. b \in DOMAIN mounts /\ mounts[b].posix /\ file \in Files
    BY <1>1, <1>2, AskedFor DEF OpenCreat
  <1>4. PICK ns : ns = Opened(mounts, b, file) /\ mounts' = ns
    BY <1>2 DEF OpenCreat
  <1>5. /\ Grows(mounts, ns)
        /\ \A i \in DOMAIN mounts :
             /\ ns[i].tree = mounts[i].tree
             /\ ns[i].opened = IF i = b THEN Append(mounts[i].opened, file) ELSE mounts[i].opened
    BY <1>1, <1>4, MountsAreMounts, OpenedGrows
  <1>6. /\ DOMAIN ns = DOMAIN mounts
        /\ \A i \in DOMAIN mounts :
             ns[i].id = mounts[i].id /\ ns[i].mp = mounts[i].mp /\ ns[i].posix = mounts[i].posix
    BY <1>5 DEF Grows, Keeps, TreeKeeps
  <1>7. /\ n \in DOMAIN ns[b].opened /\ ns[b].opened[n] = file
        /\ \A h \in DOMAIN mounts[b].opened : h \in DOMAIN ns[b].opened /\ ns[b].opened[h] = mounts[b].opened[h]
    <2>1. PICK opened \in Seq(Files) : opened = mounts[b].opened
      BY <1>1, <1>3 DEF AreShaped, IsShaped
    <2>2. ns[b].opened = Append(opened, file) /\ n = Len(opened) + 1
      BY <1>2, <1>3, <1>5, <2>1 DEF NextHandle
    <2> QED
      BY <1>3, <2>1, <2>2
  <1>8. TreesPlain(ns)
    BY <1>5, <1>6, TwoParts DEF TreesPlain
  <1>9. \A orphan : OpenIn(mounts, orphan) => OpenIn(ns, orphan)
    BY <1>5, <1>6, <1>7 DEF OpenIn
  <1>10. PICK o, new : /\ o = NewOrphan /\ new = [inode |-> Reg(n, file), mount |-> mounts[b].id]
                       /\ orphans' = With(orphans, o, new) /\ lost \subseteq lost'
    BY <1>2 DEF OpenCreat
  <1>11. OpenIn(ns, new)
    <2>1. new.inode = Reg(n, file) /\ new.mount = mounts[b].id
      BY <1>10
    <2>2. new.inode.bh = n /\ new.inode.file = file
      BY <2>1 DEF Reg
    <2> QED
      BY <1>3, <1>6, <1>7, <2>1, <2>2 DEF OpenIn
  <1>12. AllOpen(ns, orphans', lost')
    BY <1>9, <1>10, <1>11, TwoParts DEF AllOpen, With
  <1> QED
    BY <1>4, <1>8, <1>12, TwoParts

LEMMA BackendFilesStep ==
  ASSUME CoreInv, ShapeInv, BackendFilesInv, Tidy, PlainMountpoints, [Next]_vars
  PROVE  BackendFilesInv'
  <1>1. MountsInv
    BY DEF CoreInv
  <1>2. CASE UNCHANGED <<mounts, orphans, lost>>
    BY <1>2 DEF BackendFilesInv
  <1>3. CASE VfsInit
    <2>1. \A q \in DOMAIN SampleTree : SampleTree[q].bh = 0
      BY DEF SampleTree, Dir, Reg
    <2> QED
      BY <1>1, <1>3, <2>1, PlainNewMount DEF VfsInit
  <1>4. CASE Shutdown
    <2>1. mounts' = <<>> /\ DOMAIN mounts' = {} /\ DOMAIN orphans' = lost /\ lost' = lost
      BY <1>4 DEF Shutdown, Restrict
    <2> QED
      BY <2>1 DEF BackendFilesInv
  <1>5. ASSUME NEW mp \in Mountpoints, NEW posix \in BOOLEAN, Mount(mp, posix) PROVE BackendFilesInv'
    <2>1. \A q \in DOMAIN EmptyTree : EmptyTree[q].bh = 0 /\ EmptyTree[q].kind # "reg"
      BY DEF EmptyTree, Dir
    <2> QED
      BY <1>1, <1>5, <2>1, PlainNewMount DEF Mount
  <1>6. ASSUME NEW mp \in Mountpoints, Unmount(mp) PROVE BackendFilesInv'
    BY <1>6, PlainUnmount
  <1>7. ASSUME NEW path \in Paths, Resolve(path) \/ Stat(path) \/ Readdir(path) PROVE BackendFilesInv'
    BY <1>1, <1>7, PlainResolve DEF Stat, Readdir, Resolve
  <1>8. ASSUME NEW path \in Paths, NEW flags \in Flags, Open(path, flags) PROVE BackendFilesInv'
    <2>1. CASE OpenCreat(path, flags)
      BY <2>1, PlainOpenCreat
    <2>2. CASE OpenTree(path, flags)
      <3>1. ~(NeedsBackend(path) /\ TreeOpenError(path) = "OK")
        BY <1>1, <2>2, NoFileBehindTree DEF OpenTree
      <3>2. mounts' = Resolved(path) /\ orphans' = orphans /\ lost' = lost
        BY <2>2, <3>1 DEF OpenTree
      <3> QED
        BY <1>1, <3>2, PlainResolve
    <2> QED
      BY <1>8, <2>1, <2>2 DEF Open
  <1>9. ASSUME NEW s \in Slots, Close(s) \/ ReadsFreed(s) PROVE BackendFilesInv'
    <2>1. CASE Close(s)
      <3>1. /\ mounts' = mounts /\ lost' = lost
            /\ \A o \in DOMAIN orphans' : o \in DOMAIN orphans /\ orphans'[o] = orphans[o]
        BY <2>1 DEF Close, Restrict
      <3> QED
        BY <3>1 DEF BackendFilesInv
    <2>2. CASE ReadsFreed(s)
      BY <1>2, <2>2 DEF ReadsFreed
    <2> QED
      BY <1>9, <2>1, <2>2
  <1>10. ASSUME NEW s \in Slots, NEW end \in 1..MaxSize, Write(s, end) PROVE BackendFilesInv'
    BY <1>10, PlainWrite
  <1> QED
    BY <1>2, <1>3, <1>4, <1>5, <1>6, <1>7, <1>8, <1>9, <1>10 DEF Next, vars

\* With one backend mounted, the first mount that has one is the one that the file was
\* opened in.
LEMMA OnlyBackendReached ==
  ASSUME CoreInv, ShapeInv, BackendFilesInv
  PROVE  IoOfOnlyBackend
  <1> SUFFICES ASSUME Cardinality({i \in DOMAIN mounts : mounts[i].posix}) = 1,
                      NEW s \in DOMAIN fhs, ~Dangling(s), Inode(s).bh # 0
               PROVE  Reached(s) = Inode(s).file
    BY DEF IoOfOnlyBackend, IoReachesItsFile
  <1>1. PICK n \in Nat : n = Len(mounts) /\ DOMAIN mounts = 1..n
    BY MountList DEF CoreInv
  <1>2. CASE fhs[s][1] = "tree"
    <2>1. \E i \in DOMAIN mounts : mounts[i].id = fhs[s][2]
      BY <1>2 DEF Dangling, Live
    <2>2. PICK i \in DOMAIN mounts : i = IndexOf(fhs[s][2]) /\ mounts[i].id = fhs[s][2]
      BY <2>1 DEF IndexOf
    <2>3. fhs[s][3] \in DOMAIN mounts[i].tree
      BY <1>2, <2>2 DEF CoreInv, FilesInv
    <2>4. Inode(s) = mounts[i].tree[fhs[s][3]]
      BY <1>2, <2>2 DEF Inode
    <2> QED
      BY <2>3, <2>4 DEF BackendFilesInv
  <1>3. CASE fhs[s][1] # "tree"
    <2>1. PICK o \in DOMAIN orphans \ lost : fhs[s] = <<"orphan", o>>
      BY <1>3 DEF CoreInv, KeepersInv
    <2>2. Inode(s) = orphans[o].inode
      BY <1>3, <2>1 DEF Inode
    <2>3. PICK i \in DOMAIN mounts :
            /\ mounts[i].posix
            /\ Inode(s).bh \in DOMAIN mounts[i].opened
            /\ mounts[i].opened[Inode(s).bh] = Inode(s).file
      BY <2>1, <2>2 DEF BackendFilesInv
    <2> DEFINE I == {j \in DOMAIN mounts : mounts[j].posix}
    <2>4. I = {i}
      <3>1. IsFiniteSet(DOMAIN mounts) /\ I \in SUBSET DOMAIN mounts
        BY <1>1, FS_Interval
      <3>2. i \in I
        BY <2>3
      <3> HIDE DEF I
      <3>3. IsFiniteSet(I)
        BY <3>1, FS_Subset
      <3>4. \E x : I = {x}
        BY <3>3, FS_Singleton DEF I
      <3> QED
        BY <3>2, <3>4
    <2>5. Dispatched = i
      <3>1. Dispatched = IF I # {} THEN CHOOSE x \in I : \A y \in I : x <= y ELSE 0
        BY <1>1 DEF Dispatched, SelectInSeq, Min
      <3>2. i <= i
        BY <1>1
      <3> HIDE DEF I
      <3> QED
        BY <2>4, <3>1, <3>2
    <2>6. Dispatched # 0
      BY <1>1, <2>5
    <2> QED
      BY <2>3, <2>5, <2>6 DEF Reached
  <1> QED
    BY <1>2, <1>3

\* Where callers close their files before they unmount, and mount at "/" or at names, a
\* read or write reaches the file that was opened whenever one backend only is mounted.
THEOREM IoOfOnlyBackendAlways ==
  ASSUME Tidy, PlainMountpoints
  PROVE  Spec => []IoOfOnlyBackend
  <1>1. Init => BackendFilesInv
    <2> SUFFICES ASSUME Init PROVE BackendFilesInv
      OBVIOUS
    <2>1. DOMAIN mounts = {} /\ DOMAIN orphans = {}
      BY DEF Init
    <2> QED
      BY <2>1 DEF BackendFilesInv
  <1>2. CoreInv /\ ShapeInv /\ BackendFilesInv /\ [Next]_vars => BackendFilesInv'
    BY BackendFilesStep
  <1>3. CoreInv /\ ShapeInv /\ BackendFilesInv => IoOfOnlyBackend
    BY OnlyBackendReached
  <1> QED
    BY <1>1, <1>2, <1>3, CoreInvariance, ShapeInvariance, PTL DEF Spec
=============================================================================
