--------------------------- MODULE TreeWalksProofs ---------------------------
(***************************************************************************)
(* Proofs about TreeWalks, for any threads, paths, mountpoints, sample     *)
(* tree and ids.                                                           *)
(***************************************************************************)
EXTENDS TreeWalks, VfsPathsProofs

----------------------------------------------------------------------------
\* What the steps that change the trees do to each field.

\* A new dentry below p: its fields, and those of the others.
LEMMA AddFields ==
  ASSUME TypesInv,
         NEW t \in Threads, NEW d \in NodeIds \ DOMAIN node, NEW p \in DOMAIN node, NEW name,
         node' = AddChild(t, d, name, p)
  PROVE  /\ DOMAIN node' = DOMAIN node \cup {d}
         /\ node'[d].name = name /\ node'[d].parent = p
         /\ node'[d].ino = ino[t] /\ node'[d].maker = t /\ node'[d].root = node[p].root
         /\ \A e \in DOMAIN node :
              /\ node'[e].name = node[e].name /\ node'[e].parent = node[e].parent
              /\ node'[e].ino = node[e].ino /\ node'[e].maker = node[e].maker
              /\ node'[e].root = node[e].root
  <1>1. DOMAIN node' = DOMAIN node \cup {d} /\ node'[d] = NewNode(t, d, name, p)
    BY DEF AddChild
  <1>2. p # NoNode
    BY IdsAssumption DEF TypesInv
  <1>3. /\ node'[d].name = name /\ node'[d].parent = p
        /\ node'[d].ino = ino[t] /\ node'[d].maker = t /\ node'[d].root = node[p].root
    BY <1>1, <1>2 DEF NewNode
  <1>4. \A e \in DOMAIN node \ {p} : node'[e] = node[e]
    BY DEF AddChild
  <1>5. /\ node'[p].name = node[p].name /\ node'[p].parent = node[p].parent
        /\ node'[p].ino = node[p].ino /\ node'[p].maker = node[p].maker
        /\ node'[p].root = node[p].root
    <2>1. node'[p] = [node[p] EXCEPT !.kids = <<d>> \o node[p].kids]
      BY DEF AddChild
    <2>2. node[p] = [f \in Fields |-> node[p][f]]
      BY DEF TypesInv
    <2> QED
      BY <2>1, <2>2 DEF Fields
  <1> QED
    BY <1>1, <1>3, <1>4, <1>5

\* What a list with a new first element holds.
LEMMA Prepended ==
  ASSUME NEW S, NEW x \in S, NEW s \in Seq(S)
  PROVE  /\ <<x>> \o s \in Seq(S)
         /\ DOMAIN (<<x>> \o s) = 1..(Len(s) + 1)
         /\ (<<x>> \o s)[1] = x
         /\ \A i \in DOMAIN s : i + 1 \in DOMAIN (<<x>> \o s) /\ (<<x>> \o s)[i + 1] = s[i]
         /\ \A j \in DOMAIN (<<x>> \o s) : j # 1 => j - 1 \in DOMAIN s /\ (<<x>> \o s)[j] = s[j - 1]
  <1>1. <<x>> \in Seq(S) /\ Len(<<x>>) = 1 /\ <<x>>[1] = x
    OBVIOUS
  <1>2. Len(s) \in Nat /\ DOMAIN s = 1..Len(s)
    OBVIOUS
  <1>3. <<x>> \o s \in Seq(S) /\ Len(<<x>> \o s) = 1 + Len(s)
    BY <1>1, ConcatProperties
  <1>4. \A i \in 1..(1 + Len(s)) :
          (<<x>> \o s)[i] = IF i <= 1 THEN <<x>>[i] ELSE s[i - 1]
    BY <1>1, ConcatProperties
  <1> QED
    BY <1>1, <1>2, <1>3, <1>4

\* A name that occurs once in a list still does when another is put in front.
LEMMA OnceMore ==
  ASSUME NEW S, NEW x \in S, NEW s \in Seq(S), NEW e, e # x, OnceIn(e, s)
  PROVE  OnceIn(e, <<x>> \o s)
  <1>1. PICK i \in DOMAIN s : \A j \in DOMAIN s : s[j] = e <=> j = i
    BY DEF OnceIn
  <1>2. i + 1 \in DOMAIN (<<x>> \o s) /\ i \in Nat \ {0}
    BY Prepended
  <1>3. ASSUME NEW j \in DOMAIN (<<x>> \o s) PROVE (<<x>> \o s)[j] = e <=> j = i + 1
    <2>1. j \in Nat
      BY Prepended
    <2>2. CASE j = 1
      BY <2>2, <1>2, Prepended
    <2>3. CASE j # 1
      <3>1. j - 1 \in DOMAIN s /\ (<<x>> \o s)[j] = s[j - 1]
        BY <2>3, Prepended
      <3>2. s[j - 1] = e <=> j - 1 = i
        BY <3>1, <1>1
      <3> QED
        BY <3>1, <3>2, <2>1, <1>2
    <2> QED
      BY <2>2, <2>3
  <1> QED
    BY <1>2, <1>3 DEF OnceIn

----------------------------------------------------------------------------
\* Trees stay trees, whichever way they change.

\* When a dentry is added.
LEMMA AddSound ==
  ASSUME TypesInv, RootsInv, TreeSound,
         NEW t \in Threads, NEW d \in NodeIds \ DOMAIN node, NEW p \in DOMAIN node, NEW name,
         node' = AddChild(t, d, name, p), mount' = mount
  PROVE  RootsInv' /\ TreeSound'
  <1> DEFINE longer == <<d>> \o node[p].kids
  <1>1. /\ p # NoNode /\ node[p].kids \in Seq(NodeIds) /\ d \in NodeIds
        /\ \A e \in DOMAIN node : node[e].kids \in Seq(NodeIds)
    BY IdsAssumption DEF TypesInv
  <1>2. /\ DOMAIN node' = DOMAIN node \cup {d}
        /\ node'[d].parent = p /\ node'[d].kids = <<>> /\ node'[d].root = node[p].root
        /\ \A e \in DOMAIN node : node'[e].parent = node[e].parent /\ node'[e].root = node[e].root
        /\ \A e \in DOMAIN node \ {p} : node'[e].kids = node[e].kids
        /\ node'[p].kids = longer
    <2>1. /\ DOMAIN node' = DOMAIN node \cup {d}
          /\ node'[d].parent = p /\ node'[d].kids = <<>> /\ node'[d].root = node[p].root
      BY <1>1 DEF AddChild, NewNode
    <2>2. \A e \in DOMAIN node : node'[e].parent = node[e].parent /\ node'[e].root = node[e].root
      BY AddFields
    <2>3. \A e \in DOMAIN node \ {p} : node'[e].kids = node[e].kids
      BY DEF AddChild
    <2>4. node'[p].kids = longer
      <3>1. node'[p] = [node[p] EXCEPT !.kids = <<d>> \o node[p].kids]
        BY DEF AddChild
      <3>2. node[p] = [f \in Fields |-> node[p][f]]
        BY DEF TypesInv
      <3> QED
        BY <3>1, <3>2 DEF Fields
    <2> QED
      BY <2>1, <2>2, <2>3, <2>4
  <1>3. RootsInv'
    BY <1>1, <1>2 DEF RootsInv
  <1>4. \A m \in DOMAIN mount : mount[m].root # d
    BY DEF RootsInv
  <1>5. d \notin {node[p].kids[i] : i \in DOMAIN node[p].kids}
    BY DEF TreeSound
  <1> HIDE DEF longer
  <1>6. /\ DOMAIN longer = 1..(Len(node[p].kids) + 1) /\ longer[1] = d
        /\ \A j \in DOMAIN longer : j # 1 => j - 1 \in DOMAIN node[p].kids /\ longer[j] = node[p].kids[j - 1]
    BY <1>1, Prepended DEF longer
  <1>7. ASSUME NEW e \in DOMAIN node'
        PROVE  node'[e].parent = NoNode <=> \E m \in DOMAIN mount' : mount'[m].root = e
    BY <1>1, <1>2, <1>4 DEF TreeSound
  <1>8. ASSUME NEW e \in DOMAIN node', node'[e].parent # NoNode
        PROVE  LinkedOnce(e, node[e].parent)'
    <2>1. CASE e = d
      <3>1. \A j \in DOMAIN longer : longer[j] = d <=> j = 1
        BY <1>5, <1>6
      <3>2. 1 \in DOMAIN longer
        BY <1>1, <1>6
      <3> QED
        BY <2>1, <3>1, <3>2, <1>2 DEF LinkedOnce, OnceIn
    <2>2. CASE e # d
      <3>1. e \in DOMAIN node /\ LinkedOnce(e, node[e].parent)
        BY <2>2, <1>2, <1>8 DEF TreeSound
      <3>2. CASE node[e].parent = p
        <4>1. OnceIn(e, node[p].kids)
          BY <3>1, <3>2 DEF LinkedOnce
        <4>2. OnceIn(e, longer)
          <5>1. node[p].kids \in Seq(NodeIds) /\ d \in NodeIds
            BY <1>1
          <5> QED
            BY <4>1, <2>2, <5>1, OnceMore DEF longer
        <4> QED
          BY <4>2, <3>1, <3>2, <1>2 DEF LinkedOnce
      <3>3. CASE node[e].parent # p
        BY <3>1, <3>3, <1>2 DEF LinkedOnce
      <3> QED
        BY <3>2, <3>3
    <2> QED
      BY <2>1, <2>2
  <1>9. ASSUME NEW e \in DOMAIN node', NEW i \in DOMAIN node'[e].kids
        PROVE  node'[e].kids[i] \in DOMAIN node' /\ node'[node'[e].kids[i]].parent = e
    <2>1. CASE e = d
      BY <2>1, <1>2
    <2>2. CASE e = p
      <3>1. CASE i = 1
        BY <3>1, <2>2, <1>2, <1>6
      <3>2. CASE i # 1
        <4>1. i - 1 \in DOMAIN node[p].kids /\ longer[i] = node[p].kids[i - 1]
          BY <3>2, <2>2, <1>2, <1>6
        <4>2. longer[i] \in DOMAIN node /\ node[longer[i]].parent = p
          BY <4>1 DEF TreeSound
        <4> QED
          BY <4>2, <2>2, <1>2
      <3> QED
        BY <3>1, <3>2
    <2>3. CASE e # d /\ e # p
      BY <2>3, <1>2 DEF TreeSound
    <2> QED
      BY <2>1, <2>2, <2>3
  <1>10. TreeSound'
    BY <1>7, <1>8, <1>9 DEF TreeSound
  <1> QED
    BY <1>3, <1>10

\* When mounts are freed with their trees.
LEMMA CutSound ==
  ASSUME TypesInv, RootsInv, TreeSound, NEW R \in SUBSET DOMAIN mount,
         mount' = Restrict(mount, DOMAIN mount \ R),
         node' = Restrict(node, DOMAIN node \ UNION {TreeOf(mount[m].root) : m \in R})
  PROVE  RootsInv' /\ TreeSound'
  <1> DEFINE freed == {mount[m].root : m \in R}
  <1>1. /\ DOMAIN mount' = DOMAIN mount \ R
        /\ \A m \in DOMAIN mount' : mount'[m] = mount[m]
    BY DEF Restrict
  <1>2. /\ DOMAIN node' = {d \in DOMAIN node : node[d].root \notin freed}
        /\ \A d \in DOMAIN node' : node'[d] = node[d]
    BY DEF Restrict, TreeOf
  <1> HIDE DEF freed
  <1>3. \A m \in DOMAIN mount : node[mount[m].root].root = mount[m].root
    BY DEF RootsInv, TreeSound
  <1>4. \A m \in DOMAIN mount : mount[m].root \in freed <=> m \in R
    BY DEF freed, RootsInv
  <1>5. RootsInv'
    <2>1. \A m \in DOMAIN mount' : mount'[m].root \in DOMAIN node'
      <3> TAKE m \in DOMAIN mount'
      <3>1. m \in DOMAIN mount /\ mount'[m] = mount[m] /\ mount[m].root \notin freed
        BY <1>1, <1>4
      <3>2. mount[m].root \in DOMAIN node /\ node[mount[m].root].root = mount[m].root
        BY <3>1, <1>3 DEF RootsInv
      <3> QED
        BY <3>1, <3>2, <1>2
    <2>2. \A m, k \in DOMAIN mount' : mount'[m].root = mount'[k].root => m = k
      BY <1>1 DEF RootsInv
    <2>3. \A d \in DOMAIN node' : node'[d].parent = NoNode => node'[d].root = d
      BY <1>2 DEF RootsInv
    <2> QED
      BY <2>1, <2>2, <2>3 DEF RootsInv
  <1>6. ASSUME NEW d \in DOMAIN node'
        PROVE  /\ node'[d].parent = NoNode <=> \E m \in DOMAIN mount' : mount'[m].root = d
               /\ node'[d].parent # NoNode => LinkedOnce(d, node[d].parent)'
               /\ \A i \in DOMAIN node'[d].kids :
                    node'[d].kids[i] \in DOMAIN node' /\ node'[node'[d].kids[i]].parent = d
    <2>1. d \in DOMAIN node /\ node'[d] = node[d] /\ node[d].root \notin freed
      BY <1>2
    <2>2. node'[d].parent = NoNode <=> \E m \in DOMAIN mount' : mount'[m].root = d
      <3>1. CASE node[d].parent = NoNode
        <4>1. PICK m \in DOMAIN mount : mount[m].root = d
          BY <3>1, <2>1 DEF TreeSound
        <4>2. m \notin R
          BY <4>1, <2>1, <1>3, <1>4
        <4> QED
          BY <4>1, <4>2, <3>1, <2>1, <1>1
      <3>2. CASE node[d].parent # NoNode
        <4>1. \A m \in DOMAIN mount : mount[m].root # d
          BY <3>2, <2>1 DEF TreeSound
        <4> QED
          BY <4>1, <3>2, <2>1, <1>1
      <3> QED
        BY <3>1, <3>2
    <2>3. ASSUME node'[d].parent # NoNode PROVE LinkedOnce(d, node[d].parent)'
      <3>1. LinkedOnce(d, node[d].parent)
        BY <2>1, <2>3 DEF TreeSound
      <3>2. node[d].parent \in DOMAIN node' /\ node'[node[d].parent] = node[node[d].parent]
        BY <3>1, <2>1, <1>2 DEF LinkedOnce
      <3>3. /\ node'[node[d].parent].root = node[d].root
            /\ OnceIn(d, node'[node[d].parent].kids)
        BY <3>1, <3>2 DEF LinkedOnce
      <3>4. node'[d].parent = node[d].parent /\ node'[d].root = node[d].root
        BY <2>1
      <3> QED
        BY <3>2, <3>3, <3>4 DEF LinkedOnce
    <2>4. ASSUME NEW i \in DOMAIN node'[d].kids
          PROVE  node'[d].kids[i] \in DOMAIN node' /\ node'[node'[d].kids[i]].parent = d
      <3> DEFINE k == node[d].kids[i]
      <3>1. k \in DOMAIN node /\ node[k].parent = d
        BY <2>1, <2>4 DEF TreeSound
      <3>2. d # NoNode
        BY <2>1, IdsAssumption DEF TypesInv
      <3>3. node[k].root = node[d].root
        BY <3>1, <3>2 DEF TreeSound, LinkedOnce
      <3>4. k \in DOMAIN node' /\ node'[k] = node[k]
        BY <3>1, <3>3, <2>1, <1>2
      <3> QED
        BY <3>1, <3>4, <2>1
    <2> QED
      BY <2>2, <2>3, <2>4
  <1>7. TreeSound'
    BY <1>6 DEF TreeSound
  <1> QED
    BY <1>5, <1>7

----------------------------------------------------------------------------
\* Steps that change no tree.

\* Everyone but t keeps what is in hand.
Frame(t) ==
  \A u \in Threads \ {t} :
    /\ pc'[u] = pc[u] /\ job'[u] = job[u] /\ mt'[u] = mt[u] /\ cur'[u] = cur[u]
    /\ goal'[u] = goal[u] /\ ino'[u] = ino[u] /\ own'[u] = own[u]

Missing == {"ino_load", "ino_store", "add"}

\* What a thread builds is not touched by a step of its own or of others.
LEMMA BuildKept ==
  ASSUME BuildInv, node' = node, mount' = mount,
         \A u \in Threads : job'[u] = "init" /\ own'[u] # <<>> =>
           job[u] = "init" /\ own'[u] = own[u] /\ mt'[u] = mt[u]
  PROVE  BuildInv'
  BY DEF BuildInv, Built

LEMMA PendingKept ==
  ASSUME PendingInv, node' = node,
         \A u \in Threads : job'[u] = "walk" /\ pc'[u] \in Missing =>
           job[u] = "walk" /\ pc[u] \in Missing /\ cur'[u] = cur[u] /\ goal'[u] = goal[u]
  PROVE  PendingInv'
  BY DEF PendingInv, Missing

LEMMA ListKept ==
  ASSUME ListInv, list' = list, DOMAIN mount' = DOMAIN mount,
         \A u \in Threads : pc'[u] = "destroy" => pc[u] = "destroy" /\ mt'[u] = mt[u]
  PROVE  ListInv'
  BY DEF ListInv

LEMMA OwnersKept ==
  ASSUME OwnersInv, DOMAIN mount' = DOMAIN mount,
         \A u \in Threads : Owner(u)' => Owner(u) /\ mt'[u] = mt[u]
  PROVE  OwnersInv'
  BY DEF OwnersInv

LEMMA NumbersKept ==
  ASSUME NumbersInv, node' = node, nextIno' = nextIno, lapped' = lapped,
         \A u \in Threads : pc'[u] \in {"ino_store", "add", "link"} =>
           pc'[u] = pc[u] /\ ino'[u] = ino[u]
  PROVE  NumbersInv'
  BY DEF NumbersInv

\* Neither the trees nor the counter change, and t takes nothing new in hand that the
\* invariant speaks of.
LEMMA LocalStep ==
  ASSUME IInv, TypesInv', CallsInv', NEW t \in Threads, Frame(t),
         list' = list, node' = node, mount' = mount, nextIno' = nextIno, lapped' = lapped,
         pc'[t] \notin {"ino_store", "add", "link", "destroy"},
         job'[t] = "walk" => pc'[t] # "ino_load",
         Owner(t)' => Owner(t) /\ mt'[t] = mt[t],
         job'[t] = "init" /\ own'[t] # <<>> =>
           job[t] = "init" /\ own'[t] = own[t] /\ mt'[t] = mt[t]
  PROVE  IInv'
  <1>1. NumbersInv'
    BY NumbersKept DEF IInv, Frame
  <1>2. RootsInv' /\ TreeSound' /\ TwinsOfDifferentCalls'
    BY DEF IInv, RootsInv, TreeSound, TwinsOfDifferentCalls, LinkedOnce
  <1>3. ListInv'
    BY ListKept DEF IInv, Frame
  <1>4. OwnersInv'
    BY OwnersKept DEF IInv, Frame, Owner
  <1>5. PendingInv'
    BY PendingKept DEF IInv, Frame, Missing
  <1>6. BuildInv'
    BY BuildKept DEF IInv, Frame
  <1> QED
    BY <1>1, <1>2, <1>3, <1>4, <1>5, <1>6 DEF IInv

LEMMA UndefinedStep ==
  ASSUME IInv, Undefined
  PROVE  IInv'
  <1> USE DEF Undefined, shared, locals, history
  <1>1. TypesInv'
    BY DEF IInv, TypesInv, Labels
  <1>2. CallsInv'
    BY DEF IInv, CallsInv
  <1>3. NumbersInv'
    BY NumbersKept DEF IInv
  <1>4. RootsInv' /\ TreeSound' /\ TwinsOfDifferentCalls'
    BY DEF IInv, RootsInv, TreeSound, TwinsOfDifferentCalls, LinkedOnce
  <1>5. OwnersInv'
    BY OwnersKept DEF IInv, Owner
  <1>6. PendingInv'
    BY PendingKept DEF IInv, Missing
  <1>7. BuildInv'
    BY BuildKept DEF IInv
  <1>8. ListInv'
    BY ListKept DEF IInv
  <1> QED
    BY <1>1, <1>2, <1>3, <1>4, <1>5, <1>6, <1>7, <1>8 DEF IInv

\* The calls begin, and what they read.
LEMMA WalkStep ==
  ASSUME IInv, NEW t \in Threads, NEW p, Walk(t, p)
  PROVE  IInv'
  <1> USE DEF Walk, Start, shared
  <1>1. TypesInv'
    BY DEF IInv, TypesInv, Labels, Calls
  <1>2. CallsInv'
    BY DEF IInv, TypesInv, CallsInv
  <1>3. Frame(t)
    BY DEF Frame, IInv, TypesInv
  <1>4. pc'[t] = "find" /\ job'[t] = "walk"
    BY DEF IInv, TypesInv
  <1> QED
    BY <1>1, <1>2, <1>3, <1>4, LocalStep DEF Owner

\* What a return leaves of a thread.
LEMMA Returned ==
  ASSUME IInv, NEW t \in Threads, Return(t),
         list' = list, node' = node, mount' = mount, nextIno' = nextIno
  PROVE  /\ TypesInv' /\ CallsInv' /\ Frame(t)
         /\ pc'[t] = "idle" /\ job'[t] = "none" /\ own'[t] = <<>>
  <1> USE DEF Return
  <1>1. TypesInv'
    <2>1. <<>> \in Seq(NodeIds)
      OBVIOUS
    <2>2. own' \in [Threads -> Seq(NodeIds)]
      BY <2>1 DEF IInv, TypesInv
    <2>3. /\ pc' \in [Threads -> Labels] /\ job' \in [Threads -> Calls]
          /\ ino' \in [Threads -> Nat] /\ mt' = [u \in Threads |-> mt'[u]]
          /\ cur' = [u \in Threads |-> cur'[u]] /\ goal' = [u \in Threads |-> goal'[u]]
      BY DEF IInv, TypesInv, Labels, Calls
    <2> QED
      BY <2>2, <2>3 DEF IInv, TypesInv
  <1>2. CallsInv'
    BY DEF IInv, TypesInv, CallsInv
  <1>3. Frame(t)
    BY DEF Frame, IInv, TypesInv
  <1>4. pc'[t] = "idle" /\ job'[t] = "none" /\ own'[t] = <<>>
    BY DEF IInv, TypesInv
  <1> QED
    BY <1>1, <1>2, <1>3, <1>4

LEMMA ReturnStep ==
  ASSUME IInv, NEW t \in Threads, Return(t), UNCHANGED <<shared, history>>
  PROVE  IInv'
  <1>1. list' = list /\ node' = node /\ mount' = mount /\ nextIno' = nextIno /\ lapped' = lapped
    BY DEF shared, history
  <1> QED
    BY <1>1, Returned, LocalStep DEF Owner

LEMMA WalkFindStep ==
  ASSUME IInv, NEW t \in Threads, WalkFind(t)
  PROVE  IInv'
  <1> DEFINE best == FindBestMount(path[t], MpsOf)
  <1>1. CASE Undefined
    BY <1>1, UndefinedStep
  <1>2. CASE Return(t) /\ UNCHANGED <<shared, history>>
    BY <1>2, ReturnStep
  <1>3. CASE /\ mt' = [mt EXCEPT ![t] = list[best]] /\ Goto(t, "root")
             /\ UNCHANGED <<path, cur, goal, ino, own>> /\ UNCHANGED <<shared, history>>
    <2> HIDE DEF best
    <2> USE <1>3 DEF WalkFind, Goto, shared, history
    <2>1. TypesInv'
      BY DEF IInv, TypesInv, Labels
    <2>2. CallsInv'
      BY DEF IInv, TypesInv, CallsInv
    <2>3. Frame(t)
      BY DEF Frame, IInv, TypesInv
    <2>4. pc'[t] = "root" /\ job'[t] = "walk"
      BY DEF IInv, TypesInv, CallsInv
    <2> QED
      BY <2>1, <2>2, <2>3, <2>4, LocalStep DEF Owner
  <1> QED
    BY <1>1, <1>2, <1>3 DEF WalkFind

LEMMA WalkRootStep ==
  ASSUME IInv, NEW t \in Threads, WalkRoot(t)
  PROVE  IInv'
  <1>1. CASE Undefined
    BY <1>1, UndefinedStep
  <1>2. CASE ~Undefined
    <2> USE <1>2 DEF WalkRoot, Goto, shared, history
    <2>1. TypesInv'
      <3>1. cur' = [u \in Threads |-> cur'[u]] /\ goal' = [u \in Threads |-> goal'[u]]
        BY DEF IInv, TypesInv
      <3>2. pc' \in [Threads -> Labels]
        BY DEF IInv, TypesInv, Labels
      <3> QED
        BY <3>1, <3>2 DEF IInv, TypesInv
    <2>2. CallsInv'
      BY DEF IInv, TypesInv, CallsInv
    <2>3. Frame(t)
      BY DEF Frame, IInv, TypesInv
    <2>4. pc'[t] = "lookup" /\ job'[t] = "walk"
      BY DEF IInv, TypesInv, CallsInv
    <2> QED
      BY <2>1, <2>2, <2>3, <2>4, LocalStep DEF Owner
  <1> QED
    BY <1>1, <1>2

----------------------------------------------------------------------------
\* Looking a name up.

\* A lookup that misses has compared every child; one that hits has found a child.
LEMMA Lookup ==
  ASSUME TypesInv, NEW d \in DOMAIN node, NEW name
  PROVE  /\ FirstChild(d, name) # 0 =>
              /\ FirstChild(d, name) \in DOMAIN node[d].kids
              /\ node[node[d].kids[FirstChild(d, name)]].name = name
         /\ FirstChild(d, name) = 0 => \A i \in DOMAIN node[d].kids : node[node[d].kids[i]].name # name
  <1> DEFINE I == {i \in 1..Len(node[d].kids) : node[node[d].kids[i]].name = name}
  <1>1. FirstChild(d, name) = IF I # {} THEN Min(I) ELSE 0
    BY DEF FirstChild, SelectInSeq
  <1>2. node[d].kids \in Seq(NodeIds)
    BY DEF TypesInv
  <1>3. DOMAIN node[d].kids = 1..Len(node[d].kids)
    BY <1>2
  <1>4. I \in SUBSET Nat /\ I \subseteq DOMAIN node[d].kids /\ 0 \notin I
    BY <1>2, <1>3
  <1>5. ASSUME I # {} PROVE Min(I) \in I
    <2>1. \E x \in I : \A y \in I : x <= y
      <3> HIDE DEF I
      <3> QED
        BY <1>4, <1>5, LeastNatural
    <2> QED
      BY <2>1 DEF Min
  <1> QED
    BY <1>1, <1>3, <1>4, <1>5

\* After a miss the dentry has no child of this name.
LEMMA MissOfNone ==
  ASSUME IInv, NEW p \in DOMAIN node, NEW name, FirstChild(p, name) = 0
  PROVE  \A d \in DOMAIN node : ~(node[d].parent = p /\ node[d].name = name)
  <1> SUFFICES ASSUME NEW d \in DOMAIN node, node[d].parent = p, node[d].name = name
               PROVE  FALSE
    OBVIOUS
  <1>1. p # NoNode
    BY IdsAssumption DEF IInv, TypesInv
  <1>2. OnceIn(d, node[p].kids)
    BY <1>1 DEF IInv, TreeSound, LinkedOnce
  <1>3. PICK i \in DOMAIN node[p].kids : node[p].kids[i] = d
    BY <1>2 DEF OnceIn
  <1> QED
    BY <1>3, Lookup DEF IInv

LEMMA WalkLookupStep ==
  ASSUME IInv, NEW t \in Threads, WalkLookup(t)
  PROVE  IInv'
  <1> DEFINE i == FirstChild(cur[t], Head(goal[t]))
  <1>1. CASE Undefined
    BY <1>1, UndefinedStep
  <1>2. CASE Return(t) /\ UNCHANGED <<shared, history>>
    BY <1>2, ReturnStep
  <1>3. CASE /\ cur' = [cur EXCEPT ![t] = node[cur[t]].kids[i]]
             /\ goal' = [goal EXCEPT ![t] = Tail(@)]
             /\ UNCHANGED <<pc, job>> /\ UNCHANGED <<shared, path, mt, ino, own, history>>
    <2> HIDE DEF i
    <2> USE <1>3 DEF WalkLookup, shared, history
    <2>1. TypesInv'
      BY DEF IInv, TypesInv
    <2>2. CallsInv'
      BY DEF IInv, TypesInv, CallsInv
    <2>3. Frame(t)
      BY DEF Frame, IInv, TypesInv
    <2>4. pc'[t] = "lookup" /\ job'[t] = "walk"
      BY DEF IInv, TypesInv, CallsInv
    <2> QED
      BY <2>1, <2>2, <2>3, <2>4, LocalStep DEF Owner
  <1>4. CASE /\ i = 0 /\ cur[t] \in DOMAIN node /\ Goto(t, "ino_load")
             /\ UNCHANGED <<cur, goal>> /\ UNCHANGED <<shared, path, mt, ino, own, history>>
    <2> USE <1>4 DEF Goto, shared, history
    <2>1. job[t] = "walk"
      BY DEF WalkLookup, IInv, CallsInv
    <2>2. TypesInv'
      BY DEF IInv, TypesInv, Labels
    <2>3. CallsInv'
      BY DEF IInv, TypesInv, CallsInv
    <2>4. pc'[t] = "ino_load" /\ \A u \in Threads \ {t} : pc'[u] = pc[u]
      BY DEF IInv, TypesInv
    <2>5. NumbersInv'
      BY <2>4, NumbersKept DEF IInv
    <2>6. RootsInv' /\ TreeSound' /\ TwinsOfDifferentCalls'
      BY DEF IInv, RootsInv, TreeSound, TwinsOfDifferentCalls, LinkedOnce
    <2>7. OwnersInv'
      BY <2>4, OwnersKept DEF IInv, Owner
    <2>8. PendingInv'
      <3>1. \A d \in DOMAIN node : ~(node[d].parent = cur[t] /\ node[d].name = Head(goal[t]))
        BY MissOfNone
      <3> QED
        BY <3>1, <2>4 DEF IInv, PendingInv
    <2>9. BuildInv'
      BY BuildKept DEF IInv
    <2>10. ListInv'
      BY <2>4, ListKept DEF IInv
    <2> QED
      BY <2>2, <2>3, <2>5, <2>6, <2>7, <2>8, <2>9, <2>10 DEF IInv
  <1> QED
    BY <1>1, <1>2, <1>3, <1>4 DEF WalkLookup

----------------------------------------------------------------------------
\* The number of the next inode.

LEMMA InoLoadStep ==
  ASSUME IInv, NEW t \in Threads, InoLoad(t)
  PROVE  IInv'
  <1> USE DEF InoLoad, Goto, shared
  <1>1. TypesInv'
    BY DEF IInv, TypesInv, Labels
  <1>2. CallsInv'
    BY DEF IInv, TypesInv, CallsInv
  <1>3. pc'[t] = "ino_store" /\ ino'[t] = nextIno
    BY DEF IInv, TypesInv
  <1>4. \A u \in Threads \ {t} : pc'[u] = pc[u] /\ ino'[u] = ino[u]
    BY DEF IInv, TypesInv
  <1>5. NumbersInv'
    <2> SUFFICES ASSUME ~lapped' PROVE NumbersInv'
      BY DEF NumbersInv
    <2>1. ~lapped /\ \A u \in Threads : pc[u] # "ino_store"
      OBVIOUS
    <2>2. \A u \in Threads : pc'[u] = "ino_store" => u = t
      BY <2>1, <1>3, <1>4
    <2>3. \A u \in Threads : pc'[u] \in {"add", "link"} => u # t /\ pc[u] \in {"add", "link"}
      BY <1>3, <1>4
    <2>4. \A u \in Threads : pc'[u] \in {"add", "link"} =>
            /\ ino'[u] < nextIno
            /\ \A d \in DOMAIN node : node[d].ino # ino'[u]
            /\ \A v \in Threads : pc'[v] \in {"add", "link"} /\ v # u => ino'[v] # ino'[u]
      BY <2>1, <2>3, <1>4 DEF IInv, NumbersInv
    <2>5. /\ \A d \in DOMAIN node : node[d].ino < nextIno
          /\ \A d, e \in DOMAIN node : d # e => node[d].ino # node[e].ino
      BY <2>1 DEF IInv, NumbersInv
    <2> QED
      BY <2>2, <2>4, <2>5, <1>3 DEF NumbersInv
  <1>6. RootsInv' /\ TreeSound' /\ TwinsOfDifferentCalls'
    BY DEF IInv, RootsInv, TreeSound, TwinsOfDifferentCalls, LinkedOnce
  <1>7. OwnersInv'
    BY <1>3, <1>4, OwnersKept DEF IInv, Owner
  <1>8. PendingInv'
    BY <1>3, <1>4, PendingKept DEF IInv, Missing
  <1>9. BuildInv'
    BY BuildKept DEF IInv
  <1>10. ListInv'
    BY <1>3, <1>4, ListKept DEF IInv
  <1> QED
    BY <1>1, <1>2, <1>5, <1>6, <1>7, <1>8, <1>9, <1>10 DEF IInv

LEMMA InoStoreStep ==
  ASSUME IInv, NEW t \in Threads, InoStore(t)
  PROVE  IInv'
  <1> DEFINE next == IF job[t] = "walk" \/ own[t] # <<>> THEN "add" ELSE "link"
  <1> USE DEF InoStore, Goto, locals, history
  <1>1. next \in {"add", "link"}
    OBVIOUS
  <1>2. pc' = [pc EXCEPT ![t] = next]
    OBVIOUS
  <1>3. next = "add" => job[t] = "walk" \/ own[t] # <<>>
    OBVIOUS
  <1> HIDE DEF next
  <1>4. pc'[t] = next /\ \A u \in Threads \ {t} : pc'[u] = pc[u]
    BY <1>2 DEF IInv, TypesInv
  <1>5. TypesInv'
    BY <1>1, <1>2 DEF IInv, TypesInv, Labels
  <1>6. CallsInv'
    BY <1>1, <1>3, <1>4 DEF IInv, TypesInv, CallsInv
  <1>7. NumbersInv'
    <2>1. ino \in [Threads -> Nat] /\ nextIno \in Nat /\ \A d \in DOMAIN node : node[d].ino \in Nat
      BY DEF IInv, TypesInv
    <2> SUFFICES ASSUME ~lapped PROVE NumbersInv'
      BY DEF NumbersInv
    <2>2. nextIno = ino[t] /\ nextIno' = nextIno + 1 /\ \A u \in Threads \ {t} : pc[u] # "ino_store"
      BY DEF IInv, NumbersInv
    <2>3. \A d \in DOMAIN node : node[d].ino < nextIno'
      BY <2>1, <2>2 DEF IInv, NumbersInv
    <2>4. \A d, e \in DOMAIN node : d # e => node[d].ino # node[e].ino
      BY DEF IInv, NumbersInv
    <2>5. \A u \in Threads : pc'[u] # "ino_store"
      BY <2>2, <1>1, <1>4
    <2>6. \A u \in Threads : pc'[u] \in {"add", "link"} =>
            u = t \/ (pc[u] \in {"add", "link"} /\ ino[u] < nextIno)
      BY <1>4 DEF IInv, NumbersInv
    <2>7. \A u \in Threads : pc'[u] \in {"add", "link"} =>
            /\ ino[u] < nextIno'
            /\ \A d \in DOMAIN node : node[d].ino # ino[u]
      BY <2>1, <2>2, <2>6 DEF IInv, NumbersInv
    <2>8. \A u, v \in Threads : pc'[u] \in {"add", "link"} /\ pc'[v] \in {"add", "link"} /\ u # v =>
            ino[u] # ino[v]
      BY <2>1, <2>2, <2>6 DEF IInv, NumbersInv
    <2> QED
      BY <2>3, <2>4, <2>5, <2>7, <2>8 DEF NumbersInv
  <1>8. RootsInv' /\ TreeSound' /\ TwinsOfDifferentCalls'
    BY DEF IInv, RootsInv, TreeSound, TwinsOfDifferentCalls, LinkedOnce
  <1>9. OwnersInv'
    BY <1>1, <1>4, OwnersKept DEF IInv, Owner
  <1>10. PendingInv'
    BY <1>1, <1>4, PendingKept DEF IInv, Missing
  <1>11. BuildInv'
    BY BuildKept DEF IInv
  <1>12. ListInv'
    BY <1>1, <1>4, ListKept DEF IInv
  <1> QED
    BY <1>5, <1>6, <1>7, <1>8, <1>9, <1>10, <1>11, <1>12 DEF IInv

----------------------------------------------------------------------------
\* Init and mounts, as far as no tree changes.

LEMMA VfsInitStep ==
  ASSUME IInv, NEW t \in Threads, VfsInit(t)
  PROVE  IInv'
  <1> USE DEF VfsInit, Start
  <1>1. TypesInv'
    BY DEF IInv, TypesInv, Labels, Calls
  <1>2. CallsInv'
    BY DEF IInv, TypesInv, CallsInv
  <1>3. Frame(t)
    BY DEF Frame, IInv, TypesInv
  <1>4. pc'[t] = "ino_load" /\ job'[t] = "init" /\ own'[t] = <<>>
    BY DEF IInv, TypesInv, CallsInv
  <1> QED
    BY <1>1, <1>2, <1>3, <1>4, LocalStep DEF Owner

LEMMA MountStep ==
  ASSUME IInv, NEW t \in Threads, NEW mp, Mount(t, mp)
  PROVE  IInv'
  <1> USE DEF Mount, Start, shared
  <1>1. TypesInv'
    BY DEF IInv, TypesInv, Labels, Calls
  <1>2. CallsInv'
    BY DEF IInv, TypesInv, CallsInv
  <1>3. Frame(t)
    BY DEF Frame, IInv, TypesInv
  <1>4. pc'[t] = "ino_load" /\ job'[t] = "mount"
    BY DEF IInv, TypesInv
  <1> QED
    BY <1>1, <1>2, <1>3, <1>4, LocalStep DEF Owner

LEMMA AttachStep ==
  ASSUME IInv, NEW t \in Threads, Attach(t)
  PROVE  IInv'
  <1>1. CASE Return(t)
    BY <1>1, ReturnStep DEF Attach
  <1>2. CASE Goto(t, "unlink") /\ UNCHANGED locals
    <2> USE <1>2 DEF Attach, Goto, shared, locals, history
    <2>1. TypesInv'
      BY DEF IInv, TypesInv, Labels
    <2>2. CallsInv'
      BY DEF IInv, TypesInv, CallsInv
    <2>3. Frame(t)
      BY DEF Frame, IInv, TypesInv
    <2>4. pc'[t] = "unlink" /\ pc[t] = "backend"
      BY DEF IInv, TypesInv
    <2> QED
      BY <2>1, <2>2, <2>3, <2>4, LocalStep DEF Owner
  <1> QED
    BY <1>1, <1>2 DEF Attach

\* What is left of a list without repetitions when an element is taken out.
LEMMA FirstRemoved ==
  ASSUME NEW S, NEW s \in Seq(S), NEW x,
         \A i, j \in DOMAIN s : s[i] = s[j] => i = j
  PROVE  LET r == RemoveFirst(s, x)
         IN  /\ r \in Seq(S)
             /\ \A i \in DOMAIN r : r[i] # x /\ \E k \in DOMAIN s : r[i] = s[k]
             /\ \A k \in DOMAIN s : s[k] # x => \E i \in DOMAIN r : r[i] = s[k]
             /\ \A i, j \in DOMAIN r : r[i] = r[j] => i = j
  <1> DEFINE I == {i \in 1..Len(s) : s[i] = x}
             r == RemoveFirst(s, x)
  <1>0. DOMAIN s = 1..Len(s) /\ Len(s) \in Nat
    OBVIOUS
  <1>1. CASE I = {}
    <2>1. RemoveFirst(s, x) = s
      BY <1>1 DEF RemoveFirst
    <2>2. \A i \in DOMAIN s : s[i] # x
      BY <1>1, <1>0
    <2> QED
      BY <2>1, <2>2
  <1>2. CASE I # {}
    <2>1. SelectInSeq(s, LAMBDA v : v = x) = Min(I)
      BY <1>2 DEF SelectInSeq
    <2>2. Min(I) \in I
      <3>1. \E k \in I : \A y \in I : k <= y
        <4>1. I \in SUBSET Nat
          OBVIOUS
        <4> HIDE DEF I
        <4> QED
          BY <4>1, <1>2, LeastNatural
      <3> QED
        BY <3>1 DEF Min
    <2>3. r = RemoveAt(s, Min(I))
      BY <2>1, <1>2 DEF RemoveFirst
    <2>4. PICK m \in 1..Len(s) : m = Min(I) /\ s[m] = x
      BY <2>2
    <2> DEFINE a == SubSeq(s, 1, m - 1)
               b == SubSeq(s, m + 1, Len(s))
    <2>5. r = a \o b
      BY <2>3, <2>4 DEF RemoveAt
    <2> HIDE DEF I, r
    <2>6. a \in Seq(S) /\ Len(a) = m - 1 /\ \A i \in 1..(m - 1) : a[i] = s[i]
      BY <1>0, SubSeqProperties
    <2>7. b \in Seq(S) /\ Len(b) = Len(s) - m /\ \A i \in 1..(Len(s) - m) : b[i] = s[m + i]
      <3> DEFINE f == m + 1
      <3>1. f \in Int /\ Len(s) \in Int /\ Len(s) - f + 1 = Len(s) - m
        BY <1>0
      <3>2. \A i \in f..Len(s) : s[i] \in S
        BY <1>0
      <3>3. \A i \in 1..(Len(s) - m) : f + i - 1 = m + i
        BY <1>0
      <3>4. (f <= Len(s) => Len(s) - m = Len(s) - f + 1) /\ (~(f <= Len(s)) => Len(s) - m = 0)
        <4>1. m \in Int /\ m <= Len(s) /\ Len(s) \in Int
          BY <1>0
        <4> QED
          BY <4>1
      <3> HIDE DEF f
      <3>5. /\ SubSeq(s, f, Len(s)) \in Seq(S)
            /\ Len(SubSeq(s, f, Len(s))) = IF f <= Len(s) THEN Len(s) - f + 1 ELSE 0
            /\ \A i \in 1..(Len(s) - f + 1) : SubSeq(s, f, Len(s))[i] = s[f + i - 1]
        BY <3>1, <3>2, SubSeqProperties
      <3> QED
        BY <3>1, <3>3, <3>4, <3>5 DEF f
    <2> HIDE DEF a, b
    <2>8. /\ r \in Seq(S) /\ Len(r) = Len(s) - 1
          /\ \A i \in 1..(Len(s) - 1) : r[i] = IF i <= m - 1 THEN a[i] ELSE b[i - (m - 1)]
      <3>1. Len(a) + Len(b) = Len(s) - 1
        BY <1>0, <2>6, <2>7
      <3>2. /\ a \o b \in Seq(S) /\ Len(a \o b) = Len(a) + Len(b)
            /\ \A i \in 1..(Len(a) + Len(b)) : (a \o b)[i] = IF i <= Len(a) THEN a[i] ELSE b[i - Len(a)]
        BY <2>6, <2>7, ConcatProperties
      <3> QED
        BY <3>1, <3>2, <2>5, <2>6
    <2>9. DOMAIN r = 1..(Len(s) - 1)
      BY <2>8
    <2>10. \A i \in 1..(Len(s) - 1) : r[i] = s[IF i < m THEN i ELSE i + 1]
      <3> TAKE i \in 1..(Len(s) - 1)
      <3>1. CASE i < m
        BY <3>1, <2>6, <2>8, <1>0
      <3>2. CASE i >= m
        <4>1. r[i] = b[i - (m - 1)] /\ i - (m - 1) \in 1..(Len(s) - m)
          BY <3>2, <2>8, <1>0
        <4>2. m + (i - (m - 1)) = i + 1
          BY <1>0
        <4> QED
          BY <4>1, <4>2, <3>2, <2>7, <1>0
      <3> QED
        BY <3>1, <3>2, <1>0
    <2>11. \A i \in 1..(Len(s) - 1) : (IF i < m THEN i ELSE i + 1) \in (1..Len(s)) \ {m}
      BY <1>0
    <2>12. \A i \in DOMAIN r : r[i] # x /\ \E k \in DOMAIN s : r[i] = s[k]
      BY <2>4, <2>9, <2>10, <2>11, <1>0
    <2>13. ASSUME NEW i \in DOMAIN r, NEW j \in DOMAIN r, r[i] = r[j] PROVE i = j
      <3>1. (IF i < m THEN i ELSE i + 1) = (IF j < m THEN j ELSE j + 1)
        BY <2>9, <2>10, <2>11, <2>13, <1>0
      <3> QED
        BY <3>1, <2>9, <1>0
    <2>14. ASSUME NEW k \in DOMAIN s, s[k] # x PROVE \E i \in DOMAIN r : r[i] = s[k]
      <3>1. PICK i : i = IF k < m THEN k ELSE k - 1
        OBVIOUS
      <3>2. k \in 1..Len(s) /\ k # m
        BY <2>4, <2>14, <1>0
      <3>3. i \in 1..(Len(s) - 1) /\ (IF i < m THEN i ELSE i + 1) = k
        BY <3>1, <3>2, <1>0
      <3> QED
        BY <3>3, <2>9, <2>10
    <2> QED
      BY <2>8, <2>12, <2>13, <2>14 DEF r
  <1> QED
    BY <1>1, <1>2

LEMMA UnlinkStep ==
  ASSUME IInv, NEW t \in Threads, Unlink(t)
  PROVE  IInv'
  <1> USE DEF Unlink, Goto, locals, history
  <1>1. /\ list' \in Seq(MountIds)
        /\ \A i \in DOMAIN list' : list'[i] # mt[t] /\ \E k \in DOMAIN list : list'[i] = list[k]
        /\ \A i, j \in DOMAIN list' : list'[i] = list'[j] => i = j
    BY FirstRemoved DEF IInv, TypesInv, ListInv
  <1>2. TypesInv'
    BY <1>1 DEF IInv, TypesInv, Labels
  <1>3. CallsInv'
    BY DEF IInv, TypesInv, CallsInv
  <1>4. pc[t] = "unlink" /\ pc'[t] = "destroy" /\ \A u \in Threads \ {t} : pc'[u] = pc[u]
    BY DEF IInv, TypesInv
  <1>5. NumbersInv'
    BY <1>4, NumbersKept DEF IInv
  <1>6. RootsInv' /\ TreeSound' /\ TwinsOfDifferentCalls'
    BY DEF IInv, RootsInv, TreeSound, TwinsOfDifferentCalls, LinkedOnce
  <1>7. ListInv'
    <2>1. \A i \in DOMAIN list' : list'[i] \in DOMAIN mount
      BY <1>1 DEF IInv, ListInv
    <2>2. \A u \in Threads : pc'[u] = "destroy" => \A i \in DOMAIN list' : list'[i] # mt[u]
      BY <1>1, <1>4 DEF IInv, ListInv
    <2> QED
      BY <1>1, <2>1, <2>2 DEF ListInv
  <1>8. OwnersInv'
    BY <1>4, OwnersKept DEF IInv, Owner
  <1>9. PendingInv'
    BY <1>4, PendingKept DEF IInv, Missing
  <1>10. BuildInv'
    BY BuildKept DEF IInv
  <1> QED
    BY <1>2, <1>3, <1>5, <1>6, <1>7, <1>8, <1>9, <1>10 DEF IInv

LEMMA UnmountStep ==
  ASSUME IInv, NEW t \in Threads, NEW mp, Unmount(t, mp)
  PROVE  IInv'
  <1> DEFINE I == {i \in 1..Len(MpsOf) : MpsOf[i] = mp}
  <1>1. CASE Undefined
    BY <1>1, UndefinedStep
  <1>2. CASE ~Undefined
    <2>1. /\ I # {} /\ Start(t, "unmount", "unlink") /\ mt' = [mt EXCEPT ![t] = list[Min(I)]]
          /\ UNCHANGED <<shared, path, cur, goal, ino, own, lapped, raced>>
      BY <1>2 DEF Unmount, SelectInSeq
    <2>2. Min(I) \in I
      <3>1. I \in SUBSET Nat
        OBVIOUS
      <3>2. \E k \in I : \A y \in I : k <= y
        <4> HIDE DEF I
        <4> QED
          BY <3>1, <2>1, LeastNatural
      <3> QED
        BY <3>2 DEF Min
    <2>3. DOMAIN list = 1..Len(list) /\ Len(list) \in Nat
      BY DEF IInv, TypesInv
    <2>4. Min(I) \in DOMAIN list
      <3>1. MpsOf = [i \in 1..Len(list) |-> mount[list[i]].mp]
        BY <2>3 DEF MpsOf
      <3>2. Len(MpsOf) = Len(list)
        BY <3>1, <2>3, LenProperties
      <3> QED
        BY <3>2, <2>2, <2>3
    <2>5. PICK m \in DOMAIN mount : mt' = [mt EXCEPT ![t] = m]
      BY <2>1, <2>4 DEF IInv, ListInv
    <2> HIDE DEF I
    <2> USE <2>1, <2>5 DEF Start, shared
    <2>6. \A u \in Threads : pc[u] = "idle" /\ job[u] = "none" /\ ~Owner(u)
      BY DEF Unmount, Alone, IInv, CallsInv, Owner
    <2>7. /\ pc'[t] = "unlink" /\ job'[t] = "unmount" /\ mt'[t] = m
          /\ \A u \in Threads \ {t} : pc'[u] = "idle" /\ job'[u] = "none"
      BY <2>6 DEF IInv, TypesInv
    <2>8. TypesInv'
      BY DEF IInv, TypesInv, Labels, Calls
    <2>9. CallsInv'
      BY <2>7 DEF IInv, CallsInv
    <2>10. NumbersInv'
      BY <2>7, NumbersKept DEF IInv
    <2>11. RootsInv' /\ TreeSound' /\ TwinsOfDifferentCalls'
      BY DEF IInv, RootsInv, TreeSound, TwinsOfDifferentCalls, LinkedOnce
    <2>12. ListInv'
      BY <2>7, ListKept DEF IInv
    <2>13. OwnersInv'
      BY <2>7 DEF OwnersInv, Owner
    <2>14. PendingInv' /\ BuildInv'
      BY <2>7 DEF PendingInv, BuildInv
    <2> QED
      BY <2>8, <2>9, <2>10, <2>11, <2>12, <2>13, <2>14 DEF IInv
  <1> QED
    BY <1>1, <1>2

----------------------------------------------------------------------------
\* Steps that add a dentry.

\* t has taken a free dentry: it was not there, it is typed, and nobody has it in hand.
LEMMA FreeNodeFacts ==
  ASSUME FreeNodes # {}
  PROVE  /\ FreeNode \in NodeIds \ DOMAIN node
         /\ \A u \in Threads : cur[u] # FreeNode /\ \A k \in DOMAIN own[u] : own[u][k] # FreeNode
  BY DEF FreeNode, FreeNodes

\* The dentries keep their types when one is added below another.
LEMMA AddTypes ==
  ASSUME TypesInv, NEW t \in Threads, NEW d \in NodeIds \ DOMAIN node, NEW p \in DOMAIN node, NEW name,
         node' = AddChild(t, d, name, p)
  PROVE  /\ DOMAIN node' \subseteq NodeIds
         /\ \A e \in DOMAIN node' :
              /\ node'[e] = [f \in Fields |-> node'[e][f]]
              /\ node'[e].kids \in Seq(NodeIds) /\ node'[e].ino \in Nat
  <1>1. DOMAIN node' = DOMAIN node \cup {d}
    BY DEF AddChild
  <1>2. ASSUME NEW e \in DOMAIN node' PROVE node'[e] = [f \in Fields |-> node'[e][f]]
    <2>1. CASE e = d
      BY <2>1 DEF AddChild, NewNode, Fields
    <2>2. CASE e = p
      <3>1. node'[p] = [node[p] EXCEPT !.kids = <<d>> \o node[p].kids]
        BY DEF AddChild
      <3>2. node[p] = [f \in Fields |-> node[p][f]]
        BY DEF TypesInv
      <3> QED
        BY <3>1, <3>2, <2>2 DEF Fields
    <2>3. CASE e # d /\ e # p
      BY <2>3, <1>1 DEF AddChild, TypesInv
    <2> QED
      BY <2>1, <2>2, <2>3
  <1>3. ASSUME NEW e \in DOMAIN node' PROVE node'[e].ino \in Nat
    <2>1. CASE e = d
      <3>1. node'[d].ino = ino[t]
        BY AddFields
      <3> QED
        BY <3>1, <2>1 DEF TypesInv
    <2>2. CASE e # d
      BY <2>2, <1>1, AddFields DEF TypesInv
    <2> QED
      BY <2>1, <2>2
  <1>4. ASSUME NEW e \in DOMAIN node' PROVE node'[e].kids \in Seq(NodeIds)
    <2>1. CASE e = d
      <3>1. node'[d].kids = <<>>
        BY DEF AddChild, NewNode
      <3>2. <<>> \in Seq(NodeIds)
        OBVIOUS
      <3> QED
        BY <3>1, <3>2, <2>1
    <2>2. CASE e = p
      <3>1. node'[p] = [node[p] EXCEPT !.kids = <<d>> \o node[p].kids]
        BY DEF AddChild
      <3>2. node[p] = [f \in Fields |-> node[p][f]] /\ node[p].kids \in Seq(NodeIds)
        BY DEF TypesInv
      <3>3. node'[p].kids = <<d>> \o node[p].kids
        BY <3>1, <3>2 DEF Fields
      <3>4. <<d>> \o node[p].kids \in Seq(NodeIds)
        BY <3>2, Prepended
      <3> QED
        BY <3>3, <3>4, <2>2
    <2>3. CASE e # d /\ e # p
      BY <2>3, <1>1 DEF AddChild, TypesInv
    <2> QED
      BY <2>1, <2>2, <2>3
  <1> QED
    BY <1>1, <1>2, <1>3, <1>4 DEF TypesInv

\* The number t has loaded goes to the new dentry.
LEMMA NumberUsed ==
  ASSUME IInv, NEW t \in Threads, NEW d, d \notin DOMAIN node,
         Frame(t), nextIno' = nextIno, lapped' = lapped,
         pc[t] \in {"add", "link"}, pc'[t] \notin {"ino_store", "add", "link"},
         DOMAIN node' = DOMAIN node \cup {d}, node'[d].ino = ino[t],
         \A e \in DOMAIN node : node'[e].ino = node[e].ino
  PROVE  NumbersInv'
  <1> SUFFICES ASSUME ~lapped PROVE NumbersInv'
    BY DEF NumbersInv
  <1>1. \A e \in DOMAIN node' : node'[e].ino < nextIno
    BY DEF IInv, NumbersInv
  <1>2. \A e, g \in DOMAIN node' : e # g => node'[e].ino # node'[g].ino
    BY DEF IInv, NumbersInv
  <1>3. \A u \in Threads : pc'[u] \in {"ino_store", "add", "link"} =>
          u # t /\ pc'[u] = pc[u] /\ ino'[u] = ino[u]
    BY DEF Frame
  <1>4. \A u, v \in Threads : pc'[u] = "ino_store" /\ pc'[v] = "ino_store" => u = v
    BY <1>3 DEF IInv, NumbersInv
  <1>5. \A u \in Threads : pc'[u] = "ino_store" => ino'[u] = nextIno
    BY <1>3 DEF IInv, NumbersInv
  <1>6. \A u \in Threads : pc'[u] \in {"add", "link"} =>
          /\ ino'[u] < nextIno
          /\ \A e \in DOMAIN node : node[e].ino # ino'[u]
          /\ ino[t] # ino'[u]
          /\ \A v \in Threads : pc'[v] \in {"add", "link"} /\ v # u => ino'[v] # ino'[u]
    BY <1>3 DEF IInv, NumbersInv
  <1> QED
    BY <1>1, <1>2, <1>4, <1>5, <1>6 DEF NumbersInv

\* What the others are about to add, or have built, is not touched by a dentry of t's.
LEMMA OthersPending ==
  ASSUME IInv, NEW t \in Threads, NEW d, d \notin DOMAIN node, \A u \in Threads : cur[u] # d, Frame(t),
         DOMAIN node' = DOMAIN node \cup {d}, node'[d].maker = t,
         \A e \in DOMAIN node : /\ node'[e].name = node[e].name /\ node'[e].parent = node[e].parent
                                /\ node'[e].maker = node[e].maker,
         ~(job'[t] = "walk" /\ pc'[t] \in Missing)
  PROVE  PendingInv'
  <1> SUFFICES ASSUME NEW u \in Threads \ {t}, job[u] = "walk", pc[u] \in Missing, cur[u] \in DOMAIN node',
                      NEW e \in DOMAIN node', node'[e].parent = cur[u], node'[e].name = Head(goal[u])
               PROVE  node'[e].maker # u
    BY DEF PendingInv, Frame, Missing
  <1>1. cur[u] \in DOMAIN node
    OBVIOUS
  <1>2. CASE e = d
    BY <1>2
  <1>3. CASE e \in DOMAIN node
    BY <1>1, <1>3 DEF IInv, PendingInv, Missing
  <1> QED
    BY <1>2, <1>3

LEMMA OthersBuild ==
  ASSUME IInv, NEW t \in Threads, NEW d, d \notin DOMAIN node, Frame(t),
         DOMAIN node' = DOMAIN node \cup {d}, node'[d].maker = t,
         \A e \in DOMAIN node : /\ node'[e].name = node[e].name /\ node'[e].parent = node[e].parent
                                /\ node'[e].maker = node[e].maker /\ node'[e].root = node[e].root,
         \A m \in DOMAIN mount : mount'[m] = mount[m],
         NEW u \in Threads \ {t}, job'[u] = "init", own'[u] # <<>>
  PROVE  Built(u)'
  <1>1. job[u] = "init" /\ own'[u] = own[u] /\ mt'[u] = mt[u] /\ u # t
    BY DEF Frame
  <1>2. mt[u] \in DOMAIN mount
    BY <1>1 DEF IInv, OwnersInv, Owner
  <1>3. Built(u)
    BY <1>1 DEF IInv, BuildInv
  <1>4. \A k \in DOMAIN own[u] : own[u][k] \in DOMAIN node' /\ node'[own[u][k]].root = own[u][1]
    BY <1>3 DEF Built
  <1>5. \A k \in DOMAIN own[u] \ {1} :
          /\ node'[own[u][k]].parent = own[u][Sample[k - 1].below + 1]
          /\ node'[own[u][k]].name = Sample[k - 1].name
    BY <1>3 DEF Built
  <1>6. \A e \in DOMAIN node', k \in DOMAIN own[u] :
          node'[e].maker = u /\ node'[e].parent = own[u][k] => \E j \in DOMAIN own[u] \ {1} : own[u][j] = e
    BY <1>1, <1>3 DEF Built
  <1> QED
    BY <1>1, <1>2, <1>3, <1>4, <1>5, <1>6 DEF Built

LEMMA WalkAddStep ==
  ASSUME IInv, NEW t \in Threads, WalkAdd(t)
  PROVE  IInv'
  <1>1. CASE Undefined
    BY <1>1, UndefinedStep
  <1>2. CASE ~Undefined
    <2> DEFINE p == cur[t]
               d == FreeNode
               name == Head(goal[t])
    <2>1. /\ pc[t] = "add" /\ job[t] = "walk" /\ p \in DOMAIN node /\ FreeNodes # {}
          /\ node' = AddChild(t, d, name, p)
          /\ cur' = [cur EXCEPT ![t] = d] /\ goal' = [goal EXCEPT ![t] = Tail(@)]
          /\ pc' = [pc EXCEPT ![t] = "lookup"]
          /\ UNCHANGED <<job, inited, list, mount, nextIno, path, mt, ino, own, history>>
      BY <1>2 DEF WalkAdd, Goto
    <2>2. d \in NodeIds \ DOMAIN node /\ \A u \in Threads : cur[u] # d
      BY <2>1, FreeNodeFacts
    <2>4. p # NoNode
      BY <2>1, IdsAssumption DEF IInv, TypesInv
    <2> HIDE DEF d, name, p
    <2>3. /\ DOMAIN node' = DOMAIN node \cup {d}
          /\ node'[d].name = name /\ node'[d].parent = p /\ node'[d].ino = ino[t] /\ node'[d].maker = t
          /\ \A e \in DOMAIN node :
               /\ node'[e].name = node[e].name /\ node'[e].parent = node[e].parent
               /\ node'[e].ino = node[e].ino /\ node'[e].maker = node[e].maker
               /\ node'[e].root = node[e].root
      <3>1. TypesInv /\ node' = AddChild(t, d, name, p) /\ p \in DOMAIN node /\ d \in NodeIds \ DOMAIN node
        BY <2>1, <2>2 DEF IInv
      <3> QED
        BY <3>1, AddFields
    <2>5. TypesInv'
      <3>1. /\ DOMAIN node' \subseteq NodeIds
            /\ \A e \in DOMAIN node' :
                 /\ node'[e] = [f \in Fields |-> node'[e][f]]
                 /\ node'[e].kids \in Seq(NodeIds) /\ node'[e].ino \in Nat
        BY <2>1, <2>2, AddTypes DEF IInv
      <3> QED
        BY <3>1, <2>1 DEF IInv, TypesInv, Labels
    <2>6. Frame(t) /\ pc'[t] = "lookup" /\ job' = job /\ mt' = mt /\ own' = own
      BY <2>1 DEF Frame, IInv, TypesInv
    <2>7. CallsInv'
      BY <2>1, <2>6 DEF IInv, CallsInv, Frame
    <2>8. NumbersInv'
      BY <2>1, <2>2, <2>3, <2>6, NumberUsed DEF history
    <2>9. RootsInv' /\ TreeSound'
      BY <2>1, <2>2, AddSound DEF IInv
    <2>10. ListInv'
      BY <2>1, <2>6, ListKept DEF IInv, Frame
    <2>11. OwnersInv'
      BY <2>1, <2>6, OwnersKept DEF IInv, Frame, Owner
    <2>12. PendingInv'
      BY <2>2, <2>3, <2>6, OthersPending DEF Missing
    <2>13. BuildInv'
      <3>1. \A u \in Threads : job'[u] = "init" => u # t
        BY <2>1, <2>6
      <3> QED
        BY <3>1, <2>1, <2>2, <2>3, <2>6, OthersBuild DEF BuildInv
    <2>14. TwinsOfDifferentCalls'
      <3>1. \A e \in DOMAIN node : node[e].parent = p /\ node[e].name = name => node[e].maker # t
        BY <2>1 DEF IInv, PendingInv, p, name
      <3> QED
        BY <3>1, <2>3, <2>4 DEF IInv, TwinsOfDifferentCalls
    <2> QED
      BY <2>5, <2>7, <2>8, <2>9, <2>10, <2>11, <2>12, <2>13, <2>14 DEF IInv
  <1> QED
    BY <1>1, <1>2

\* The sample tree, entry by entry.
LEMMA SampleEntries ==
  /\ Len(Sample) \in Nat /\ DOMAIN Sample = 1..Len(Sample)
  /\ \A j \in DOMAIN Sample :
       /\ Sample[j] = [name |-> Sample[j].name, below |-> Sample[j].below]
       /\ Sample[j].below \in Nat /\ Sample[j].below < j
  <1> DEFINE Entries == [name : STRING, below : Nat]
  <1>1. Sample \in Seq(Entries) /\ \A j \in DOMAIN Sample : Sample[j].below < j
    BY SampleAssumption
  <1>2. \A r \in Entries : r = [name |-> r.name, below |-> r.below] /\ r.below \in Nat
    OBVIOUS
  <1> HIDE DEF Entries
  <1>3. Len(Sample) \in Nat /\ DOMAIN Sample = 1..Len(Sample)
    BY <1>1, LenProperties
  <1>4. \A j \in DOMAIN Sample : Sample[j] \in Entries
    BY <1>1, <1>3, ElementOfSeq
  <1> QED
    BY <1>1, <1>2, <1>3, <1>4

\* The next entry of the sample tree has a place, and its builder has not added it yet.
LEMMA NextEntry ==
  ASSUME IInv, NEW t \in Threads, job[t] = "init", own[t] # <<>>
  PROVE  LET k == Len(own[t])
         IN  /\ own[t] \in Seq(NodeIds) /\ k \in DOMAIN Sample /\ k \in DOMAIN own[t]
             /\ DOMAIN own[t] = 1..k
             /\ Sample[k].below + 1 \in DOMAIN own[t]
             /\ \A e \in DOMAIN node :
                  node[e].parent = own[t][Sample[k].below + 1] /\ node[e].name = Sample[k].name =>
                    node[e].maker # t
  <1> DEFINE k == Len(own[t])
  <1>1. own[t] \in Seq(NodeIds) /\ k \in Nat \ {0} /\ DOMAIN own[t] = 1..k
    BY EmptySeq DEF IInv, TypesInv
  <1>2. /\ k <= Len(Sample)
        /\ \A i, j \in DOMAIN own[t] : own[t][i] = own[t][j] => i = j
        /\ \A j \in DOMAIN own[t] \ {1} :
             /\ node[own[t][j]].parent = own[t][Sample[j - 1].below + 1]
             /\ node[own[t][j]].name = Sample[j - 1].name
        /\ \A e \in DOMAIN node, j \in DOMAIN own[t] :
             node[e].maker = t /\ node[e].parent = own[t][j] => \E i \in DOMAIN own[t] \ {1} : own[t][i] = e
    BY DEF IInv, BuildInv, Built
  <1> HIDE DEF k
  <1>3. /\ Len(Sample) \in Nat /\ DOMAIN Sample = 1..Len(Sample)
        /\ \A j \in DOMAIN Sample :
             /\ Sample[j] = [name |-> Sample[j].name, below |-> Sample[j].below]
             /\ Sample[j].below \in Nat /\ Sample[j].below < j
    BY SampleEntries
  <1>4. \A j \in 1..k : j \in DOMAIN Sample /\ Sample[j].below + 1 \in DOMAIN own[t]
    BY <1>1, <1>2, <1>3
  <1>5. ASSUME NEW e \in DOMAIN node, node[e].parent = own[t][Sample[k].below + 1],
               node[e].name = Sample[k].name, node[e].maker = t
        PROVE  FALSE
    <2>1. PICK j \in DOMAIN own[t] \ {1} : own[t][j] = e
      BY <1>1, <1>2, <1>4, <1>5
    <2>2. j - 1 \in 1..k /\ j - 1 # k
      BY <1>1
    <2>3. own[t][Sample[j - 1].below + 1] = own[t][Sample[k].below + 1] /\ Sample[j - 1].name = Sample[k].name
      BY <2>1, <1>2, <1>5
    <2>4. Sample[j - 1].below + 1 = Sample[k].below + 1
      BY <2>2, <2>3, <1>1, <1>2, <1>4
    <2>5. j - 1 \in DOMAIN Sample /\ k \in DOMAIN Sample
      BY <2>2, <1>1, <1>4
    <2>6. Sample[j - 1] = Sample[k]
      BY <2>3, <2>4, <2>5, <1>3
    <2> QED
      BY <2>2, <2>5, <2>6, SampleAssumption
  <1> QED
    BY <1>1, <1>4, <1>5 DEF k

LEMMA SampleAddStep ==
  ASSUME IInv, NEW t \in Threads, SampleAdd(t)
  PROVE  IInv'
  <1> DEFINE k == Len(own[t])
             p == own[t][Sample[k].below + 1]
             d == FreeNode
             name == Sample[k].name
  <1>1. /\ pc[t] = "add" /\ job[t] = "init" /\ FreeNodes # {} /\ node' = AddChild(t, d, name, p)
        /\ UNCHANGED <<inited, list, mount, nextIno, history>>
        /\ \/ Return(t)
           \/ /\ k # Len(Sample) /\ own' = [own EXCEPT ![t] = Append(@, d)]
              /\ Goto(t, "ino_load") /\ UNCHANGED <<path, mt, cur, goal, ino>>
    BY DEF SampleAdd
  <1>2. own[t] # <<>>
    BY <1>1 DEF IInv, CallsInv
  <1>3. /\ own[t] \in Seq(NodeIds) /\ k \in DOMAIN Sample /\ DOMAIN own[t] = 1..k
        /\ k \in DOMAIN own[t] /\ Sample[k].below + 1 \in DOMAIN own[t]
        /\ \A e \in DOMAIN node : node[e].parent = p /\ node[e].name = name => node[e].maker # t
    BY <1>1, <1>2, NextEntry
  <1>4. p \in DOMAIN node
    BY <1>1, <1>2, <1>3 DEF IInv, BuildInv, Built
  <1>5. p # NoNode
    BY <1>4, IdsAssumption DEF IInv, TypesInv
  <1>6. /\ d \in NodeIds \ DOMAIN node
        /\ \A u \in Threads : cur[u] # d /\ \A j \in DOMAIN own[u] : own[u][j] # d
    BY <1>1, FreeNodeFacts
  <1>7. p = own[t][Sample[k].below + 1] /\ name = Sample[k].name
    OBVIOUS
  <1>8. k = Len(own[t])
    OBVIOUS
  <1> HIDE DEF d, name, p, k
  <1>9. /\ DOMAIN node' = DOMAIN node \cup {d}
        /\ node'[d].name = name /\ node'[d].parent = p /\ node'[d].ino = ino[t] /\ node'[d].maker = t
        /\ node'[d].root = node[p].root
        /\ \A e \in DOMAIN node :
             /\ node'[e].name = node[e].name /\ node'[e].parent = node[e].parent
             /\ node'[e].ino = node[e].ino /\ node'[e].maker = node[e].maker
             /\ node'[e].root = node[e].root
    <2>1. TypesInv /\ node' = AddChild(t, d, name, p) /\ p \in DOMAIN node /\ d \in NodeIds \ DOMAIN node
      BY <1>1, <1>4, <1>6 DEF IInv
    <2> QED
      BY <2>1, AddFields
  <1>10. TypesInv'
    <2>1. /\ DOMAIN node' \subseteq NodeIds
          /\ \A e \in DOMAIN node' :
               /\ node'[e] = [f \in Fields |-> node'[e][f]]
               /\ node'[e].kids \in Seq(NodeIds) /\ node'[e].ino \in Nat
      BY <1>1, <1>4, <1>6, AddTypes DEF IInv
    <2>2. own' \in [Threads -> Seq(NodeIds)]
      <3>1. <<>> \in Seq(NodeIds)
        OBVIOUS
      <3>2. Append(own[t], d) \in Seq(NodeIds)
        BY <1>3, <1>6
      <3> QED
        BY <3>1, <3>2, <1>1 DEF Return, IInv, TypesInv
    <2>3. /\ pc' \in [Threads -> Labels] /\ job' \in [Threads -> Calls]
          /\ ino' \in [Threads -> Nat] /\ mt' = [u \in Threads |-> mt'[u]]
          /\ cur' = [u \in Threads |-> cur'[u]] /\ goal' = [u \in Threads |-> goal'[u]]
      <3>1. CASE Return(t)
        BY <3>1 DEF Return, IInv, TypesInv, Labels, Calls
      <3>2. CASE Goto(t, "ino_load") /\ UNCHANGED <<path, mt, cur, goal, ino>>
        BY <3>2 DEF Goto, IInv, TypesInv, Labels
      <3> QED
        BY <3>1, <3>2, <1>1
    <2> QED
      BY <2>1, <2>2, <2>3, <1>1 DEF IInv, TypesInv
  <1>11. Frame(t)
    BY <1>1 DEF Return, Goto, Frame, IInv, TypesInv
  <1>12. \/ pc'[t] = "idle" /\ job'[t] = "none" /\ own'[t] = <<>>
         \/ /\ pc'[t] = "ino_load" /\ job'[t] = "init" /\ k # Len(Sample)
            /\ own'[t] = Append(own[t], d) /\ mt'[t] = mt[t]
    BY <1>1 DEF Return, Goto, IInv, TypesInv
  <1>13. CallsInv'
    BY <1>11, <1>12 DEF IInv, CallsInv, Frame
  <1>14. NumbersInv'
    BY <1>1, <1>6, <1>9, <1>11, <1>12, NumberUsed DEF history
  <1>15. RootsInv' /\ TreeSound'
    BY <1>1, <1>4, <1>6, AddSound DEF IInv
  <1>16. ListInv'
    BY <1>1, <1>11, <1>12, ListKept DEF IInv, Frame
  <1>17. OwnersInv'
    BY <1>1, <1>2, <1>11, <1>12, OwnersKept DEF IInv, Frame, Owner
  <1>18. PendingInv'
    BY <1>6, <1>9, <1>11, <1>12, OthersPending DEF Missing
  <1>19. TwinsOfDifferentCalls'
    BY <1>3, <1>5, <1>9 DEF IInv, TwinsOfDifferentCalls
  <1>20. BuildInv'
    <2>1. ASSUME job'[t] = "init", own'[t] # <<>>
          PROVE  Built(t)'
      <3> DEFINE longer == own'[t]
      <3>1. longer = Append(own[t], d) /\ mt'[t] = mt[t] /\ k # Len(Sample)
        BY <2>1, <1>12
      <3>2. k \in Nat \ {0} /\ Len(Sample) \in Nat /\ k < Len(Sample)
        BY <3>1, <1>3, SampleAssumption
      <3>3. /\ DOMAIN longer = 1..(k + 1) /\ Len(longer) = k + 1 /\ longer[k + 1] = d
            /\ \A i \in 1..k : longer[i] = own[t][i]
        BY <3>1, <3>2, <1>3, <1>6, <1>8
      <3> HIDE DEF longer
      <3>4. /\ mount[mt[t]].root = own[t][1]
            /\ \A i \in 1..k : own[t][i] \in DOMAIN node /\ node[own[t][i]].root = own[t][1]
            /\ \A i, j \in 1..k : own[t][i] = own[t][j] => i = j
            /\ \A i \in 1..k \ {1} :
                 /\ node[own[t][i]].parent = own[t][Sample[i - 1].below + 1]
                 /\ node[own[t][i]].name = Sample[i - 1].name
            /\ \A e \in DOMAIN node, i \in 1..k :
                 node[e].maker = t /\ node[e].parent = own[t][i] => \E j \in 1..k \ {1} : own[t][j] = e
        BY <1>1, <1>2, <1>3 DEF IInv, BuildInv, Built
      <3>5. \A i \in 1..(k + 1) : i = k + 1 \/ i \in 1..k
        BY <3>2
      <3>6. 1 \in 1..k /\ k + 1 \in 1..(k + 1) /\ k + 1 # 1 /\ 1..k \subseteq 1..(k + 1)
        BY <3>2
      <3>7. Len(longer) <= Len(Sample)
        BY <3>2, <3>3
      <3>8. mount'[mt'[t]].root = longer[1]
        BY <3>1, <3>3, <3>4, <3>6, <1>1
      <3>9. ASSUME NEW i \in DOMAIN longer
            PROVE  longer[i] \in DOMAIN node' /\ node'[longer[i]].root = longer[1]
        <4>1. CASE i = k + 1
          <5>1. node[p].root = own[t][1]
            BY <1>3, <1>7, <3>4
          <5> QED
            BY <4>1, <5>1, <1>9, <3>3, <3>6
        <4>2. CASE i \in 1..k
          BY <4>2, <1>9, <3>3, <3>4, <3>6
        <4> QED
          BY <4>1, <4>2, <3>3, <3>5
      <3>10. \A i, j \in DOMAIN longer : longer[i] = longer[j] => i = j
        BY <3>3, <3>4, <3>5, <1>6
      <3>11. ASSUME NEW i \in DOMAIN longer \ {1}
             PROVE  /\ node'[longer[i]].parent = longer[Sample[i - 1].below + 1]
                    /\ node'[longer[i]].name = Sample[i - 1].name
        <4>1. CASE i = k + 1
          <5>1. i - 1 = k
            BY <4>1, <3>2
          <5>2. longer[Sample[k].below + 1] = p
            BY <1>3, <1>7, <3>3
          <5> QED
            BY <4>1, <5>1, <5>2, <1>7, <1>9, <3>3
        <4>2. CASE i \in 1..k
          <5>1. Sample[i - 1].below + 1 \in 1..k
            <6>1. i - 1 \in 1..Len(Sample) /\ i - 1 < k
              BY <4>2, <3>2
            <6>2. Sample[i - 1].below \in Nat /\ Sample[i - 1].below < i - 1
              BY <6>1, SampleEntries
            <6> QED
              BY <6>1, <6>2, <3>2
          <5>2. longer[i] = own[t][i] /\ own[t][i] \in DOMAIN node
            BY <4>2, <3>3, <3>4
          <5>3. node[own[t][i]].parent = own[t][Sample[i - 1].below + 1] /\ node[own[t][i]].name = Sample[i - 1].name
            BY <4>2, <3>4
          <5>4. longer[Sample[i - 1].below + 1] = own[t][Sample[i - 1].below + 1]
            BY <5>1, <3>3
          <5> QED
            BY <5>2, <5>3, <5>4, <1>9
        <4> QED
          BY <4>1, <4>2, <3>3, <3>5
      <3>12. ASSUME NEW e \in DOMAIN node', NEW i \in DOMAIN longer,
                    node'[e].maker = t, node'[e].parent = longer[i]
             PROVE  \E j \in DOMAIN longer \ {1} : longer[j] = e
        <4>1. CASE e = d
          BY <4>1, <3>3, <3>6
        <4>2. CASE e \in DOMAIN node
          <5>1. node[e].parent # d
            <6>1. d # NoNode
              BY <1>6, IdsAssumption
            <6> QED
              BY <6>1, <4>2, <1>6 DEF IInv, TreeSound, LinkedOnce
          <5>2. i \in 1..k /\ node[e].maker = t /\ node[e].parent = own[t][i]
            BY <5>1, <4>2, <3>12, <3>3, <3>5, <1>9
          <5>3. PICK j \in 1..k \ {1} : own[t][j] = e
            BY <5>2, <4>2, <3>4
          <5> QED
            BY <5>3, <3>3, <3>6
        <4> QED
          BY <4>1, <4>2, <1>9
      <3> QED
        BY <3>7, <3>8, <3>9, <3>10, <3>11, <3>12 DEF longer, Built
    <2>2. \A m \in DOMAIN mount : mount'[m] = mount[m]
      BY <1>1
    <2> QED
      BY <2>1, <2>2, <1>6, <1>9, <1>11, OthersBuild DEF BuildInv
  <1> QED
    BY <1>10, <1>13, <1>14, <1>15, <1>16, <1>17, <1>18, <1>19, <1>20 DEF IInv

\* A new mount brings a root dentry of its own.
LEMMA LinkSound ==
  ASSUME TypesInv, RootsInv, TreeSound, NEW m, m \notin DOMAIN mount, NEW d \in NodeIds \ DOMAIN node,
         DOMAIN mount' = DOMAIN mount \cup {m}, mount'[m].root = d,
         \A k \in DOMAIN mount : mount'[k] = mount[k],
         DOMAIN node' = DOMAIN node \cup {d},
         node'[d].parent = NoNode, node'[d].root = d, node'[d].kids = <<>>,
         \A e \in DOMAIN node : node'[e] = node[e]
  PROVE  RootsInv' /\ TreeSound'
  <1>1. RootsInv'
    BY DEF RootsInv
  <1>2. ASSUME NEW e \in DOMAIN node'
        PROVE  node'[e].parent = NoNode <=> \E k \in DOMAIN mount' : mount'[k].root = e
    <2>1. CASE e = d
      BY <2>1
    <2>2. CASE e \in DOMAIN node
      BY <2>2 DEF TreeSound
    <2> QED
      BY <2>1, <2>2
  <1>3. ASSUME NEW e \in DOMAIN node', node'[e].parent # NoNode
        PROVE  LinkedOnce(e, node[e].parent)'
    <2>1. e \in DOMAIN node /\ node'[e] = node[e] /\ LinkedOnce(e, node[e].parent)
      BY <1>3 DEF TreeSound
    <2>2. node'[node[e].parent] = node[node[e].parent] /\ node[e].parent \in DOMAIN node'
      BY <2>1 DEF LinkedOnce
    <2> QED
      BY <2>1, <2>2 DEF LinkedOnce
  <1>4. ASSUME NEW e \in DOMAIN node', NEW i \in DOMAIN node'[e].kids
        PROVE  node'[e].kids[i] \in DOMAIN node' /\ node'[node'[e].kids[i]].parent = e
    <2>1. e # d
      BY <1>4
    <2>2. e \in DOMAIN node /\ node'[e] = node[e] /\ i \in DOMAIN node[e].kids
      BY <2>1, <1>4
    <2>3. node[e].kids[i] \in DOMAIN node /\ node[node[e].kids[i]].parent = e
      BY <2>2 DEF TreeSound
    <2> QED
      BY <2>2, <2>3
  <1>5. TreeSound'
    BY <1>2, <1>3, <1>4 DEF TreeSound
  <1> QED
    BY <1>1, <1>5

LEMMA LinkStep ==
  ASSUME IInv, NEW t \in Threads, Link(t)
  PROVE  IInv'
  <1> DEFINE m == FreeMount
             d == FreeNode
             label == IF job[t] = "init" THEN "ino_load" ELSE "backend"
  <1>1. /\ pc[t] = "link" /\ FreeMounts # {} /\ FreeNodes # {}
        /\ list' = <<m>> \o list
        /\ mount' = [k \in DOMAIN mount \cup {m} |->
                       IF k = m THEN [mp |-> path[t], root |-> d] ELSE mount[k]]
        /\ node' = [e \in DOMAIN node \cup {d} |->
                      IF e = d THEN NewNode(t, d, "/", NoNode) ELSE node[e]]
        /\ mt' = [mt EXCEPT ![t] = m] /\ own' = [own EXCEPT ![t] = <<d>>]
        /\ pc' = [pc EXCEPT ![t] = label]
        /\ UNCHANGED <<job, path, cur, goal, ino, inited, nextIno, history>>
    BY DEF Link, Goto
  <1>2. m \in MountIds \ DOMAIN mount /\ \A u \in Threads : mt[u] # m
    BY <1>1 DEF FreeMount, FreeMounts
  <1>3. /\ d \in NodeIds \ DOMAIN node
        /\ \A u \in Threads : cur[u] # d /\ \A j \in DOMAIN own[u] : own[u][j] # d
    BY <1>1, FreeNodeFacts
  <1>4. label \in {"ino_load", "backend"} /\ (job[t] # "init" => label = "backend")
    OBVIOUS
  <1> HIDE DEF m, d, label
  <1>5. /\ DOMAIN mount' = DOMAIN mount \cup {m} /\ mount'[m].root = d
        /\ \A k \in DOMAIN mount : mount'[k] = mount[k]
    BY <1>1, <1>2
  <1>6. DOMAIN node' = DOMAIN node \cup {d} /\ \A e \in DOMAIN node : node'[e] = node[e]
    BY <1>1, <1>3
  <1>7. node'[d] = NewNode(t, d, "/", NoNode)
    BY <1>1
  <1>8. /\ node'[d].parent = NoNode /\ node'[d].root = d /\ node'[d].kids = <<>>
        /\ node'[d].maker = t /\ node'[d].ino = ino[t]
        /\ node'[d] = [f \in Fields |-> node'[d][f]]
    <2>1. /\ node'[d].parent = NoNode /\ node'[d].root = d /\ node'[d].kids = <<>>
          /\ node'[d].maker = t /\ node'[d].ino = ino[t]
      BY <1>7 DEF NewNode
    <2>2. node'[d] = [f \in Fields |-> node'[d][f]]
      BY <1>7 DEF NewNode, Fields
    <2> QED
      BY <2>1, <2>2
  <1>9. d # NoNode
    BY <1>3, IdsAssumption
  <1>10. TypesInv'
    <2>1. list' \in Seq(MountIds)
      BY <1>1, <1>2, Prepended DEF IInv, TypesInv
    <2>2. <<>> \in Seq(NodeIds) /\ <<d>> \in Seq(NodeIds)
      BY <1>3
    <2>3. own' \in [Threads -> Seq(NodeIds)]
      BY <1>1, <2>2 DEF IInv, TypesInv
    <2>4. \A e \in DOMAIN node' :
            /\ node'[e] = [f \in Fields |-> node'[e][f]]
            /\ node'[e].kids \in Seq(NodeIds) /\ node'[e].ino \in Nat
      <3>1. \A e \in DOMAIN node :
              /\ node[e] = [f \in Fields |-> node[e][f]]
              /\ node[e].kids \in Seq(NodeIds) /\ node[e].ino \in Nat
        BY DEF IInv, TypesInv
      <3>2. ino[t] \in Nat
        BY DEF IInv, TypesInv
      <3> QED
        BY <3>1, <3>2, <2>2, <1>6, <1>8
    <2>5. DOMAIN mount' \subseteq MountIds /\ DOMAIN node' \subseteq NodeIds
      BY <1>2, <1>3, <1>5, <1>6 DEF IInv, TypesInv
    <2> QED
      BY <2>1, <2>3, <2>4, <2>5, <1>1, <1>4 DEF IInv, TypesInv, Labels
  <1>11. Frame(t) /\ pc'[t] = label /\ job' = job /\ mt'[t] = m /\ own'[t] = <<d>>
    BY <1>1 DEF Frame, IInv, TypesInv
  <1>12. CallsInv'
    BY <1>4, <1>11 DEF IInv, CallsInv, Frame
  <1>13. NumbersInv'
    BY <1>1, <1>3, <1>4, <1>6, <1>8, <1>11, NumberUsed DEF history
  <1>14. RootsInv' /\ TreeSound'
    BY <1>2, <1>3, <1>5, <1>6, <1>8, LinkSound DEF IInv
  <1>15. ListInv'
    <2>1. list \in Seq(MountIds) /\ m \in MountIds
      BY <1>2 DEF IInv, TypesInv
    <2>2. /\ DOMAIN list' = 1..(Len(list) + 1) /\ list'[1] = m
          /\ \A j \in DOMAIN list' : j # 1 => j - 1 \in DOMAIN list /\ list'[j] = list[j - 1]
      <3>1. list' = <<m>> \o list
        BY <1>1
      <3> QED
        BY <3>1, <2>1, Prepended
    <2>3. \A j \in DOMAIN list' : list'[j] \in DOMAIN mount'
      BY <2>2, <1>5 DEF IInv, ListInv
    <2>4. ASSUME NEW i \in DOMAIN list', NEW j \in DOMAIN list', list'[i] = list'[j] PROVE i = j
      <3>1. \A k \in DOMAIN list : list[k] # m
        BY <1>2 DEF IInv, ListInv
      <3>2. CASE i = 1
        BY <3>1, <3>2, <2>2, <2>4
      <3>3. CASE j = 1
        BY <3>1, <3>3, <2>2, <2>4
      <3>4. CASE i # 1 /\ j # 1
        <4>1. i - 1 = j - 1
          BY <3>4, <2>2, <2>4 DEF IInv, ListInv
        <4>2. i \in Nat /\ j \in Nat
          BY <2>2
        <4> QED
          BY <4>1, <4>2
      <3> QED
        BY <3>2, <3>3, <3>4
    <2>5. ASSUME NEW u \in Threads, pc'[u] = "destroy", NEW j \in DOMAIN list' PROVE list'[j] # mt'[u]
      <3>1. u # t /\ pc[u] = "destroy" /\ mt'[u] = mt[u]
        BY <2>5, <1>4, <1>11 DEF Frame
      <3> QED
        BY <3>1, <2>2, <1>2 DEF IInv, ListInv
    <2> QED
      BY <2>3, <2>4, <2>5 DEF ListInv
  <1>16. OwnersInv'
    <2>1. \A u \in Threads \ {t} : Owner(u)' => Owner(u) /\ mt'[u] = mt[u]
      BY <1>11 DEF Frame, Owner
    <2> QED
      BY <2>1, <1>2, <1>5, <1>11 DEF IInv, OwnersInv
  <1>17. PendingInv'
    BY <1>3, <1>4, <1>6, <1>8, <1>11, OthersPending DEF Missing
  <1>18. TwinsOfDifferentCalls'
    BY <1>6, <1>8, <1>9 DEF IInv, TwinsOfDifferentCalls
  <1>19. BuildInv'
    <2>1. ASSUME job'[t] = "init", own'[t] # <<>>
          PROVE  Built(t)'
      <3> DEFINE one == own'[t]
      <3>1. one = <<d>>
        BY <1>11
      <3>2. Len(one) = 1 /\ DOMAIN one = {1} /\ one[1] = d
        BY <3>1
      <3> HIDE DEF one
      <3>3. \A e \in DOMAIN node' : node'[e].parent # d
        <4>1. \A e \in DOMAIN node : node[e].parent # d
          BY <1>3, <1>9 DEF IInv, TreeSound, LinkedOnce
        <4> QED
          BY <4>1, <1>6, <1>8, <1>9
      <3>4. Len(Sample) \in Nat /\ Len(Sample) > 0
        BY SampleEntries, SampleAssumption
      <3> QED
        BY <3>2, <3>3, <3>4, <1>5, <1>6, <1>8, <1>11 DEF one, Built
    <2> QED
      BY <2>1, <1>3, <1>5, <1>6, <1>8, <1>11, OthersBuild DEF BuildInv
  <1> QED
    BY <1>10, <1>12, <1>13, <1>14, <1>15, <1>16, <1>17, <1>18, <1>19 DEF IInv

----------------------------------------------------------------------------
\* Steps that free mounts and their trees.

\* What is left is as it was.
LEMMA CutRest ==
  ASSUME IInv, NEW R \in SUBSET DOMAIN mount,
         mount' = Restrict(mount, DOMAIN mount \ R),
         node' = Restrict(node, DOMAIN node \ UNION {TreeOf(mount[m].root) : m \in R}),
         nextIno' = nextIno, lapped' = lapped,
         \A u \in Threads : pc'[u] # "idle" =>
           /\ pc'[u] = pc[u] /\ job'[u] = job[u] /\ cur'[u] = cur[u] /\ goal'[u] = goal[u] /\ ino'[u] = ino[u],
         \A u \in Threads : pc'[u] = "idle" => job'[u] = "none"
  PROVE  /\ DOMAIN mount' = DOMAIN mount \ R /\ \A m \in DOMAIN mount' : mount'[m] = mount[m]
         /\ \A d \in DOMAIN node' : d \in DOMAIN node /\ node'[d] = node[d]
         /\ \A d \in DOMAIN node : d \in DOMAIN node' <=> \A m \in R : node[d].root # mount[m].root
         /\ NumbersInv' /\ RootsInv' /\ TreeSound' /\ PendingInv' /\ TwinsOfDifferentCalls'
  <1>1. DOMAIN mount' = DOMAIN mount \ R /\ \A m \in DOMAIN mount' : mount'[m] = mount[m]
    BY DEF Restrict
  <1>2. \A d \in DOMAIN node' : d \in DOMAIN node /\ node'[d] = node[d]
    BY DEF Restrict
  <1>3. \A d \in DOMAIN node : d \in DOMAIN node' <=> \A m \in R : node[d].root # mount[m].root
    BY DEF Restrict, TreeOf
  <1>4. NumbersInv'
    <2> SUFFICES ASSUME ~lapped PROVE NumbersInv'
      BY DEF NumbersInv
    <2>1. \A u \in Threads : pc'[u] \in {"ino_store", "add", "link"} => pc'[u] = pc[u] /\ ino'[u] = ino[u]
      OBVIOUS
    <2>2. \A d, e \in DOMAIN node' :
            /\ d \in DOMAIN node /\ node'[d].ino = node[d].ino /\ node[d].ino < nextIno
            /\ d # e => node[d].ino # node[e].ino
      BY <1>2 DEF IInv, NumbersInv
    <2>3. \A u, v \in Threads : pc'[u] = "ino_store" /\ pc'[v] = "ino_store" => u = v
      BY <2>1 DEF IInv, NumbersInv
    <2>4. \A u \in Threads : pc'[u] = "ino_store" => ino'[u] = nextIno
      BY <2>1 DEF IInv, NumbersInv
    <2>5. \A u \in Threads : pc'[u] \in {"add", "link"} =>
            /\ ino'[u] < nextIno
            /\ \A d \in DOMAIN node : node[d].ino # ino'[u]
            /\ \A v \in Threads : pc'[v] \in {"add", "link"} /\ v # u => ino'[v] # ino'[u]
      BY <2>1 DEF IInv, NumbersInv
    <2> QED
      BY <2>2, <2>3, <2>4, <2>5 DEF NumbersInv
  <1>5. RootsInv' /\ TreeSound'
    BY CutSound DEF IInv
  <1>6. PendingInv'
    <2>1. \A u \in Threads : job'[u] = "walk" /\ pc'[u] \in Missing =>
            /\ job[u] = "walk" /\ pc[u] \in Missing /\ cur'[u] = cur[u] /\ goal'[u] = goal[u]
      BY DEF Missing
    <2> QED
      BY <2>1, <1>2 DEF IInv, PendingInv, Missing
  <1>7. TwinsOfDifferentCalls'
    BY <1>2 DEF IInv, TwinsOfDifferentCalls
  <1> QED
    BY <1>1, <1>2, <1>3, <1>4, <1>5, <1>6, <1>7

LEMMA DestroyStep ==
  ASSUME IInv, NEW t \in Threads, Destroy(t)
  PROVE  IInv'
  <1> DEFINE m == mt[t]
  <1>1. /\ pc[t] = "destroy" /\ Return(t)
        /\ mount' = Restrict(mount, DOMAIN mount \ {m})
        /\ node' = Restrict(node, DOMAIN node \ TreeOf(mount[m].root))
        /\ UNCHANGED <<inited, list, nextIno, calls, lapped>>
    BY DEF Destroy
  <1>2. m \in DOMAIN mount
    BY <1>1 DEF IInv, OwnersInv, Owner
  <1>3. UNION {TreeOf(mount[k].root) : k \in {m}} = TreeOf(mount[m].root)
    OBVIOUS
  <1>4. \A k \in DOMAIN list : list[k] # m
    BY <1>1 DEF IInv, ListInv
  <1>5. \A u \in Threads \ {t} : Owner(u) => mt[u] # m
    BY <1>1 DEF IInv, OwnersInv, Owner
  <1> HIDE DEF m
  <1>6. Frame(t) /\ pc'[t] = "idle" /\ job'[t] = "none" /\ own'[t] = <<>>
    BY <1>1 DEF Return, Frame, IInv, TypesInv
  <1>7. CallsInv'
    BY <1>6 DEF IInv, CallsInv, Frame
  <1>8. /\ DOMAIN mount' = DOMAIN mount \ {m} /\ \A k \in DOMAIN mount' : mount'[k] = mount[k]
        /\ \A d \in DOMAIN node' : d \in DOMAIN node /\ node'[d] = node[d]
        /\ \A d \in DOMAIN node : d \in DOMAIN node' <=> node[d].root # mount[m].root
        /\ NumbersInv' /\ RootsInv' /\ TreeSound' /\ PendingInv' /\ TwinsOfDifferentCalls'
    <2>1. {m} \in SUBSET DOMAIN mount
      BY <1>2
    <2>2. node' = Restrict(node, DOMAIN node \ UNION {TreeOf(mount[k].root) : k \in {m}})
      BY <1>1, <1>3
    <2>3. \A u \in Threads : pc'[u] # "idle" =>
            /\ pc'[u] = pc[u] /\ job'[u] = job[u] /\ cur'[u] = cur[u] /\ goal'[u] = goal[u] /\ ino'[u] = ino[u]
      BY <1>6 DEF Frame
    <2>4. \A u \in Threads : pc'[u] = "idle" => job'[u] = "none"
      BY <1>7 DEF CallsInv
    <2>5. mount' = Restrict(mount, DOMAIN mount \ {m}) /\ nextIno' = nextIno /\ lapped' = lapped
      BY <1>1
    <2>6. PICK R \in SUBSET DOMAIN mount : R = {m}
      BY <2>1
    <2>7. /\ DOMAIN mount' = DOMAIN mount \ R /\ \A k \in DOMAIN mount' : mount'[k] = mount[k]
          /\ \A d \in DOMAIN node' : d \in DOMAIN node /\ node'[d] = node[d]
          /\ \A d \in DOMAIN node : d \in DOMAIN node' <=> \A k \in R : node[d].root # mount[k].root
          /\ NumbersInv' /\ RootsInv' /\ TreeSound' /\ PendingInv' /\ TwinsOfDifferentCalls'
      <3>1. /\ mount' = Restrict(mount, DOMAIN mount \ R)
            /\ node' = Restrict(node, DOMAIN node \ UNION {TreeOf(mount[k].root) : k \in R})
        BY <2>2, <2>5, <2>6
      <3> QED
        BY <3>1, <2>3, <2>4, <2>5, CutRest
    <2> QED
      BY <2>6, <2>7
  <1>9. TypesInv'
    <2>1. <<>> \in Seq(NodeIds)
      OBVIOUS
    <2>2. own' \in [Threads -> Seq(NodeIds)]
      BY <2>1, <1>1 DEF Return, IInv, TypesInv
    <2>3. /\ pc' \in [Threads -> Labels] /\ job' \in [Threads -> Calls]
          /\ ino' \in [Threads -> Nat] /\ mt' = [u \in Threads |-> mt'[u]]
          /\ cur' = [u \in Threads |-> cur'[u]] /\ goal' = [u \in Threads |-> goal'[u]]
      BY <1>1 DEF Return, IInv, TypesInv, Labels, Calls
    <2>4. /\ DOMAIN mount' \subseteq MountIds /\ DOMAIN node' \subseteq NodeIds
          /\ \A d \in DOMAIN node' :
               /\ node'[d] = [f \in Fields |-> node'[d][f]]
               /\ node'[d].kids \in Seq(NodeIds) /\ node'[d].ino \in Nat
      BY <1>8 DEF IInv, TypesInv
    <2> QED
      BY <2>2, <2>3, <2>4, <1>1 DEF IInv, TypesInv
  <1>10. ListInv'
    BY <1>1, <1>4, <1>6, <1>8 DEF IInv, ListInv, Frame
  <1>11. OwnersInv'
    <2>1. \A u \in Threads : Owner(u)' => u # t /\ Owner(u) /\ mt'[u] = mt[u]
      BY <1>6 DEF Owner, Frame
    <2> QED
      BY <2>1, <1>5, <1>8 DEF IInv, OwnersInv
  <1>12. BuildInv'
    <2> SUFFICES ASSUME NEW u \in Threads, job'[u] = "init", own'[u] # <<>>
                 PROVE  Built(u)'
      BY DEF BuildInv
    <2>1. u # t /\ job[u] = "init" /\ own'[u] = own[u] /\ mt'[u] = mt[u] /\ own[u] # <<>>
      BY <1>6 DEF Frame
    <2>2. mt[u] # m /\ mt[u] \in DOMAIN mount
      BY <2>1, <1>5 DEF IInv, OwnersInv, Owner
    <2>3. mount'[mt[u]] = mount[mt[u]] /\ mount[mt[u]].root # mount[m].root
      BY <2>2, <1>2, <1>8 DEF IInv, RootsInv
    <2>4. mount[mt[u]].root = own[u][1] /\ \A k \in DOMAIN own[u] : own[u][k] \in DOMAIN node /\ node[own[u][k]].root = own[u][1]
      BY <2>1 DEF IInv, BuildInv, Built
    <2>5. \A k \in DOMAIN own[u] : own[u][k] \in DOMAIN node' /\ node'[own[u][k]] = node[own[u][k]]
      BY <2>3, <2>4, <1>8
    <2>6. Built(u)
      BY <2>1 DEF IInv, BuildInv
    <2> QED
      BY <2>1, <2>3, <2>4, <2>5, <2>6, <1>8 DEF Built
  <1> QED
    BY <1>7, <1>8, <1>9, <1>10, <1>11, <1>12 DEF IInv

LEMMA ShutdownStep ==
  ASSUME IInv, NEW t \in Threads, Shutdown(t)
  PROVE  IInv'
  <1> DEFINE R == {list[i] : i \in DOMAIN list}
  <1>1. /\ list' = <<>> /\ mount' = Restrict(mount, DOMAIN mount \ R)
        /\ node' = Restrict(node, DOMAIN node \ UNION {TreeOf(mount[m].root) : m \in R})
        /\ UNCHANGED <<nextIno, pc, job, locals, history>>
    <2>1. {TreeOf(mount[list[i]].root) : i \in DOMAIN list} = {TreeOf(mount[m].root) : m \in R}
      OBVIOUS
    <2> QED
      BY <2>1 DEF Shutdown
  <1>2. R \in SUBSET DOMAIN mount
    BY DEF IInv, ListInv
  <1> HIDE DEF R
  <1>3. \A u \in Threads : pc[u] = "idle" /\ job[u] = "none" /\ ~Owner(u)
    BY DEF Shutdown, Alone, IInv, CallsInv, Owner
  <1>4. /\ DOMAIN mount' = DOMAIN mount \ R /\ \A m \in DOMAIN mount' : mount'[m] = mount[m]
        /\ \A d \in DOMAIN node' : d \in DOMAIN node /\ node'[d] = node[d]
        /\ NumbersInv' /\ RootsInv' /\ TreeSound' /\ PendingInv' /\ TwinsOfDifferentCalls'
    BY <1>1, <1>2, <1>3, CutRest DEF history
  <1>5. TypesInv'
    <2>1. list' \in Seq(MountIds)
      BY <1>1
    <2>2. /\ DOMAIN mount' \subseteq MountIds /\ DOMAIN node' \subseteq NodeIds
          /\ \A d \in DOMAIN node' :
               /\ node'[d] = [f \in Fields |-> node'[d][f]]
               /\ node'[d].kids \in Seq(NodeIds) /\ node'[d].ino \in Nat
      BY <1>4 DEF IInv, TypesInv
    <2> QED
      BY <2>1, <2>2, <1>1 DEF IInv, TypesInv, locals
  <1>6. CallsInv'
    BY <1>1 DEF IInv, CallsInv, locals
  <1>7. ListInv'
    BY <1>1, <1>3 DEF ListInv
  <1>8. OwnersInv' /\ BuildInv'
    BY <1>1, <1>3 DEF OwnersInv, BuildInv, Owner, locals
  <1> QED
    BY <1>4, <1>5, <1>6, <1>7, <1>8 DEF IInv

----------------------------------------------------------------------------
\* The theorems.

LEMMA InitHolds ==
  Init => IInv
  <1> SUFFICES ASSUME Init PROVE IInv
    OBVIOUS
  <1> USE DEF Init
  <1>1. DOMAIN list = {} /\ DOMAIN mount = {} /\ DOMAIN node = {}
    OBVIOUS
  <1>2. TypesInv
    <2>1. <<>> \in Seq(NodeIds) /\ <<>> \in Seq(MountIds)
      OBVIOUS
    <2> QED
      BY <2>1, <1>1 DEF TypesInv, Labels, Calls
  <1>3. CallsInv /\ OwnersInv /\ PendingInv /\ BuildInv
    BY DEF CallsInv, OwnersInv, Owner, PendingInv, BuildInv
  <1>4. NumbersInv /\ RootsInv /\ ListInv /\ TreeSound /\ TwinsOfDifferentCalls
    BY <1>1 DEF NumbersInv, RootsInv, ListInv, TreeSound, TwinsOfDifferentCalls
  <1> QED
    BY <1>2, <1>3, <1>4 DEF IInv

LEMMA StutterStep ==
  ASSUME IInv, UNCHANGED vars
  PROVE  IInv'
  <1> USE DEF vars, shared, locals, history
  <1>1. TypesInv' /\ CallsInv' /\ NumbersInv' /\ RootsInv' /\ ListInv'
    BY DEF IInv, TypesInv, CallsInv, NumbersInv, RootsInv, ListInv
  <1>2. OwnersInv' /\ TreeSound' /\ TwinsOfDifferentCalls'
    BY DEF IInv, OwnersInv, Owner, TreeSound, LinkedOnce, TwinsOfDifferentCalls
  <1>3. PendingInv' /\ BuildInv'
    BY DEF IInv, PendingInv, BuildInv, Built
  <1> QED
    BY <1>1, <1>2, <1>3 DEF IInv

\* The inductive invariant holds in every state: what each call has in hand, what it has
\* read and what it has built agree with the trees, whatever the other calls do.
THEOREM Invariance ==
  Spec => []IInv
  <1>1. IInv /\ [Next]_vars => IInv'
    <2> SUFFICES ASSUME IInv, [Next]_vars PROVE IInv'
      OBVIOUS
    <2>1. CASE UNCHANGED vars
      BY <2>1, StutterStep
    <2>2. ASSUME NEW t \in Threads, NEW p \in Paths, Walk(t, p) PROVE IInv'
      BY <2>2, WalkStep
    <2>3. ASSUME NEW t \in Threads, WalkFind(t) \/ WalkRoot(t) \/ WalkLookup(t) \/ WalkAdd(t) PROVE IInv'
      BY <2>3, WalkFindStep, WalkRootStep, WalkLookupStep, WalkAddStep
    <2>4. ASSUME NEW t \in Threads, InoLoad(t) \/ InoStore(t) PROVE IInv'
      BY <2>4, InoLoadStep, InoStoreStep
    <2>5. ASSUME NEW t \in Threads, VfsInit(t) \/ SampleAdd(t) PROVE IInv'
      BY <2>5, VfsInitStep, SampleAddStep
    <2>6. ASSUME NEW t \in Threads, NEW mp \in Mountpoints, Mount(t, mp) \/ Unmount(t, mp) PROVE IInv'
      BY <2>6, MountStep, UnmountStep
    <2>7. ASSUME NEW t \in Threads, Link(t) \/ Attach(t) PROVE IInv'
      BY <2>7, LinkStep, AttachStep
    <2>8. ASSUME NEW t \in Threads, Unlink(t) \/ Destroy(t) \/ Shutdown(t) PROVE IInv'
      BY <2>8, UnlinkStep, DestroyStep, ShutdownStep
    <2> QED
      BY <2>1, <2>2, <2>3, <2>4, <2>5, <2>6, <2>7, <2>8 DEF Next
  <1> QED
    BY <1>1, InitHolds, PTL DEF Spec

\* Parents and children agree in every state, however many calls add dentries to one
\* parent or free trees beside it.
THEOREM TreeSoundAlways ==
  Spec => []TreeSound
  <1>1. IInv => TreeSound
    BY DEF IInv
  <1> QED
    BY <1>1, Invariance, PTL

\* Two children of one name have been added by different threads.
THEOREM TwinsOfDifferentCallsAlways ==
  Spec => []TwinsOfDifferentCalls
  <1>1. IInv => TwinsOfDifferentCalls
    BY DEF IInv
  <1> QED
    BY <1>1, Invariance, PTL

\* Inode numbers differ until two threads are inside g_next_ino++ at once.
THEOREM InodeNumbersDifferAlways ==
  Spec => []InodeNumbersDiffer
  <1>1. IInv => InodeNumbersDiffer
    BY DEF IInv, NumbersInv, InodeNumbersDiffer
  <1> QED
    BY <1>1, Invariance, PTL
=============================================================================
