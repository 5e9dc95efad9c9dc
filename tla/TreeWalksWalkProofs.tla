------------------------- MODULE TreeWalksWalkProofs -------------------------
(***************************************************************************)
(* What the walks of TreeWalks reach, and what vfs_init builds beside      *)
(* them, for any threads, paths, mountpoints, sample tree and ids: proofs  *)
(* of TypeOK, NoUseAfterFree, WalkEndsRight and SampleBuiltOnce, on top of *)
(* the invariant of the trees.                                             *)
(***************************************************************************)
EXTENDS TreeWalksProofs

Others(t) == Frame(t) /\ \A u \in Threads \ {t} : path'[u] = path[u]

\* What HandsInv, PlacesInv and NamesInv say of a thread.
InHand(t) ==
  /\ mt[t] \in MountIds \cup {NoMount} /\ cur[t] \in NodeIds \cup {NoNode}
  /\ job[t] # "init" => Len(own[t]) <= 1
  /\ job[t] = "walk" => path[t] \in Paths
  /\ job[t] \in {"init", "mount"} => path[t] \in Mountpoints \cup {Root}
  /\ pc[t] \in Missing => job[t] \in {"walk", "init", "mount"}
  /\ pc[t] = "link" => job[t] \in {"init", "mount"}
  /\ job[t] = "walk" /\ pc[t] \in Missing => goal[t] # <<>>

LEMMA InHands ==
  ASSUME WInv, NEW t \in Threads
  PROVE  InHand(t)
  BY DEF WInv, HandsInv, PlacesInv, NamesInv, InHand, Missing

\* The other walks stay on their way: nothing they have in hand goes or changes.
LEMMA WalkersKept ==
  ASSUME WalkersInv, NEW t \in Threads, Others(t), raced => raced',
         \A m \in DOMAIN mount : m \in DOMAIN mount' /\ mount'[m].mp = mount[m].mp,
         \A d \in DOMAIN node : d \in DOMAIN node' /\ node'[d].names = node[d].names,
         ~raced' => OnItsWay(t)'
  PROVE  WalkersInv'
  <1> SUFFICES ASSUME ~raced', NEW u \in Threads \ {t} PROVE OnItsWay(u)'
    BY DEF WalkersInv
  <1>1. OnItsWay(u)
    BY DEF WalkersInv
  <1> QED
    BY <1>1 DEF OnItsWay, Down, Others, Frame

\* The thread's own part, when the locals of the others stay.
LEMMA LocalsKept ==
  ASSUME WInv, NEW t \in Threads, Others(t), InHand(t)',
         path' = [u \in Threads |-> path'[u]], goal' \in [Threads -> Seq(STRING)]
  PROVE  /\ \A u \in Threads : /\ mt'[u] \in MountIds \cup {NoMount} /\ cur'[u] \in NodeIds \cup {NoNode}
                               /\ job'[u] # "init" => Len(own'[u]) <= 1
         /\ \A u \in Threads : /\ job'[u] = "walk" => path'[u] \in Paths
                               /\ job'[u] \in {"init", "mount"} => path'[u] \in Mountpoints \cup {Root}
                               /\ pc'[u] \in Missing => job'[u] \in {"walk", "init", "mount"}
                               /\ pc'[u] = "link" => job'[u] \in {"init", "mount"}
         /\ \A u \in Threads : job'[u] = "walk" /\ pc'[u] \in Missing => goal'[u] # <<>>
  <1>1. ASSUME NEW u \in Threads
        PROVE  InHand(u)'
    <2>1. CASE u = t
      BY <2>1
    <2>2. CASE u # t
      BY <2>2, InHands DEF InHand, Others, Frame
    <2> QED
      BY <2>1, <2>2
  <1> QED
    BY <1>1 DEF InHand

\* A step that changes nothing but locals of its thread.
LEMMA OwnStep ==
  ASSUME WInv, NEW t \in Threads, Others(t), node' = node, mount' = mount, raced' = raced,
         InHand(t)', path' = [u \in Threads |-> path'[u]], goal' \in [Threads -> Seq(STRING)],
         ~raced => OnItsWay(t)'
  PROVE  WInv'
  <1>1. HandsInv'
    BY LocalsKept DEF WInv, HandsInv
  <1>2. PlacesInv'
    BY LocalsKept DEF WInv, PlacesInv, Missing
  <1>3. NamesInv'
    BY LocalsKept DEF WInv, NamesInv, Missing
  <1>4. WalkersInv'
    BY WalkersKept DEF WInv
  <1> QED
    BY <1>1, <1>2, <1>3, <1>4 DEF WInv

LEMMA UndefinedWalks ==
  ASSUME WInv, raced, Undefined
  PROVE  WInv'
  <1> USE DEF WInv, Undefined, shared, locals, history
  <1>1. HandsInv' /\ PlacesInv' /\ NamesInv' /\ WalkersInv'
    BY DEF HandsInv, PlacesInv, NamesInv, WalkersInv
  <1> QED
    BY <1>1

\* A thread that returns has nothing left in hand.
LEMMA ReturnedWalks ==
  ASSUME IInv, WInv, NEW t \in Threads, Return(t)
  PROVE  /\ Others(t) /\ InHand(t)' /\ OnItsWay(t)'
         /\ path' = [u \in Threads |-> path'[u]] /\ goal' \in [Threads -> Seq(STRING)]
  <1> USE DEF Return
  <1>1. Others(t)
    BY DEF Others, Frame, IInv, TypesInv, WInv, PlacesInv
  <1>2. /\ pc'[t] = "idle" /\ job'[t] = "none" /\ mt'[t] = NoMount /\ cur'[t] = NoNode
        /\ own'[t] = <<>>
    BY DEF IInv, TypesInv
  <1>3. InHand(t)' /\ OnItsWay(t)'
    <2>1. OnItsWay(t)'
      BY <1>2 DEF OnItsWay, Down
    <2>2. Len(own'[t]) <= 1
      BY <1>2
    <2>3. InHand(t)'
      BY <1>2, <2>2 DEF InHand, Missing
    <2> QED
      BY <2>1, <2>3
  <1>4. path' = [u \in Threads |-> path'[u]]
    BY DEF WInv, PlacesInv
  <1>5. goal' \in [Threads -> Seq(STRING)]
    <2>1. <<>> \in Seq(STRING)
      OBVIOUS
    <2> QED
      BY <2>1 DEF WInv, NamesInv
  <1> QED
    BY <1>1, <1>3, <1>4, <1>5

LEMMA ReturnWalks ==
  ASSUME IInv, WInv, NEW t \in Threads, Return(t), UNCHANGED <<shared, history>>
  PROVE  WInv'
  BY ReturnedWalks, OwnStep DEF shared, history

----------------------------------------------------------------------------
\* Steps that change locals only.

LEMMA WalkWalks ==
  ASSUME IInv, WInv, NEW t \in Threads, NEW p \in Paths, Walk(t, p)
  PROVE  WInv'
  <1> USE DEF Walk, Start, shared
  <1>1. Others(t)
    BY DEF Others, Frame, IInv, TypesInv, WInv, PlacesInv
  <1>2. pc'[t] = "find" /\ job'[t] = "walk" /\ path'[t] = p /\ own'[t] = <<>>
    BY DEF IInv, TypesInv, CallsInv, WInv, PlacesInv
  <1>3. InHand(t)'
    BY <1>2, InHands DEF InHand, Missing
  <1>4. OnItsWay(t)'
    BY <1>2 DEF OnItsWay, Down
  <1>5. path' = [u \in Threads |-> path'[u]] /\ goal' \in [Threads -> Seq(STRING)]
    BY DEF WInv, PlacesInv, NamesInv
  <1> QED
    BY <1>1, <1>3, <1>4, <1>5, OwnStep

\* The mount that is found is in the list, hence allocated.
LEMMA WalkFindWalks ==
  ASSUME IInv, WInv, NEW t \in Threads, WalkFind(t)
  PROVE  WInv'
  <1> DEFINE best == FindBestMount(path[t], MpsOf)
  <1>1. ~ListFreed
    BY DEF ListFreed, IInv, ListInv
  <1>2. CASE best = 0
    BY <1>1, <1>2, ReturnWalks DEF WalkFind
  <1>3. CASE best # 0
    <2>1. /\ pc[t] = "find"
          /\ mt' = [mt EXCEPT ![t] = list[best]] /\ Goto(t, "root")
          /\ UNCHANGED <<path, cur, goal, ino, own>> /\ UNCHANGED <<shared, history>>
      BY <1>1, <1>3 DEF WalkFind
    <2>2. best \in DOMAIN list
      <3>1. list \in Seq(MountIds) /\ DOMAIN list = 1..Len(list) /\ Len(list) \in Nat
        BY DEF IInv, TypesInv
      <3>2. DOMAIN MpsOf = 1..Len(list)
        BY <3>1 DEF MpsOf
      <3>3. Len(MpsOf) = Len(list)
        <4>1. MpsOf \in [1..Len(list) -> {mount[list[i]].mp : i \in DOMAIN list}]
          BY <3>1 DEF MpsOf
        <4>2. MpsOf \in Seq({mount[list[i]].mp : i \in DOMAIN list})
          BY <4>1, <3>1
        <4> QED
          BY <4>2, <3>1, <3>2
      <3>4. best \in 0..Len(MpsOf)
        BY <3>1, <3>3, BestInTable
      <3> QED
        BY <3>1, <3>3, <3>4, <1>3
    <2>3. list[best] \in MountIds /\ list[best] \in DOMAIN mount
      BY <2>2 DEF IInv, TypesInv, ListInv
    <2> HIDE DEF best
    <2> USE <2>1 DEF Goto, shared, history
    <2>4. Others(t)
      BY DEF Others, Frame, IInv, TypesInv
    <2>5. pc'[t] = "root" /\ job'[t] = "walk" /\ mt'[t] = list[best]
      BY DEF IInv, TypesInv, CallsInv
    <2>6. job[t] = "walk"
      BY DEF IInv, CallsInv
    <2>7. InHand(t)'
      BY <2>3, <2>5, <2>6, InHands DEF InHand, Missing
    <2>8. OnItsWay(t)'
      BY <2>3, <2>5 DEF OnItsWay, Down
    <2>9. path' = [u \in Threads |-> path'[u]] /\ goal' \in [Threads -> Seq(STRING)]
      BY DEF WInv, PlacesInv, NamesInv
    <2> QED
      BY <2>4, <2>7, <2>8, <2>9, OwnStep
  <1> QED
    BY <1>2, <1>3

\* What a mountpoint leaves of a path is a sequence of names.
LEMMA WalksByNames ==
  ASSUME NEW p \in Paths, NEW mp \in Mountpoints \cup {Root}
  PROVE  WalkNames(p, mp) \in Seq(STRING)
  <1>1. Len(Root) \in Nat
    BY DEF Root
  <1>2. p \in Seq(STRING) /\ Len(mp) \in Nat
    BY <1>1, PathsAssumption
  <1> QED
    BY <1>2, WalkTyped

\* All of what the mount leaves of the path is still to go.
LEMMA WalkRootWalks ==
  ASSUME IInv, WInv, NEW t \in Threads, WalkRoot(t)
  PROVE  WInv'
  <1>1. CASE mt[t] \notin DOMAIN mount /\ Undefined
    <2>1. pc[t] = "root"
      BY DEF WalkRoot
    <2>2. raced
      BY <1>1, <2>1 DEF WInv, WalkersInv, OnItsWay
    <2> QED
      BY <1>1, <2>2, UndefinedWalks
  <1>2. CASE /\ mt[t] \in DOMAIN mount
             /\ cur' = [cur EXCEPT ![t] = mount[mt[t]].root]
             /\ goal' = [goal EXCEPT ![t] = WalkNames(path[t], mount[mt[t]].mp)]
             /\ Goto(t, "lookup")
             /\ UNCHANGED <<shared, path, mt, ino, own, history>>
    <2> USE <1>2 DEF Goto, shared, history
    <2>1. pc[t] = "root" /\ job[t] = "walk"
      BY DEF WalkRoot, IInv, CallsInv
    <2> DEFINE r == mount[mt[t]].root
               w == WalkNames(path[t], mount[mt[t]].mp)
    <2>2. r \in DOMAIN node /\ r \in NodeIds
      BY DEF IInv, RootsInv, TypesInv
    <2>3. node[r].parent = NoNode
      BY <2>2 DEF IInv, TreeSound
    <2>4. node[r].names = <<>>
      BY <2>2, <2>3 DEF WInv, NamesInv
    <2>5. w \in Seq(STRING)
      <3>1. path[t] \in Paths /\ mount[mt[t]].mp \in Mountpoints \cup {Root}
        BY <2>1 DEF WInv, PlacesInv
      <3> QED
        BY <3>1, WalksByNames
    <2> HIDE DEF r, w
    <2>6. /\ pc'[t] = "lookup" /\ job'[t] = "walk" /\ cur'[t] = r /\ goal'[t] = w
      BY <2>1 DEF IInv, TypesInv, WInv, NamesInv, r, w
    <2>7. Others(t)
      BY DEF Others, Frame, IInv, TypesInv, WInv, NamesInv
    <2>8. InHand(t)'
      BY <2>1, <2>2, <2>6, InHands DEF InHand, Missing
    <2>9. OnItsWay(t)'
      <3>1. <<>> \o w = w
        BY <2>5
      <3> QED
        BY <2>2, <2>4, <2>6, <3>1 DEF OnItsWay, Down, w
    <2>10. path' = [u \in Threads |-> path'[u]]
      BY DEF WInv, PlacesInv
    <2>11. goal' \in [Threads -> Seq(STRING)]
      BY <2>5 DEF WInv, NamesInv, w
    <2> QED
      BY <2>7, <2>8, <2>9, <2>10, <2>11, OwnStep
  <1> QED
    BY <1>1, <1>2 DEF WalkRoot

\* One name of what was to go is now behind the walk.
LEMMA OneFurther ==
  ASSUME NEW names \in Seq(STRING), NEW rest \in Seq(STRING), rest # <<>>
  PROVE  /\ Head(rest) \in STRING /\ Tail(rest) \in Seq(STRING)
         /\ Append(names, Head(rest)) \o Tail(rest) = names \o rest
  <1>1. Head(rest) \in STRING /\ Tail(rest) \in Seq(STRING) /\ rest = <<Head(rest)>> \o Tail(rest)
    OBVIOUS
  <1>2. Append(names, Head(rest)) = names \o <<Head(rest)>>
    BY <1>1, AppendIsConcat
  <1>3. <<Head(rest)>> \in Seq(STRING)
    BY <1>1
  <1>4. (names \o <<Head(rest)>>) \o Tail(rest) = names \o (<<Head(rest)>> \o Tail(rest))
    BY <1>1, <1>3, ConcatAssociative
  <1> QED
    BY <1>1, <1>2, <1>4

LEMMA WalkLookupWalks ==
  ASSUME IInv, WInv, NEW t \in Threads, WalkLookup(t)
  PROVE  WInv'
  <1> DEFINE i == FirstChild(cur[t], Head(goal[t]))
  <1>0. pc[t] = "lookup" /\ job[t] = "walk"
    BY DEF WalkLookup, IInv, CallsInv
  <1>1. CASE cur[t] \notin DOMAIN node /\ Undefined
    <2>1. raced
      BY <1>0, <1>1 DEF WInv, WalkersInv, OnItsWay, Down
    <2> QED
      BY <1>1, <2>1, UndefinedWalks
  <1>2. CASE Return(t) /\ UNCHANGED <<shared, history>>
    BY <1>2, ReturnWalks
  <1>3. CASE /\ goal[t] # <<>> /\ cur[t] \in DOMAIN node /\ i # 0
             /\ cur' = [cur EXCEPT ![t] = node[cur[t]].kids[i]]
             /\ goal' = [goal EXCEPT ![t] = Tail(@)]
             /\ UNCHANGED <<pc, job>> /\ UNCHANGED <<shared, path, mt, ino, own, history>>
    <2>1. PICK k : k = node[cur[t]].kids[i]
      OBVIOUS
    <2>2. i \in DOMAIN node[cur[t]].kids /\ node[k].name = Head(goal[t])
      BY <1>3, <2>1, Lookup DEF IInv
    <2> HIDE DEF i
    <2> USE <1>3 DEF shared, history
    <2>3. k \in DOMAIN node /\ node[k].parent = cur[t] /\ k \in NodeIds /\ cur[t] # NoNode
      BY <2>1, <2>2, IdsAssumption DEF IInv, TreeSound, TypesInv
    <2>4. /\ node[cur[t]].names \in Seq(STRING)
          /\ node[k].names = Append(node[cur[t]].names, Head(goal[t]))
      BY <2>2, <2>3 DEF WInv, NamesInv
    <2>5. goal[t] \in Seq(STRING)
      BY DEF WInv, NamesInv
    <2>6. /\ Tail(goal[t]) \in Seq(STRING)
          /\ node[k].names \o Tail(goal[t]) = node[cur[t]].names \o goal[t]
      BY <2>4, <2>5, OneFurther
    <2>7. /\ pc'[t] = "lookup" /\ job'[t] = "walk" /\ cur'[t] = k /\ goal'[t] = Tail(goal[t])
      BY <1>0, <2>1 DEF IInv, TypesInv
    <2>8. Others(t)
      BY DEF Others, Frame, IInv, TypesInv, WInv, NamesInv
    <2>9. InHand(t)'
      BY <1>0, <2>3, <2>7, InHands DEF InHand, Missing
    <2>10. ~raced => OnItsWay(t)'
      <3>1. SUFFICES ASSUME ~raced PROVE OnItsWay(t)'
        OBVIOUS
      <3>2. OnItsWay(t) /\ Down(t)
        BY <1>0, <3>1 DEF WInv, WalkersInv, Down
      <3> QED
        BY <1>0, <2>3, <2>6, <2>7, <3>2 DEF OnItsWay, Down
    <2>11. path' = [u \in Threads |-> path'[u]] /\ goal' \in [Threads -> Seq(STRING)]
      BY <2>6 DEF WInv, PlacesInv, NamesInv
    <2> QED
      BY <2>8, <2>9, <2>10, <2>11, OwnStep
  <1>4. CASE /\ goal[t] # <<>> /\ cur[t] \in DOMAIN node /\ Goto(t, "ino_load")
             /\ UNCHANGED <<cur, goal>> /\ UNCHANGED <<shared, path, mt, ino, own, history>>
    <2> USE <1>4 DEF Goto, shared, history
    <2>1. pc'[t] = "ino_load" /\ job'[t] = "walk"
      BY <1>0 DEF IInv, TypesInv
    <2>2. Others(t)
      BY DEF Others, Frame, IInv, TypesInv
    <2>3. InHand(t)'
      BY <1>0, <2>1, InHands DEF InHand
    <2>4. ~raced => OnItsWay(t)'
      BY <1>0, <2>1 DEF OnItsWay, Down, WInv, WalkersInv
    <2>5. path' = [u \in Threads |-> path'[u]] /\ goal' \in [Threads -> Seq(STRING)]
      BY DEF WInv, PlacesInv, NamesInv
    <2> QED
      BY <2>2, <2>3, <2>4, <2>5, OwnStep
  <1> QED
    BY <1>1, <1>2, <1>3, <1>4 DEF WalkLookup

\* The rest of the steps that touch neither trees nor mounts: t goes on with the same in
\* hand, or starts a call.
LEMMA InoWalks ==
  ASSUME IInv, WInv, NEW t \in Threads, InoLoad(t) \/ InoStore(t)
  PROVE  WInv'
  <1>1. /\ pc[t] \in {"ino_load", "ino_store"}
        /\ \E l \in {"ino_store", "add", "link"} :
             pc' = [pc EXCEPT ![t] = l] /\ (job[t] = "walk" => l # "link")
        /\ ino' = [u \in Threads |-> ino'[u]] /\ \A u \in Threads \ {t} : ino'[u] = ino[u]
        /\ UNCHANGED <<list, mount, node, job, path, mt, cur, goal, own, raced>>
    BY DEF InoLoad, InoStore, Goto, shared, locals, history, IInv, TypesInv
  <1>2. PICK l \in {"ino_store", "add", "link"} :
          pc' = [pc EXCEPT ![t] = l] /\ (job[t] = "walk" => l # "link")
    BY <1>1
  <1>3. pc'[t] = l
    BY <1>2 DEF IInv, TypesInv
  <1>4. Others(t)
    BY <1>1, <1>2 DEF Others, Frame, IInv, TypesInv
  <1>5. InHand(t)'
    BY <1>1, <1>3, InHands DEF InHand, Missing
  <1>6. ~raced => OnItsWay(t)'
    BY <1>1, <1>2, <1>3 DEF OnItsWay, Down, WInv, WalkersInv
  <1>7. path' = [u \in Threads |-> path'[u]] /\ goal' \in [Threads -> Seq(STRING)]
    BY <1>1 DEF WInv, PlacesInv, NamesInv
  <1> QED
    BY <1>1, <1>4, <1>5, <1>6, <1>7, OwnStep

LEMMA StartWalks ==
  ASSUME IInv, WInv, NEW t \in Threads, VfsInit(t) \/ \E mp \in Mountpoints : Mount(t, mp)
  PROVE  WInv'
  <1>1. /\ pc[t] = "idle"
        /\ pc' = [pc EXCEPT ![t] = "ino_load"]
        /\ \E call \in {"init", "mount"} : job' = [job EXCEPT ![t] = call]
        /\ \E p \in Mountpoints \cup {Root} : path' = [path EXCEPT ![t] = p]
        /\ UNCHANGED <<list, mount, node, mt, cur, goal, ino, own, raced>>
    BY DEF VfsInit, Mount, Start, shared
  <1>2. pc'[t] = "ino_load" /\ job'[t] \in {"init", "mount"} /\ path'[t] \in Mountpoints \cup {Root}
    BY <1>1 DEF IInv, TypesInv, WInv, PlacesInv
  <1>3. own'[t] = <<>>
    BY <1>1 DEF IInv, CallsInv
  <1>4. Others(t)
    BY <1>1 DEF Others, Frame, IInv, TypesInv, WInv, PlacesInv
  <1>5. InHand(t)'
    BY <1>1, <1>2, <1>3, InHands DEF InHand
  <1>6. OnItsWay(t)'
    BY <1>2 DEF OnItsWay, Down
  <1>7. path' = [u \in Threads |-> path'[u]] /\ goal' \in [Threads -> Seq(STRING)]
    BY <1>1 DEF WInv, PlacesInv, NamesInv
  <1> QED
    BY <1>1, <1>4, <1>5, <1>6, <1>7, OwnStep

LEMMA AttachWalks ==
  ASSUME IInv, WInv, NEW t \in Threads, Attach(t)
  PROVE  WInv'
  <1>1. CASE Return(t)
    BY <1>1, ReturnWalks DEF Attach
  <1>2. CASE Goto(t, "unlink") /\ UNCHANGED locals
    <2> USE <1>2 DEF Attach, Goto, shared, locals, history
    <2>1. pc'[t] = "unlink"
      BY DEF IInv, TypesInv
    <2>2. Others(t)
      BY DEF Others, Frame, IInv, TypesInv
    <2>3. InHand(t)'
      BY <2>1, InHands DEF InHand, Missing
    <2>4. OnItsWay(t)'
      BY <2>1 DEF OnItsWay, Down
    <2>5. path' = [u \in Threads |-> path'[u]] /\ goal' \in [Threads -> Seq(STRING)]
      BY DEF WInv, PlacesInv, NamesInv
    <2> QED
      BY <2>2, <2>3, <2>4, <2>5, OwnStep
  <1> QED
    BY <1>1, <1>2 DEF Attach

LEMMA UnlinkWalks ==
  ASSUME IInv, WInv, NEW t \in Threads, Unlink(t)
  PROVE  WInv'
  <1> USE DEF Unlink, Goto, locals, history
  <1>1. pc'[t] = "destroy"
    BY DEF IInv, TypesInv
  <1>2. Others(t)
    BY DEF Others, Frame, IInv, TypesInv
  <1>3. InHand(t)'
    BY <1>1, InHands DEF InHand, Missing
  <1>4. OnItsWay(t)'
    BY <1>1 DEF OnItsWay, Down
  <1>5. path' = [u \in Threads |-> path'[u]] /\ goal' \in [Threads -> Seq(STRING)]
    BY DEF WInv, PlacesInv, NamesInv
  <1> QED
    BY <1>2, <1>3, <1>4, <1>5, OwnStep

LEMMA UnmountWalks ==
  ASSUME IInv, IInv', WInv, NEW t \in Threads, NEW mp, Unmount(t, mp)
  PROVE  WInv'
  <1>1. ~ListFreed
    BY DEF ListFreed, IInv, ListInv
  <1>2. PICK m :
          /\ pc[t] = "idle" /\ pc' = [pc EXCEPT ![t] = "unlink"]
          /\ job' = [job EXCEPT ![t] = "unmount"]
          /\ mt' = [mt EXCEPT ![t] = m]
          /\ UNCHANGED <<shared, path, cur, goal, ino, own, raced>>
    BY <1>1 DEF Unmount, Start
  <1>3. pc'[t] = "unlink" /\ job'[t] = "unmount" /\ mt'[t] = m /\ own[t] = <<>>
    BY <1>2 DEF IInv, TypesInv, CallsInv
  <1>4. m \in MountIds
    BY <1>3 DEF IInv, OwnersInv, Owner, TypesInv
  <1>5. Others(t)
    BY <1>2 DEF Others, Frame, IInv, TypesInv
  <1>6. InHand(t)'
    BY <1>2, <1>3, <1>4, InHands DEF InHand, Missing
  <1>7. OnItsWay(t)'
    BY <1>3 DEF OnItsWay, Down
  <1>8. path' = [u \in Threads |-> path'[u]] /\ goal' \in [Threads -> Seq(STRING)]
    BY <1>2 DEF WInv, PlacesInv, NamesInv
  <1> QED
    BY <1>2, <1>5, <1>6, <1>7, <1>8, OwnStep DEF shared

----------------------------------------------------------------------------
\* Steps that add a dentry.

\* The names of the dentries when one is added below p.
LEMMA AddNames ==
  ASSUME IInv, NamesInv, NEW t \in Threads, NEW d \in NodeIds \ DOMAIN node, NEW p \in DOMAIN node,
         NEW name \in STRING, node' = AddChild(t, d, name, p)
  PROVE  /\ DOMAIN node' = DOMAIN node \cup {d}
         /\ \A e \in DOMAIN node : node'[e].names = node[e].names
         /\ node'[d].names = Append(node[p].names, name)
         /\ \A e \in DOMAIN node' :
              /\ node'[e].names \in Seq(STRING)
              /\ node'[e].names = IF node'[e].parent = NoNode THEN <<>>
                                  ELSE Append(node'[node'[e].parent].names, node'[e].name)
  <1>1. /\ DOMAIN node' = DOMAIN node \cup {d}
        /\ node'[d].name = name /\ node'[d].parent = p
        /\ \A e \in DOMAIN node : node'[e].name = node[e].name /\ node'[e].parent = node[e].parent
    BY AddFields DEF IInv
  <1>2. p # NoNode /\ d # p
    BY IdsAssumption DEF IInv, TypesInv
  <1>3. node'[d].names = Append(node[p].names, name)
    BY <1>2 DEF AddChild, NewNode
  <1>4. \A e \in DOMAIN node : node'[e].names = node[e].names
    <2>1. \A e \in DOMAIN node \ {p} : node'[e] = node[e]
      BY DEF AddChild
    <2>2. node'[p] = [node[p] EXCEPT !.kids = <<d>> \o node[p].kids]
      BY <1>2 DEF AddChild
    <2>3. node[p] = [f \in Fields |-> node[p][f]]
      BY DEF IInv, TypesInv
    <2>4. node'[p].names = node[p].names
      BY <2>2, <2>3 DEF Fields
    <2> QED
      BY <2>1, <2>4
  <1>5. ASSUME NEW e \in DOMAIN node
        PROVE  /\ node'[e].names \in Seq(STRING)
               /\ node'[e].names = IF node'[e].parent = NoNode THEN <<>>
                                   ELSE Append(node'[node'[e].parent].names, node'[e].name)
    <2>1. node[e].parent # NoNode => node[e].parent \in DOMAIN node
      BY DEF IInv, TreeSound, LinkedOnce
    <2>2. /\ node[e].names \in Seq(STRING)
          /\ node[e].names = IF node[e].parent = NoNode THEN <<>>
                             ELSE Append(node[node[e].parent].names, node[e].name)
      BY DEF NamesInv
    <2> QED
      BY <1>1, <1>4, <2>1, <2>2
  <1>6. node'[d].names \in Seq(STRING)
    <2>1. node[p].names \in Seq(STRING)
      BY DEF NamesInv
    <2> QED
      BY <1>3, <2>1
  <1>7. /\ node'[d].names \in Seq(STRING)
        /\ node'[d].names = IF node'[d].parent = NoNode THEN <<>>
                            ELSE Append(node'[node'[d].parent].names, node'[d].name)
    BY <1>1, <1>2, <1>3, <1>4, <1>6
  <1>8. \A e \in DOMAIN node' :
          /\ node'[e].names \in Seq(STRING)
          /\ node'[e].names = IF node'[e].parent = NoNode THEN <<>>
                              ELSE Append(node'[node'[e].parent].names, node'[e].name)
    BY <1>1, <1>5, <1>7
  <1> QED
    BY <1>1, <1>3, <1>4, <1>8

LEMMA WalkAddWalks ==
  ASSUME IInv, WInv, NEW t \in Threads, WalkAdd(t)
  PROVE  WInv'
  <1>0. pc[t] = "add" /\ job[t] = "walk"
    BY DEF WalkAdd
  <1>1. CASE cur[t] \notin DOMAIN node /\ Undefined
    <2>1. raced
      BY <1>0, <1>1 DEF WInv, WalkersInv, OnItsWay, Down
    <2> QED
      BY <1>1, <2>1, UndefinedWalks
  <1>2. CASE cur[t] \in DOMAIN node
    <2>1. PICK d \in NodeIds \ DOMAIN node :
            /\ node' = AddChild(t, d, Head(goal[t]), cur[t])
            /\ cur' = [cur EXCEPT ![t] = d] /\ goal' = [goal EXCEPT ![t] = Tail(goal[t])]
            /\ pc' = [pc EXCEPT ![t] = "lookup"]
            /\ UNCHANGED <<job, mount, path, mt, ino, own, raced>>
      <3>1. FreeNode \in NodeIds \ DOMAIN node
        BY <1>2, FreeNodeFacts DEF WalkAdd
      <3> QED
        BY <1>2, <3>1 DEF WalkAdd, Goto, history
    <2>2. goal[t] \in Seq(STRING) /\ goal[t] # <<>> /\ node[cur[t]].names \in Seq(STRING)
      BY <1>0, <1>2 DEF WInv, NamesInv
    <2>3. PICK name \in STRING : name = Head(goal[t])
      BY <2>2, OneFurther
    <2>4. /\ Tail(goal[t]) \in Seq(STRING)
          /\ Append(node[cur[t]].names, name) \o Tail(goal[t]) = node[cur[t]].names \o goal[t]
      BY <2>2, <2>3, OneFurther
    <2>5. node' = AddChild(t, d, name, cur[t])
      BY <2>1, <2>3
    <2>6. /\ DOMAIN node' = DOMAIN node \cup {d}
          /\ \A e \in DOMAIN node : node'[e].names = node[e].names
          /\ node'[d].names = Append(node[cur[t]].names, name)
          /\ \A e \in DOMAIN node' :
               /\ node'[e].names \in Seq(STRING)
               /\ node'[e].names = IF node'[e].parent = NoNode THEN <<>>
                                   ELSE Append(node'[node'[e].parent].names, node'[e].name)
      BY <1>2, <2>5, AddNames DEF WInv
    <2>7. \A e \in DOMAIN node' : node'[e].maker \in Threads
      <3>1. node'[d].maker = t /\ \A e \in DOMAIN node : node'[e].maker = node[e].maker
        BY <1>2, <2>5, AddFields DEF IInv
      <3> QED
        BY <2>6, <3>1 DEF WInv, HandsInv
    <2>8. pc'[t] = "lookup" /\ job'[t] = "walk" /\ cur'[t] = d /\ goal'[t] = Tail(goal[t])
      BY <1>0, <2>1 DEF IInv, TypesInv
    <2>9. Others(t)
      BY <2>1 DEF Others, Frame, IInv, TypesInv, WInv, NamesInv
    <2>10. InHand(t)'
      BY <1>0, <2>1, <2>8, InHands DEF InHand, Missing
    <2>11. path' = [u \in Threads |-> path'[u]] /\ goal' \in [Threads -> Seq(STRING)]
      BY <2>1, <2>4 DEF WInv, PlacesInv, NamesInv
    <2>12. ~raced' => OnItsWay(t)'
      <3>1. SUFFICES ASSUME ~raced PROVE OnItsWay(t)'
        BY <2>1
      <3>2. OnItsWay(t) /\ Down(t)
        BY <1>0, <3>1 DEF WInv, WalkersInv, Down
      <3> QED
        BY <2>1, <2>4, <2>6, <2>8, <3>2 DEF OnItsWay
    <2>13. HandsInv'
      BY <2>7, <2>9, <2>10, <2>11, LocalsKept DEF HandsInv
    <2>14. PlacesInv'
      BY <2>1, <2>9, <2>10, <2>11, LocalsKept DEF WInv, PlacesInv, Missing
    <2>15. NamesInv'
      BY <2>6, <2>9, <2>10, <2>11, LocalsKept DEF NamesInv, Missing
    <2>16. WalkersInv'
      BY <2>1, <2>6, <2>9, <2>12, WalkersKept DEF WInv
    <2> QED
      BY <2>13, <2>14, <2>15, <2>16 DEF WInv
  <1> QED
    BY <1>1, <1>2 DEF WalkAdd

LEMMA SampleAddWalks ==
  ASSUME IInv, WInv, NEW t \in Threads, SampleAdd(t)
  PROVE  WInv'
  <1>1. PICK k \in DOMAIN Sample :
          /\ k = Len(own[t])
          /\ own[t][Sample[k].below + 1] \in DOMAIN node
    <2>1. job[t] = "init" /\ own[t] # <<>>
      BY DEF SampleAdd, IInv, CallsInv
    <2>2. Len(own[t]) \in DOMAIN Sample /\ Sample[Len(own[t])].below + 1 \in DOMAIN own[t]
      BY <2>1, NextEntry
    <2>3. own[t][Sample[Len(own[t])].below + 1] \in DOMAIN node
      BY <2>1, <2>2 DEF IInv, BuildInv, Built
    <2> QED
      BY <2>2, <2>3
  <1>2. PICK p \in DOMAIN node : p = own[t][Sample[k].below + 1]
    BY <1>1
  <1>3. PICK name \in STRING : name = Sample[k].name
    <2>1. \A r \in [name : STRING, below : Nat] : r.name \in STRING
      OBVIOUS
    <2>2. Sample[k] \in [name : STRING, below : Nat]
      BY SampleAssumption, ElementOfSeq, LenProperties
    <2> QED
      BY <2>1, <2>2
  <1>4. PICK d \in NodeIds \ DOMAIN node : node' = AddChild(t, d, name, p)
    <2>1. FreeNode \in NodeIds \ DOMAIN node
      BY FreeNodeFacts DEF SampleAdd
    <2>2. node' = AddChild(t, FreeNode, Sample[Len(own[t])].name, own[t][Sample[Len(own[t])].below + 1])
      BY DEF SampleAdd
    <2> QED
      BY <2>1, <2>2, <1>1, <1>2, <1>3
  <1>5. /\ mount' = mount /\ raced' = raced
        /\ \/ Return(t)
           \/ /\ Goto(t, "ino_load") /\ UNCHANGED <<path, mt, cur, goal, ino>>
              /\ \E o : own' = [own EXCEPT ![t] = o]
    BY DEF SampleAdd, history
  <1>6. /\ DOMAIN node' = DOMAIN node \cup {d}
        /\ \A e \in DOMAIN node : node'[e].names = node[e].names
        /\ \A e \in DOMAIN node' :
             /\ node'[e].names \in Seq(STRING)
             /\ node'[e].names = IF node'[e].parent = NoNode THEN <<>>
                                 ELSE Append(node'[node'[e].parent].names, node'[e].name)
    BY <1>4, AddNames DEF WInv
  <1>7. \A e \in DOMAIN node' : node'[e].maker \in Threads
    <2>1. node'[d].maker = t /\ \A e \in DOMAIN node : node'[e].maker = node[e].maker
      BY <1>4, AddFields DEF IInv
    <2> QED
      BY <1>6, <2>1 DEF WInv, HandsInv
  <1>8. /\ Others(t) /\ InHand(t)' /\ OnItsWay(t)'
        /\ path' = [u \in Threads |-> path'[u]] /\ goal' \in [Threads -> Seq(STRING)]
    <2>1. CASE Return(t)
      BY <2>1, ReturnedWalks
    <2>2. CASE /\ Goto(t, "ino_load") /\ UNCHANGED <<path, mt, cur, goal, ino>>
               /\ \E o : own' = [own EXCEPT ![t] = o]
      <3>1. job[t] = "init"
        BY DEF SampleAdd
      <3>2. pc'[t] = "ino_load" /\ job'[t] = "init"
        BY <2>2, <3>1 DEF Goto, IInv, TypesInv
      <3>3. Others(t)
        BY <2>2 DEF Goto, Others, Frame, IInv, TypesInv
      <3>4. InHand(t)'
        BY <2>2, <3>1, <3>2, InHands DEF InHand
      <3>5. OnItsWay(t)'
        BY <3>2 DEF OnItsWay, Down
      <3> QED
        BY <2>2, <3>3, <3>4, <3>5 DEF WInv, PlacesInv, NamesInv
    <2> QED
      BY <1>5, <2>1, <2>2
  <1>9. HandsInv'
    BY <1>7, <1>8, LocalsKept DEF HandsInv
  <1>10. PlacesInv'
    BY <1>5, <1>8, LocalsKept DEF WInv, PlacesInv, Missing
  <1>11. NamesInv'
    BY <1>6, <1>8, LocalsKept DEF NamesInv, Missing
  <1>12. WalkersInv'
    BY <1>5, <1>6, <1>8, WalkersKept DEF WInv
  <1> QED
    BY <1>9, <1>10, <1>11, <1>12 DEF WInv

\* A new root dentry has no names above it.
LEMMA LinkWalks ==
  ASSUME IInv, WInv, NEW t \in Threads, Link(t)
  PROVE  WInv'
  <1> DEFINE label == IF job[t] = "init" THEN "ino_load" ELSE "backend"
  <1>1. PICK m \in MountIds \ DOMAIN mount, d \in NodeIds \ DOMAIN node :
          /\ mount' = [k \in DOMAIN mount \cup {m} |->
                         IF k = m THEN [mp |-> path[t], root |-> d] ELSE mount[k]]
          /\ node' = [e \in DOMAIN node \cup {d} |->
                        IF e = d THEN NewNode(t, d, "/", NoNode) ELSE node[e]]
          /\ mt' = [mt EXCEPT ![t] = m] /\ own' = [own EXCEPT ![t] = <<d>>]
          /\ pc' = [pc EXCEPT ![t] = label]
          /\ UNCHANGED <<job, path, cur, goal, ino, raced>>
    <2>1. FreeMount \in MountIds \ DOMAIN mount
      BY DEF Link, FreeMount, FreeMounts
    <2>2. FreeNode \in NodeIds \ DOMAIN node
      BY FreeNodeFacts DEF Link
    <2> QED
      BY <2>1, <2>2 DEF Link, Goto, history
  <1>2. pc[t] = "link" /\ job[t] \in {"init", "mount"} /\ path[t] \in Mountpoints \cup {Root}
    BY DEF Link, WInv, PlacesInv
  <1>3. label \in {"ino_load", "backend"}
    OBVIOUS
  <1> HIDE DEF label
  <1>4. /\ DOMAIN mount' = DOMAIN mount \cup {m} /\ mount'[m].mp = path[t]
        /\ \A k \in DOMAIN mount : mount'[k] = mount[k]
    BY <1>1
  <1>5. DOMAIN node' = DOMAIN node \cup {d} /\ \A e \in DOMAIN node : node'[e] = node[e]
    BY <1>1
  <1>6. node'[d].maker = t /\ node'[d].parent = NoNode /\ node'[d].names = <<>>
    BY <1>1 DEF NewNode
  <1>7. /\ pc'[t] = label /\ job'[t] = job[t] /\ mt'[t] = m /\ own'[t] = <<d>>
        /\ path' = path /\ goal' = goal /\ cur' = cur
    BY <1>1 DEF IInv, TypesInv
  <1>8. Others(t)
    BY <1>1 DEF Others, Frame, IInv, TypesInv
  <1>9. InHand(t)'
    <2>1. Len(own'[t]) <= 1
      BY <1>7
    <2> QED
      BY <1>2, <1>3, <1>7, <2>1, InHands DEF InHand
  <1>10. OnItsWay(t)'
    BY <1>2, <1>3, <1>7 DEF OnItsWay, Down
  <1>11. path' = [u \in Threads |-> path'[u]] /\ goal' \in [Threads -> Seq(STRING)]
    BY <1>7 DEF WInv, PlacesInv, NamesInv
  <1>12. HandsInv'
    <2>1. \A e \in DOMAIN node' : node'[e].maker \in Threads
      BY <1>5, <1>6 DEF WInv, HandsInv
    <2> QED
      BY <2>1, <1>8, <1>9, <1>11, LocalsKept DEF HandsInv
  <1>13. PlacesInv'
    <2>1. \A k \in DOMAIN mount' : mount'[k].mp \in Mountpoints \cup {Root}
      BY <1>2, <1>4 DEF WInv, PlacesInv
    <2> QED
      BY <2>1, <1>8, <1>9, <1>11, LocalsKept DEF PlacesInv, Missing
  <1>14. NamesInv'
    <2>1. ASSUME NEW e \in DOMAIN node'
          PROVE  /\ node'[e].names \in Seq(STRING)
                 /\ node'[e].names = IF node'[e].parent = NoNode THEN <<>>
                                     ELSE Append(node'[node'[e].parent].names, node'[e].name)
      <3>1. CASE e = d
        <4>1. <<>> \in Seq(STRING)
          OBVIOUS
        <4> QED
          BY <3>1, <4>1, <1>6
      <3>2. CASE e # d
        <4>1. e \in DOMAIN node /\ (node[e].parent # NoNode => node[e].parent \in DOMAIN node)
          BY <3>2, <1>5 DEF IInv, TreeSound, LinkedOnce
        <4> QED
          BY <4>1, <1>5 DEF WInv, NamesInv
      <3> QED
        BY <3>1, <3>2
    <2> QED
      BY <2>1, <1>8, <1>9, <1>11, LocalsKept DEF NamesInv, Missing
  <1>15. WalkersInv'
    BY <1>1, <1>4, <1>5, <1>8, <1>10, WalkersKept DEF WInv
  <1> QED
    BY <1>12, <1>13, <1>14, <1>15 DEF WInv

----------------------------------------------------------------------------
\* Steps that free trees.

\* What is left keeps its names: a dentry stays with its parent.
LEMMA CutNames ==
  ASSUME IInv', WInv,
         \A d \in DOMAIN node' : d \in DOMAIN node /\ node'[d] = node[d]
  PROVE  \A d \in DOMAIN node' :
           /\ node'[d].names \in Seq(STRING)
           /\ node'[d].names = IF node'[d].parent = NoNode THEN <<>>
                               ELSE Append(node'[node'[d].parent].names, node'[d].name)
  <1> TAKE d \in DOMAIN node'
  <1>1. node'[d].parent # NoNode => node'[d].parent \in DOMAIN node'
    BY DEF IInv, TreeSound, LinkedOnce
  <1>2. /\ node[d].names \in Seq(STRING)
        /\ node[d].names = IF node[d].parent = NoNode THEN <<>>
                           ELSE Append(node[node[d].parent].names, node[d].name)
    BY DEF WInv, NamesInv
  <1> QED
    BY <1>1, <1>2

\* Unless it is alone, the thread that frees a mount is remembered in raced.
LEMMA DestroyWalks ==
  ASSUME IInv, IInv', WInv, NEW t \in Threads, Destroy(t)
  PROVE  WInv'
  <1>1. /\ Others(t) /\ InHand(t)' /\ OnItsWay(t)'
        /\ path' = [u \in Threads |-> path'[u]] /\ goal' \in [Threads -> Seq(STRING)]
    BY ReturnedWalks DEF Destroy
  <1>2. /\ \A m \in DOMAIN mount' : m \in DOMAIN mount /\ mount'[m] = mount[m]
        /\ \A d \in DOMAIN node' : d \in DOMAIN node /\ node'[d] = node[d]
    BY DEF Destroy, Restrict
  <1>3. HandsInv'
    BY <1>1, <1>2, LocalsKept DEF WInv, HandsInv
  <1>4. PlacesInv'
    BY <1>1, <1>2, LocalsKept DEF WInv, PlacesInv, Missing
  <1>5. NamesInv'
    BY <1>1, <1>2, LocalsKept, CutNames DEF NamesInv, Missing
  <1>6. WalkersInv'
    <2> SUFFICES ASSUME ~raced', NEW u \in Threads \ {t} PROVE OnItsWay(u)'
      BY <1>1 DEF WalkersInv
    <2>1. pc[u] = "idle"
      BY DEF Destroy, Alone
    <2>2. pc'[u] = "idle" /\ job'[u] = "none"
      BY <2>1, <1>1 DEF Others, Frame, IInv, CallsInv
    <2> QED
      BY <2>2 DEF OnItsWay, Down
  <1> QED
    BY <1>3, <1>4, <1>5, <1>6 DEF WInv

LEMMA ShutdownWalks ==
  ASSUME IInv, IInv', WInv, NEW t \in Threads, Shutdown(t)
  PROVE  WInv'
  <1>1. /\ \A m \in DOMAIN mount' : m \in DOMAIN mount /\ mount'[m] = mount[m]
        /\ \A d \in DOMAIN node' : d \in DOMAIN node /\ node'[d] = node[d]
    BY DEF Shutdown, Restrict
  <1>2. UNCHANGED <<pc, job, path, mt, cur, goal, own>>
    BY DEF Shutdown, locals
  <1>3. HandsInv'
    BY <1>1, <1>2 DEF WInv, HandsInv
  <1>4. PlacesInv'
    BY <1>1, <1>2 DEF WInv, PlacesInv
  <1>5. NamesInv'
    BY <1>1, <1>2, CutNames DEF WInv, NamesInv
  <1>6. WalkersInv'
    <2>1. \A u \in Threads : pc'[u] = "idle" /\ job'[u] = "none"
      BY DEF Shutdown, Alone, locals, IInv, CallsInv
    <2> QED
      BY <2>1 DEF WalkersInv, OnItsWay, Down
  <1> QED
    BY <1>3, <1>4, <1>5, <1>6 DEF WInv

----------------------------------------------------------------------------

LEMMA WalksInit ==
  Init => WInv
  <1> SUFFICES ASSUME Init PROVE WInv
    OBVIOUS
  <1>1. <<>> \in Seq(STRING) /\ Len(<<>>) <= 1 /\ DOMAIN node = {} /\ DOMAIN mount = {}
    BY DEF Init
  <1>2. HandsInv /\ PlacesInv /\ WalkersInv
    BY <1>1 DEF Init, HandsInv, PlacesInv, WalkersInv, OnItsWay, Down
  <1>3. NamesInv
    BY <1>1 DEF Init, NamesInv
  <1> QED
    BY <1>2, <1>3 DEF WInv

LEMMA WalksStutter ==
  ASSUME WInv, UNCHANGED vars
  PROVE  WInv'
  <1> USE DEF vars, shared, locals, history
  <1>1. HandsInv' /\ PlacesInv' /\ NamesInv'
    BY DEF WInv, HandsInv, PlacesInv, NamesInv
  <1>2. WalkersInv'
    BY DEF WInv, WalkersInv, OnItsWay, Down
  <1> QED
    BY <1>1, <1>2 DEF WInv

\* What the walks have in hand is allocated and on their way, as long as no mount is freed
\* under them, and every name on a tree is the name that led there.
THEOREM WalksInvariance ==
  Spec => []WInv
  <1>1. IInv /\ IInv' /\ WInv /\ [Next]_vars => WInv'
    <2> SUFFICES ASSUME IInv, IInv', WInv, [Next]_vars PROVE WInv'
      OBVIOUS
    <2>1. CASE UNCHANGED vars
      BY <2>1, WalksStutter
    <2>2. ASSUME NEW t \in Threads, NEW p \in Paths, Walk(t, p) PROVE WInv'
      BY <2>2, WalkWalks
    <2>3. ASSUME NEW t \in Threads, WalkFind(t) \/ WalkRoot(t) \/ WalkLookup(t) \/ WalkAdd(t) PROVE WInv'
      BY <2>3, WalkFindWalks, WalkRootWalks, WalkLookupWalks, WalkAddWalks
    <2>4. ASSUME NEW t \in Threads, InoLoad(t) \/ InoStore(t) PROVE WInv'
      BY <2>4, InoWalks
    <2>5. ASSUME NEW t \in Threads, VfsInit(t) \/ \E mp \in Mountpoints : Mount(t, mp) PROVE WInv'
      BY <2>5, StartWalks
    <2>6. ASSUME NEW t \in Threads, SampleAdd(t) \/ Link(t) \/ Attach(t) PROVE WInv'
      BY <2>6, SampleAddWalks, LinkWalks, AttachWalks
    <2>7. ASSUME NEW t \in Threads, NEW mp \in Mountpoints, Unmount(t, mp) PROVE WInv'
      BY <2>7, UnmountWalks
    <2>8. ASSUME NEW t \in Threads, Unlink(t) \/ Destroy(t) \/ Shutdown(t) PROVE WInv'
      BY <2>8, UnlinkWalks, DestroyWalks, ShutdownWalks
    <2> QED
      BY <2>1, <2>2, <2>3, <2>4, <2>5, <2>6, <2>7, <2>8 DEF Next
  <1> QED
    BY <1>1, WalksInit, Invariance, PTL DEF Spec

\* No walk, init or mount ever uses freed memory, unless a mount whose backend failed was
\* freed under it.
THEOREM NoUseAfterFreeAlways ==
  Spec => []NoUseAfterFree
  <1>1. WInv => NoUseAfterFree
    BY DEF WInv, WalkersInv, OnItsWay, NoUseAfterFree
  <1> QED
    BY <1>1, WalksInvariance, PTL

\* A walk ends at the path it was called with, whatever is added beside it.
THEOREM WalkEndsRightAlways ==
  Spec => []WalkEndsRight
  <1>1. WInv => WalkEndsRight
    BY DEF WInv, WalkersInv, OnItsWay, Down, WalkEndsRight
  <1> QED
    BY <1>1, WalksInvariance, PTL

LEMMA FlagTyped ==
  Spec => [](inited \in BOOLEAN)
  <1> DEFINE Flag == inited \in BOOLEAN
  <1>1. Init => Flag
    BY DEF Init
  <1>2. Flag /\ [Next]_vars => Flag'
    <2> SUFFICES ASSUME Flag, [Next]_vars PROVE Flag'
      OBVIOUS
    <2>1. CASE UNCHANGED inited
      BY <2>1
    <2>2. CASE \E t \in Threads : VfsInit(t) \/ Shutdown(t)
      BY <2>2 DEF VfsInit, Shutdown
    <2>3. ASSUME NEW t \in Threads,
                 \/ \E p \in Paths : Walk(t, p)
                 \/ WalkFind(t) \/ WalkRoot(t) \/ WalkLookup(t) \/ WalkAdd(t)
                 \/ InoLoad(t) \/ InoStore(t) \/ SampleAdd(t)
          PROVE  UNCHANGED inited
      BY <2>3 DEF Walk, WalkFind, WalkRoot, WalkLookup, WalkAdd, InoLoad, InoStore, SampleAdd,
           Undefined, shared
    <2>4. ASSUME NEW t \in Threads,
                 \/ \E mp \in Mountpoints : Mount(t, mp)
                 \/ Link(t) \/ Attach(t)
                 \/ \E mp \in Mountpoints : Unmount(t, mp)
                 \/ Unlink(t) \/ Destroy(t)
          PROVE  UNCHANGED inited
      BY <2>4 DEF Mount, Link, Attach, Unmount, Unlink, Destroy, Undefined, shared
    <2> QED
      BY <2>1, <2>2, <2>3, <2>4 DEF Next, vars, shared
  <1> QED
    BY <1>1, <1>2, PTL DEF Spec

\* Mounts, dentries and what threads have in hand are of their types.
THEOREM TypeCorrect ==
  Spec => []TypeOK
  <1>1. ASSUME IInv, WInv, inited \in BOOLEAN PROVE TypeOK
    <2>1. /\ nextIno \in Nat /\ DOMAIN mount \subseteq MountIds /\ DOMAIN node \subseteq NodeIds
          /\ \A i \in DOMAIN list : list[i] \in DOMAIN mount
      BY <1>1 DEF IInv, TypesInv, ListInv
    <2>2. \A m \in DOMAIN mount : mount[m].root \in NodeIds /\ mount[m].mp \in Mountpoints \cup {Root}
      BY <1>1, <2>1 DEF IInv, RootsInv, WInv, PlacesInv
    <2>3. \A d \in DOMAIN node : /\ node[d].parent \in NodeIds \cup {NoNode}
                                 /\ node[d].maker \in Threads
                                 /\ node[d].ino \in Nat
                                 /\ node[d].kids \in Seq(NodeIds)
      BY <1>1, <2>1 DEF IInv, TypesInv, TreeSound, LinkedOnce, WInv, HandsInv
    <2>4. ASSUME NEW t \in Threads
          PROVE  /\ pc[t] \in Labels /\ job[t] \in Calls
                 /\ mt[t] \in MountIds \cup {NoMount} /\ cur[t] \in NodeIds \cup {NoNode}
                 /\ ino[t] \in Nat
      BY <1>1 DEF IInv, TypesInv, WInv, HandsInv
    <2>5. ASSUME NEW t \in Threads
          PROVE  Len(own[t]) <= Len(Sample)
      <3>1. Len(Sample) \in Nat /\ Len(Sample) > 0
        BY SampleEntries, SampleAssumption
      <3>2. CASE job[t] = "init" /\ own[t] # <<>>
        BY <1>1, <3>2 DEF IInv, BuildInv, Built
      <3>3. CASE own[t] = <<>>
        BY <3>1, <3>3
      <3>4. CASE job[t] # "init"
        <4>1. Len(own[t]) <= 1 /\ Len(own[t]) \in Nat
          BY <1>1, <3>4 DEF WInv, HandsInv, IInv, TypesInv
        <4> QED
          BY <3>1, <4>1
      <3> QED
        BY <3>2, <3>3, <3>4
    <2> QED
      BY <1>1, <2>1, <2>2, <2>3, <2>4, <2>5 DEF TypeOK
  <1> QED
    BY <1>1, Invariance, WalksInvariance, FlagTyped, PTL
----------------------------------------------------------------------------
\* The sample tree is built once.

\* The names of an entry are those of the entry it is below and its own.
LEMMA SampleNamesDefined ==
  /\ SampleNames[0] = <<>>
  /\ \A k \in 1..Len(Sample) : SampleNames[k] = Append(SampleNames[Sample[k].below], Sample[k].name)
  <1> DEFINE n == Len(Sample)
             A == Seq(STRING)
             Is(f, l) == f = [k \in 0..l |-> IF k = 0 THEN <<>>
                                             ELSE Append(f[Sample[k].below], Sample[k].name)]
             T == {l \in 0..n : \E f \in [0..l -> A] : Is(f, l)}
  <1>1. n \in Nat /\ n \in 0..n /\ <<>> \in A
    BY SampleEntries
  <1>2. \A k \in 1..n : Sample[k].below \in 0..(k - 1) /\ Sample[k].name \in STRING
    <2>1. \A r \in [name : STRING, below : Nat] : r.name \in STRING
      OBVIOUS
    <2>2. \A k \in 1..n : Sample[k] \in [name : STRING, below : Nat]
      BY SampleAssumption, ElementOfSeq
    <2> QED
      BY <2>1, <2>2, SampleEntries
  <1> HIDE DEF A, n
  <1>3. 0 \in T
    <2>1. PICK f : f = [k \in 0..0 |-> <<>>]
      OBVIOUS
    <2>2. f \in [0..0 -> A] /\ Is(f, 0)
      BY <2>1, <1>1
    <2>3. 0 \in 0..n
      BY <1>1
    <2> HIDE DEF Is
    <2> QED
      BY <2>2, <2>3
  <1>4. ASSUME NEW l \in 1..n, l - 1 \in T PROVE l \in T
    <2>1. PICK f \in [0..(l - 1) -> A] : Is(f, l - 1)
      BY <1>4
    <2> DEFINE g == [k \in 0..l |-> IF k < l THEN f[k] ELSE Append(f[Sample[l].below], Sample[l].name)]
    <2>2. l \in Nat \ {0} /\ Sample[l].below \in 0..(l - 1)
      BY <1>1, <1>2
    <2>3. Append(f[Sample[l].below], Sample[l].name) \in A
      BY <1>2, <2>2, AppendProperties DEF A
    <2>4. g \in [0..l -> A]
      BY <2>2, <2>3
    <2>5. \A k \in 0..l : g[k] = IF k = 0 THEN <<>> ELSE Append(g[Sample[k].below], Sample[k].name)
      <3> TAKE k \in 0..l
      <3>1. CASE k < l
        <4>1. k \in 0..(l - 1) /\ g[k] = f[k]
          BY <3>1, <2>2
        <4>2. f[k] = IF k = 0 THEN <<>> ELSE Append(f[Sample[k].below], Sample[k].name)
          BY <4>1, <2>1
        <4>3. k # 0 => Sample[k].below \in 0..(k - 1)
          BY <4>1, <1>1, <1>2
        <4>4. k # 0 => g[Sample[k].below] = f[Sample[k].below]
          BY <4>1, <4>3, <2>2
        <4> QED
          BY <4>1, <4>2, <4>4
      <3>2. CASE k = l
        <4>1. g[l] = Append(f[Sample[l].below], Sample[l].name) /\ l # 0
          BY <2>2
        <4>2. g[Sample[l].below] = f[Sample[l].below]
          BY <2>2
        <4> QED
          BY <3>2, <4>1, <4>2
      <3> QED
        BY <3>1, <3>2, <2>2
    <2>6. Is(g, l)
      BY <2>5
    <2>7. l \in 0..n
      BY <1>1
    <2> HIDE DEF g, Is
    <2> QED
      BY <2>4, <2>6, <2>7
  <1> HIDE DEF T
  <1>5. \A l \in 0..n : l \in T
    BY <1>1, <1>3, <1>4, UpTo_n
  <1>6. \E f : Is(f, n)
    BY <1>1, <1>5 DEF T
  <1> DEFINE names == CHOOSE f : Is(f, n)
  <1>7. Is(names, n)
    BY <1>6
  <1>8. SampleNames = names
    BY DEF SampleNames, n
  <1> HIDE DEF names
  <1>9. \A k \in 0..n : names[k] = IF k = 0 THEN <<>> ELSE Append(names[Sample[k].below], Sample[k].name)
    BY <1>7
  <1>10. 0 \in 0..n /\ \A k \in 1..n : k \in 0..n /\ k # 0
    BY <1>1
  <1> QED
    BY <1>8, <1>9, <1>10 DEF n

\* The root mounts stay as they are, with the dentries on them.
RootsStay ==
  /\ RootMounts' = RootMounts
  /\ \A m \in RootMounts :
       /\ mount'[m] = mount[m]
       /\ (\E i \in DOMAIN list : list[i] = m) => \E i \in DOMAIN list' : list'[i] = m
       /\ \A d \in TreeOf(mount[m].root) :
            /\ d \in DOMAIN node' /\ node'[d].root = node[d].root
            /\ node'[d].names = node[d].names /\ node'[d].maker = node[d].maker

\* What the callers do elsewhere than on root mounts.
CallsStay ==
  \A u \in Threads :
    /\ job'[u] = "init" <=> job[u] = "init"
    /\ job'[u] = "init" => path'[u] = path[u] /\ own'[u] = own[u] /\ mt'[u] = mt[u]
    /\ job'[u] = "mount" => path'[u] # Root
    /\ pc'[u] \in AtMount => job'[u] # "init" /\ mount'[mt'[u]].mp # Root
    /\ pc'[u] = "link" => own'[u] = <<>>

\* An init's mount is its own, and what it has built is on it.
LEMMA InitOnIts ==
  ASSUME IInv, NEW t \in Threads, job[t] = "init", own[t] # <<>>
  PROVE  /\ mt[t] \in DOMAIN mount
         /\ \A k \in DOMAIN own[t] : own[t][k] \in TreeOf(mount[mt[t]].root)
  <1>1. mt[t] \in DOMAIN mount
    BY DEF IInv, OwnersInv, Owner
  <1>2. Built(t)
    BY DEF IInv, BuildInv
  <1> QED
    BY <1>1, <1>2 DEF Built, TreeOf

LEMMA OnceStays ==
  ASSUME SampleBuiltOnce, inited' => inited, RootsStay,
         \A u \in Threads : job[u] = "init" => job'[u] = "init"
  PROVE  SampleBuiltOnce'
  <1> SUFFICES ASSUME inited', \A u \in Threads : job'[u] # "init"
               PROVE  \E m \in DOMAIN mount' :
                        /\ {k \in DOMAIN mount' : mount'[k].mp = Root} = {m}
                        /\ \E t \in Threads : \A i \in DOMAIN Sample :
                             \E d \in TreeOf(mount[m].root)' :
                               node'[d].names = SampleNames[i] /\ node'[d].maker = t
    BY DEF SampleBuiltOnce
  <1>1. PICK m \in DOMAIN mount, t \in Threads :
          /\ {k \in DOMAIN mount : mount[k].mp = Root} = {m}
          /\ \A i \in DOMAIN Sample : \E d \in TreeOf(mount[m].root) :
               node[d].names = SampleNames[i] /\ node[d].maker = t
    BY DEF SampleBuiltOnce
  <1>2. RootMounts = {m} /\ RootMounts' = {m}
    BY <1>1 DEF RootMounts, RootsStay
  <1>3. /\ m \in DOMAIN mount' /\ mount'[m] = mount[m]
        /\ {k \in DOMAIN mount' : mount'[k].mp = Root} = {m}
    BY <1>2 DEF RootMounts, RootsStay
  <1>4. ASSUME NEW i \in DOMAIN Sample
        PROVE  \E d \in TreeOf(mount[m].root)' : node'[d].names = SampleNames[i] /\ node'[d].maker = t
    <2>1. PICK d \in TreeOf(mount[m].root) : node[d].names = SampleNames[i] /\ node[d].maker = t
      BY <1>1
    <2>2. /\ d \in DOMAIN node' /\ node'[d].root = node[d].root
          /\ node'[d].names = node[d].names /\ node'[d].maker = node[d].maker
      BY <1>2, <2>1 DEF RootsStay
    <2> QED
      BY <1>3, <2>1, <2>2 DEF TreeOf
  <1> QED
    BY <1>3, <1>4

LEMMA RootListStays ==
  ASSUME RootListInv, inited => inited', RootsStay
  PROVE  RootListInv'
  BY DEF RootListInv, RootsStay

LEMMA InitStays ==
  ASSUME IInv, InitInv, RootsStay, CallsStay
  PROVE  InitInv'
  <1> SUFFICES ASSUME NEW t \in Threads, job'[t] = "init"
               PROVE  /\ RootMounts' = IF own'[t] = <<>> THEN {} ELSE {mt'[t]}
                      /\ \A k \in DOMAIN own'[t] :
                           node'[own'[t][k]].names = SampleNames[k - 1] /\ node'[own'[t][k]].maker = t
    BY DEF InitInv
  <1>1. job[t] = "init" /\ own'[t] = own[t] /\ mt'[t] = mt[t]
    BY DEF CallsStay
  <1>2. RootMounts = IF own[t] = <<>> THEN {} ELSE {mt[t]}
    BY <1>1 DEF InitInv
  <1>3. ASSUME NEW k \in DOMAIN own[t]
        PROVE  node'[own[t][k]].names = SampleNames[k - 1] /\ node'[own[t][k]].maker = t
    <2>1. own[t] # <<>>
      OBVIOUS
    <2>2. own[t][k] \in TreeOf(mount[mt[t]].root) /\ mt[t] \in RootMounts
      BY <1>1, <1>2, <2>1, InitOnIts
    <2>3. node[own[t][k]].names = SampleNames[k - 1] /\ node[own[t][k]].maker = t
      BY <1>1 DEF InitInv
    <2> QED
      BY <2>2, <2>3 DEF RootsStay
  <1> QED
    BY <1>1, <1>2, <1>3 DEF RootsStay

\* A step beside the root mounts and the init.
LEMMA StepBeside ==
  ASSUME IInv, SampleInv, inited' = inited, RootsStay, CallsStay
  PROVE  SampleInv'
  <1>1. CallersInv'
    BY DEF SampleInv, CallersInv, CallsStay
  <1>2. SampleBuiltOnce'
    BY OnceStays DEF SampleInv, CallsStay
  <1> QED
    BY <1>1, <1>2, RootListStays, InitStays DEF SampleInv

\* Nothing has changed that is shared.
LEMMA SharedStays ==
  ASSUME list' = list, mount' = mount, node' = node
  PROVE  RootsStay
  BY DEF RootsStay, RootMounts, TreeOf
----------------------------------------------------------------------------
\* The steps beside the root mounts and the init.

LEMMA OthersStay ==
  ASSUME CallersInv, NEW t \in Threads, Others(t),
         \A u \in Threads \ {t} : pc[u] \in AtMount => mount'[mt[u]].mp = mount[mt[u]].mp,
         job'[t] = "init" <=> job[t] = "init",
         job'[t] = "init" => path'[t] = path[t] /\ own'[t] = own[t] /\ mt'[t] = mt[t],
         job'[t] = "mount" => path'[t] # Root,
         pc'[t] \in AtMount => job'[t] # "init" /\ mount'[mt'[t]].mp # Root,
         pc'[t] = "link" => own'[t] = <<>>
  PROVE  CallsStay
  <1> SUFFICES ASSUME NEW u \in Threads
               PROVE  /\ job'[u] = "init" <=> job[u] = "init"
                      /\ job'[u] = "init" => path'[u] = path[u] /\ own'[u] = own[u] /\ mt'[u] = mt[u]
                      /\ job'[u] = "mount" => path'[u] # Root
                      /\ pc'[u] \in AtMount => job'[u] # "init" /\ mount'[mt'[u]].mp # Root
                      /\ pc'[u] = "link" => own'[u] = <<>>
    BY DEF CallsStay
  <1>1. CASE u = t
    BY <1>1
  <1>2. CASE u # t
    BY <1>2 DEF CallersInv, Others, Frame
  <1> QED
    BY <1>1, <1>2

LEMMA ReturnStays ==
  ASSUME IInv, WInv, CallersInv, NEW t \in Threads, Return(t), job[t] # "init",
         \A u \in Threads \ {t} : pc[u] \in AtMount => mount'[mt[u]].mp = mount[mt[u]].mp
  PROVE  CallsStay
  <1>1. Others(t)
    BY ReturnedWalks
  <1>2. pc'[t] = "idle" /\ job'[t] = "none"
    BY DEF Return, IInv, TypesInv
  <1> QED
    BY <1>1, <1>2, OthersStay DEF AtMount

LEMMA UndefinedStays ==
  ASSUME IInv, SampleInv, Undefined
  PROVE  SampleInv'
  <1>1. UNCHANGED <<inited, list, mount, node, job, path, mt, own>> /\ \A u \in Threads : pc'[u] = "undefined"
    BY DEF Undefined, shared, locals
  <1>2. CallsStay
    BY <1>1 DEF CallsStay, AtMount, SampleInv, CallersInv
  <1> QED
    BY <1>1, <1>2, SharedStays, StepBeside

\* A walk reads the shared state until it adds a name.
LEMMA WalkBeside ==
  ASSUME IInv, WInv, SampleInv, NEW t \in Threads,
         (\E p \in Paths : Walk(t, p)) \/ WalkFind(t) \/ WalkRoot(t) \/ WalkLookup(t)
  PROVE  SampleInv'
  <1>1. CASE Undefined
    BY <1>1, UndefinedStays
  <1>2. CASE Return(t) /\ UNCHANGED shared /\ job[t] = "walk"
    <2>1. CallsStay
      BY <1>2, ReturnStays DEF SampleInv, shared
    <2> QED
      BY <1>2, <2>1, SharedStays, StepBeside DEF shared
  <1>3. CASE /\ UNCHANGED <<shared, path, own>> /\ job' = job /\ job[t] = "walk"
             /\ \/ pc' = pc /\ pc[t] = "lookup"
                \/ pc' = [pc EXCEPT ![t] = "root"]
                \/ pc' = [pc EXCEPT ![t] = "lookup"]
                \/ pc' = [pc EXCEPT ![t] = "ino_load"]
             /\ \A u \in Threads \ {t} : mt'[u] = mt[u]
    <2> USE <1>3 DEF shared
    <2>1. pc'[t] \in {"root", "lookup", "ino_load"} /\ \A u \in Threads \ {t} : pc'[u] = pc[u]
      BY DEF IInv, TypesInv
    <2>2. CallsStay
      BY <2>1 DEF CallsStay, AtMount, SampleInv, CallersInv
    <2> QED
      BY <2>2, SharedStays, StepBeside
  <1>4. CASE \E p \in Paths : Walk(t, p)
    <2>1. /\ UNCHANGED <<shared, mt, own>> /\ pc[t] = "idle" /\ pc' = [pc EXCEPT ![t] = "find"]
          /\ job' = [job EXCEPT ![t] = "walk"] /\ \A u \in Threads \ {t} : path'[u] = path[u]
      BY <1>4 DEF Walk, Start, WInv, PlacesInv
    <2>2. /\ pc'[t] = "find" /\ job'[t] = "walk" /\ job[t] = "none"
          /\ \A u \in Threads \ {t} : pc'[u] = pc[u] /\ job'[u] = job[u]
      BY <2>1 DEF IInv, TypesInv, CallsInv
    <2>3. CallsStay
      BY <2>1, <2>2 DEF CallsStay, AtMount, SampleInv, CallersInv, shared
    <2> QED
      BY <2>1, <2>3, SharedStays, StepBeside DEF shared
  <1>5. CASE WalkFind(t)
    <2>1. job[t] = "walk"
      BY <1>5 DEF WalkFind, IInv, CallsInv
    <2> DEFINE best == FindBestMount(path[t], MpsOf)
    <2>2. CASE /\ mt' = [mt EXCEPT ![t] = list[best]] /\ Goto(t, "root")
               /\ UNCHANGED <<path, cur, goal, ino, own>> /\ UNCHANGED <<shared, history>>
      <3>1. \A u \in Threads \ {t} : mt'[u] = mt[u]
        BY <2>2 DEF IInv, TypesInv
      <3> QED
        BY <1>3, <2>1, <2>2, <3>1 DEF Goto
    <2> QED
      BY <1>1, <1>2, <1>5, <2>1, <2>2 DEF WalkFind
  <1>6. CASE WalkRoot(t)
    <2>1. job[t] = "walk"
      BY <1>6 DEF WalkRoot, IInv, CallsInv
    <2>2. CASE ~Undefined
      <3>1. UNCHANGED <<shared, path, own, mt, job>> /\ pc' = [pc EXCEPT ![t] = "lookup"]
        BY <1>6, <2>2 DEF WalkRoot, Goto
      <3> QED
        BY <1>3, <2>1, <3>1
    <2> QED
      BY <1>1, <2>2
  <1>7. CASE WalkLookup(t)
    <2>1. job[t] = "walk" /\ pc[t] = "lookup"
      BY <1>7 DEF WalkLookup, IInv, CallsInv
    <2> QED
      BY <1>1, <1>2, <1>3, <1>7, <2>1 DEF WalkLookup, Goto
  <1> QED
    BY <1>4, <1>5, <1>6, <1>7

\* A dentry more on any tree.
LEMMA AddBeside ==
  ASSUME IInv, WInv, NEW t \in Threads, NEW d \in NodeIds \ DOMAIN node, NEW p \in DOMAIN node,
         NEW name \in STRING, node' = AddChild(t, d, name, p), mount' = mount, list' = list
  PROVE  RootsStay
  <1>1. \A e \in DOMAIN node :
          /\ e \in DOMAIN node' /\ node'[e].root = node[e].root
          /\ node'[e].names = node[e].names /\ node'[e].maker = node[e].maker
    <2>1. TypesInv /\ NamesInv
      BY DEF IInv, WInv
    <2>2. /\ DOMAIN node' = DOMAIN node \cup {d}
          /\ \A e \in DOMAIN node : node'[e].root = node[e].root /\ node'[e].maker = node[e].maker
      BY <2>1, AddFields
    <2>3. \A e \in DOMAIN node : node'[e].names = node[e].names
      BY <2>1, AddNames
    <2> QED
      BY <2>2, <2>3
  <1> QED
    BY <1>1 DEF RootsStay, RootMounts, TreeOf

LEMMA WalkAddBeside ==
  ASSUME IInv, WInv, SampleInv, NEW t \in Threads, WalkAdd(t)
  PROVE  SampleInv'
  <1>1. CASE Undefined
    BY <1>1, UndefinedStays
  <1>2. CASE ~Undefined
    <2>1. /\ pc[t] = "add" /\ job[t] = "walk" /\ cur[t] \in DOMAIN node /\ FreeNodes # {}
          /\ node' = AddChild(t, FreeNode, Head(goal[t]), cur[t])
          /\ pc' = [pc EXCEPT ![t] = "lookup"]
          /\ UNCHANGED <<inited, list, mount, job, path, mt, own>>
      BY <1>2 DEF WalkAdd, Goto
    <2>2. Head(goal[t]) \in STRING
      <3>1. goal[t] \in Seq(STRING) /\ goal[t] # <<>>
        BY <2>1 DEF WInv, NamesInv
      <3> QED
        BY <3>1, OneFurther
    <2>3. FreeNode \in NodeIds \ DOMAIN node
      BY <2>1, FreeNodeFacts
    <2>4. RootsStay
      BY <2>1, <2>2, <2>3, AddBeside
    <2>5. CallsStay
      <3>1. pc'[t] = "lookup" /\ \A u \in Threads \ {t} : pc'[u] = pc[u]
        BY <2>1 DEF IInv, TypesInv
      <3> QED
        BY <2>1, <3>1 DEF CallsStay, AtMount, SampleInv, CallersInv
    <2> QED
      BY <2>1, <2>4, <2>5, StepBeside
  <1> QED
    BY <1>1, <1>2

LEMMA InoBeside ==
  ASSUME IInv, SampleInv, NEW t \in Threads, InoLoad(t) \/ InoStore(t)
  PROVE  SampleInv'
  <1>1. /\ UNCHANGED <<inited, list, mount, node, job, path, mt, own>>
        /\ \E l \in {"ino_store", "add", "link"} :
             pc' = [pc EXCEPT ![t] = l] /\ (l = "link" => own[t] = <<>>)
    BY DEF InoLoad, InoStore, Goto, shared, locals
  <1>2. PICK l \in {"ino_store", "add", "link"} : pc' = [pc EXCEPT ![t] = l] /\ (l = "link" => own[t] = <<>>)
    BY <1>1
  <1>3. pc'[t] = l /\ \A u \in Threads \ {t} : pc'[u] = pc[u]
    BY <1>2 DEF IInv, TypesInv
  <1>4. CallsStay
    BY <1>1, <1>2, <1>3 DEF CallsStay, AtMount, SampleInv, CallersInv
  <1> QED
    BY <1>1, <1>4, SharedStays, StepBeside

LEMMA MountBeside ==
  ASSUME IInv, WInv, SampleInv, NEW t \in Threads, NEW mp, mp # Root, Mount(t, mp)
  PROVE  SampleInv'
  <1>1. /\ UNCHANGED <<inited, list, mount, node, mt, own>>
        /\ pc[t] = "idle" /\ pc' = [pc EXCEPT ![t] = "ino_load"]
        /\ job' = [job EXCEPT ![t] = "mount"] /\ path' = [path EXCEPT ![t] = mp]
    BY DEF Mount, Start, shared
  <1>2. /\ pc'[t] = "ino_load" /\ job'[t] = "mount" /\ job[t] = "none" /\ path'[t] = mp
        /\ \A u \in Threads \ {t} : pc'[u] = pc[u] /\ job'[u] = job[u] /\ path'[u] = path[u]
    BY <1>1 DEF IInv, TypesInv, CallsInv, WInv, PlacesInv
  <1>3. CallsStay
    BY <1>1, <1>2 DEF CallsStay, AtMount, SampleInv, CallersInv
  <1> QED
    BY <1>1, <1>3, SharedStays, StepBeside

LEMMA AttachBeside ==
  ASSUME IInv, WInv, SampleInv, NEW t \in Threads, Attach(t)
  PROVE  SampleInv'
  <1>1. pc[t] = "backend" /\ job[t] # "init" /\ mount[mt[t]].mp # Root /\ UNCHANGED <<inited, list, mount, node>>
    BY DEF Attach, SampleInv, CallersInv, AtMount, shared
  <1>2. CASE Return(t)
    <2>1. CallsStay
      BY <1>1, <1>2, ReturnStays DEF SampleInv
    <2> QED
      BY <1>1, <2>1, SharedStays, StepBeside
  <1>3. CASE Goto(t, "unlink") /\ UNCHANGED locals
    <2>1. UNCHANGED <<job, path, mt, own>> /\ pc'[t] = "unlink" /\ \A u \in Threads \ {t} : pc'[u] = pc[u]
      BY <1>3 DEF Goto, locals, IInv, TypesInv
    <2>2. CallsStay
      BY <1>1, <2>1 DEF CallsStay, AtMount, SampleInv, CallersInv
    <2> QED
      BY <1>1, <2>2, SharedStays, StepBeside
  <1> QED
    BY <1>2, <1>3 DEF Attach
----------------------------------------------------------------------------
\* The steps that mount and unmount, elsewhere than at the root.

LEMMA UnmountBeside ==
  ASSUME IInv, IInv', WInv, SampleInv, NEW t \in Threads, NEW mp, mp # Root, Unmount(t, mp)
  PROVE  SampleInv'
  <1> DEFINE I == {i \in 1..Len(MpsOf) : MpsOf[i] = mp}
  <1>1. ~ListFreed
    BY DEF ListFreed, IInv, ListInv
  <1>2. /\ I # {} /\ Start(t, "unmount", "unlink") /\ mt' = [mt EXCEPT ![t] = list[Min(I)]]
        /\ UNCHANGED <<shared, path, cur, goal, ino, own, lapped, raced>>
    BY <1>1 DEF Unmount, SelectInSeq
  <1>3. Min(I) \in I
    <2>1. I \in SUBSET Nat
      OBVIOUS
    <2>2. \E k \in I : \A y \in I : k <= y
      <3> HIDE DEF I
      <3> QED
        BY <2>1, <1>2, LeastNatural
    <2> QED
      BY <2>2 DEF Min
  <1>4. PICK i \in 1..Len(MpsOf) : i = Min(I) /\ MpsOf[i] = mp
    BY <1>3
  <1>5. i \in DOMAIN list /\ MpsOf[i] = mount[list[i]].mp
    <2>1. DOMAIN list = 1..Len(list) /\ Len(list) \in Nat
      BY DEF IInv, TypesInv
    <2>2. MpsOf = [j \in 1..Len(list) |-> mount[list[j]].mp]
      BY <2>1 DEF MpsOf
    <2>3. Len(MpsOf) = Len(list)
      BY <2>1, <2>2, LenProperties
    <2> QED
      BY <2>1, <2>2, <2>3
  <1> HIDE DEF I
  <1>6. /\ pc'[t] = "unlink" /\ job'[t] = "unmount" /\ job[t] = "none" /\ mt'[t] = list[i]
        /\ \A u \in Threads \ {t} : pc'[u] = pc[u] /\ job'[u] = job[u] /\ mt'[u] = mt[u]
    BY <1>2, <1>4 DEF Start, IInv, TypesInv, CallsInv
  <1>7. UNCHANGED <<inited, list, mount, node, path, own>>
    BY <1>2 DEF shared
  <1>8. CallsStay
    BY <1>4, <1>5, <1>6, <1>7 DEF CallsStay, AtMount, SampleInv, CallersInv
  <1> QED
    BY <1>7, <1>8, SharedStays, StepBeside

LEMMA UnlinkBeside ==
  ASSUME IInv, SampleInv, NEW t \in Threads, Unlink(t)
  PROVE  SampleInv'
  <1>1. /\ pc[t] = "unlink" /\ pc' = [pc EXCEPT ![t] = "destroy"]
        /\ UNCHANGED <<inited, mount, node, job, path, mt, own>>
    BY DEF Unlink, Goto, locals
  <1>2. mount[mt[t]].mp # Root /\ job[t] # "init"
    BY <1>1 DEF SampleInv, CallersInv, AtMount
  <1>3. \A i \in DOMAIN list : list[i] # mt[t] => \E j \in DOMAIN list' : list'[j] = list[i]
    BY FirstRemoved DEF Unlink, IInv, TypesInv, ListInv
  <1>4. RootsStay
    BY <1>1, <1>2, <1>3 DEF RootsStay, RootMounts, TreeOf
  <1>5. pc'[t] = "destroy" /\ \A u \in Threads \ {t} : pc'[u] = pc[u]
    BY <1>1 DEF IInv, TypesInv
  <1>6. CallsStay
    BY <1>1, <1>2, <1>5 DEF CallsStay, AtMount, SampleInv, CallersInv
  <1> QED
    BY <1>1, <1>4, <1>6, StepBeside

\* The tree that is freed is not a root mount's.
LEMMA DestroyBeside ==
  ASSUME IInv, WInv, SampleInv, NEW t \in Threads, Destroy(t)
  PROVE  SampleInv'
  <1>1. PICK m \in DOMAIN mount : m = mt[t] /\ mount[m].mp # Root
    BY DEF Destroy, IInv, OwnersInv, Owner, SampleInv, CallersInv, AtMount
  <1>2. /\ DOMAIN mount' = DOMAIN mount \ {m} /\ \A k \in DOMAIN mount \ {m} : mount'[k] = mount[k]
        /\ \A d \in DOMAIN node : node[d].root # mount[m].root => d \in DOMAIN node' /\ node'[d] = node[d]
    BY <1>1 DEF Destroy, Restrict, TreeOf
  <1>3. \A k \in RootMounts : k # m /\ mount[k].root # mount[m].root
    BY <1>1 DEF RootMounts, IInv, RootsInv
  <1>4. RootsStay
    <2>1. RootMounts' = RootMounts
      BY <1>1, <1>2 DEF RootMounts
    <2>2. list' = list
      BY DEF Destroy
    <2> QED
      BY <1>2, <1>3, <2>1, <2>2 DEF RootsStay, RootMounts, TreeOf
  <1>5. \A u \in Threads \ {t} : pc[u] \in AtMount => mount'[mt[u]].mp = mount[mt[u]].mp
    BY <1>1, <1>2 DEF Destroy, IInv, OwnersInv, Owner, AtMount
  <1>6. Return(t) /\ inited' = inited /\ job[t] # "init"
    BY DEF Destroy, SampleInv, CallersInv, AtMount
  <1>7. CallsStay
    BY <1>5, <1>6, ReturnStays DEF SampleInv
  <1> QED
    BY <1>4, <1>6, <1>7, StepBeside

\* A new mount at the head of the list.
LinkedAs(t, m, d) ==
  /\ DOMAIN mount' = DOMAIN mount \cup {m} /\ \A k \in DOMAIN mount : mount'[k] = mount[k]
  /\ mount'[m] = [mp |-> path[t], root |-> d]
  /\ DOMAIN node' = DOMAIN node \cup {d} /\ \A e \in DOMAIN node : node'[e] = node[e]
  /\ node'[d].names = <<>> /\ node'[d].maker = t /\ node'[d].root = d
  /\ \E i \in DOMAIN list' : list'[i] = m
  /\ \A i \in DOMAIN list : \E j \in DOMAIN list' : list'[j] = list[i]
  /\ mt'[t] = m /\ own'[t] = <<d>> /\ Others(t)
  /\ pc'[t] = IF job[t] = "init" THEN "ino_load" ELSE "backend"
  /\ UNCHANGED <<inited, job, path>>

LEMMA Linked ==
  ASSUME IInv, WInv, NEW t \in Threads, Link(t)
  PROVE  \E m \in MountIds \ DOMAIN mount, d \in NodeIds \ DOMAIN node : LinkedAs(t, m, d)
  <1> DEFINE label == IF job[t] = "init" THEN "ino_load" ELSE "backend"
  <1>1. PICK m \in MountIds \ DOMAIN mount, d \in NodeIds \ DOMAIN node :
          /\ list' = <<m>> \o list
          /\ mount' = [k \in DOMAIN mount \cup {m} |->
                         IF k = m THEN [mp |-> path[t], root |-> d] ELSE mount[k]]
          /\ node' = [e \in DOMAIN node \cup {d} |->
                        IF e = d THEN NewNode(t, d, "/", NoNode) ELSE node[e]]
          /\ mt' = [mt EXCEPT ![t] = m] /\ own' = [own EXCEPT ![t] = <<d>>]
          /\ pc' = [pc EXCEPT ![t] = label]
          /\ UNCHANGED <<inited, job, path, cur, goal, ino>>
    <2>1. FreeMount \in MountIds \ DOMAIN mount
      BY DEF Link, FreeMount, FreeMounts
    <2>2. FreeNode \in NodeIds \ DOMAIN node
      BY FreeNodeFacts DEF Link
    <2> QED
      BY <2>1, <2>2 DEF Link, Goto
  <1> HIDE DEF label
  <1>2. node'[d] = NewNode(t, d, "/", NoNode)
    BY <1>1
  <1>3. node'[d].names = <<>> /\ node'[d].maker = t /\ node'[d].root = d
    BY <1>2 DEF NewNode
  <1>4. /\ DOMAIN mount' = DOMAIN mount \cup {m} /\ \A k \in DOMAIN mount : mount'[k] = mount[k]
        /\ mount'[m] = [mp |-> path[t], root |-> d]
        /\ DOMAIN node' = DOMAIN node \cup {d} /\ \A e \in DOMAIN node : node'[e] = node[e]
    BY <1>1
  <1>5. /\ \E i \in DOMAIN list' : list'[i] = m
        /\ \A i \in DOMAIN list : \E j \in DOMAIN list' : list'[j] = list[i]
    <2>1. list \in Seq(MountIds)
      BY DEF IInv, TypesInv
    <2>2. Len(list) \in Nat /\ 1 \in 1..(Len(list) + 1)
      BY <2>1
    <2>3. /\ DOMAIN list' = 1..(Len(list) + 1) /\ list'[1] = m
          /\ \A i \in DOMAIN list : i + 1 \in DOMAIN list' /\ list'[i + 1] = list[i]
      BY <1>1, <2>1, Prepended
    <2> QED
      BY <2>2, <2>3
  <1>6. Others(t)
    BY <1>1 DEF Others, Frame, IInv, TypesInv
  <1>7. mt'[t] = m /\ own'[t] = <<d>> /\ pc'[t] = label /\ UNCHANGED <<inited, job, path>>
    BY <1>1 DEF IInv, TypesInv
  <1> QED
    BY <1>3, <1>4, <1>5, <1>6, <1>7 DEF LinkedAs, label

LEMMA LinkBeside ==
  ASSUME IInv, WInv, SampleInv, NEW t \in Threads, Link(t), job[t] # "init"
  PROVE  SampleInv'
  <1>1. job[t] = "mount" /\ path[t] # Root
    BY DEF Link, WInv, PlacesInv, SampleInv, CallersInv
  <1>2. PICK m \in MountIds \ DOMAIN mount, d \in NodeIds \ DOMAIN node : LinkedAs(t, m, d)
    BY Linked
  <1> USE <1>2 DEF LinkedAs
  <1>3. mount'[m].mp = path[t]
    BY <1>2
  <1>4. RootsStay
    <2>1. RootMounts' = RootMounts
      BY <1>1, <1>2, <1>3 DEF RootMounts
    <2> QED
      BY <1>2, <2>1 DEF RootsStay, RootMounts, TreeOf
  <1>5. \A u \in Threads \ {t} : pc[u] \in AtMount => mount'[mt[u]].mp = mount[mt[u]].mp
    BY <1>2 DEF IInv, OwnersInv, Owner, AtMount
  <1>6. CallsStay
    BY <1>1, <1>2, <1>3, <1>5, OthersStay DEF SampleInv
  <1> QED
    BY <1>2, <1>4, <1>6, StepBeside
----------------------------------------------------------------------------
\* The init itself.

\* The first call finds no root mount: a shutdown has left none behind.
LEMMA InitBegins ==
  ASSUME IInv, WInv, SampleInv, NEW t \in Threads, VfsInit(t)
  PROVE  SampleInv'
  <1>1. /\ ~inited /\ inited' /\ pc[t] = "idle"
        /\ pc' = [pc EXCEPT ![t] = "ino_load"] /\ job' = [job EXCEPT ![t] = "init"]
        /\ path' = [path EXCEPT ![t] = Root]
        /\ UNCHANGED <<list, mount, node, mt, own>>
    BY DEF VfsInit, Start
  <1>2. /\ pc'[t] = "ino_load" /\ job'[t] = "init" /\ path'[t] = Root
        /\ \A u \in Threads \ {t} : pc'[u] = pc[u] /\ job'[u] = job[u] /\ path'[u] = path[u]
    BY <1>1 DEF IInv, TypesInv, WInv, PlacesInv
  <1>3. RootMounts = {} /\ (\A u \in Threads : job[u] # "init") /\ own[t] = <<>>
    BY <1>1 DEF SampleInv, RootListInv, CallersInv, IInv, CallsInv
  <1>4. RootMounts' = {}
    BY <1>1, <1>3 DEF RootMounts
  <1>5. CallersInv'
    BY <1>1, <1>2, <1>3 DEF SampleInv, CallersInv, AtMount
  <1>6. RootListInv' /\ SampleBuiltOnce'
    BY <1>2, <1>4 DEF RootListInv, SampleBuiltOnce
  <1>7. InitInv'
    <2>1. DOMAIN own'[t] = {}
      BY <1>1, <1>3
    <2> QED
      BY <1>1, <1>2, <1>3, <1>4, <2>1 DEF InitInv
  <1> QED
    BY <1>5, <1>6, <1>7 DEF SampleInv

\* The root mount is made: the first, since no one else mounts there.
LEMMA InitLinks ==
  ASSUME IInv, WInv, SampleInv, NEW t \in Threads, Link(t), job[t] = "init"
  PROVE  SampleInv'
  <1>1. PICK m \in MountIds \ DOMAIN mount, d \in NodeIds \ DOMAIN node : LinkedAs(t, m, d)
    BY Linked
  <1> USE <1>1 DEF LinkedAs
  <1>2. pc[t] = "link" /\ path[t] = Root /\ inited /\ own[t] = <<>> /\ RootMounts = {}
    BY DEF Link, SampleInv, CallersInv, InitInv
  <1>3. mount'[m].mp = Root
    BY <1>1, <1>2
  <1>4. RootMounts' = {m}
    BY <1>1, <1>2, <1>3 DEF RootMounts
  <1>5. CallersInv'
    <2>1. \A u \in Threads \ {t} : pc[u] \in AtMount => mount'[mt[u]].mp = mount[mt[u]].mp
      BY <1>1 DEF IInv, OwnersInv, Owner, AtMount
    <2>2. \A u \in Threads \ {t} : pc'[u] = pc[u] /\ mt'[u] = mt[u] /\ own'[u] = own[u]
      BY <1>1 DEF Others, Frame
    <2> QED
      BY <1>1, <2>1, <2>2 DEF SampleInv, CallersInv, AtMount
  <1>6. RootListInv' /\ SampleBuiltOnce'
    BY <1>1, <1>2, <1>4 DEF RootListInv, SampleBuiltOnce
  <1>7. InitInv'
    <2>1. \A u \in Threads : job'[u] = "init" => u = t
      BY <1>1 DEF SampleInv, CallersInv
    <2>2. own'[t] # <<>> /\ mt'[t] = m
      BY <1>1
    <2>3. \A k \in DOMAIN own'[t] : k - 1 = 0 /\ own'[t][k] = d
      BY <1>1
    <2>4. node'[d].names = SampleNames[0] /\ node'[d].maker = t
      BY <1>1, SampleNamesDefined
    <2>5. RootMounts' = IF own'[t] = <<>> THEN {} ELSE {mt'[t]}
      BY <1>4, <2>2
    <2>6. \A k \in DOMAIN own'[t] :
            node'[own'[t][k]].names = SampleNames[k - 1] /\ node'[own'[t][k]].maker = t
      BY <2>3, <2>4
    <2> HIDE <1>1 DEF LinkedAs
    <2> QED
      BY <2>1, <2>5, <2>6 DEF InitInv
  <1> QED
    BY <1>5, <1>6, <1>7 DEF SampleInv

\* The next entry is below an earlier one on the root mount, and has its names.
EntryAdded(t, d) ==
  /\ job[t] = "init" /\ Len(own[t]) \in DOMAIN Sample
  /\ mt[t] \in DOMAIN mount /\ RootMounts = {mt[t]}
  /\ d \in DOMAIN node' /\ node'[d].root = mount[mt[t]].root
  /\ node'[d].names = SampleNames[Len(own[t])] /\ node'[d].maker = t
  /\ UNCHANGED <<inited, list, mount>> /\ RootsStay
  /\ \/ Len(own[t]) = Len(Sample) /\ Return(t)
     \/ /\ own' = [own EXCEPT ![t] = Append(@, d)] /\ pc' = [pc EXCEPT ![t] = "ino_load"]
        /\ UNCHANGED <<job, path, mt>>

LEMMA EntryAdds ==
  ASSUME IInv, WInv, SampleInv, NEW t \in Threads, SampleAdd(t)
  PROVE  \E d \in NodeIds : EntryAdded(t, d)
  <1> DEFINE k == Len(own[t])
             b == Sample[k].below + 1
  <1>1. job[t] = "init" /\ own[t] # <<>>
    BY DEF SampleAdd, IInv, CallsInv
  <1>2. k \in DOMAIN Sample /\ b \in DOMAIN own[t]
    BY <1>1, NextEntry
  <1>3. mt[t] \in DOMAIN mount /\ own[t][b] \in TreeOf(mount[mt[t]].root)
    BY <1>1, <1>2, InitOnIts
  <1>4. PICK p \in DOMAIN node : p = own[t][b] /\ node[p].root = mount[mt[t]].root
    BY <1>3 DEF TreeOf
  <1>5. PICK name \in STRING : name = Sample[k].name
    <2>1. \A r \in [name : STRING, below : Nat] : r.name \in STRING
      OBVIOUS
    <2>2. Sample[k] \in [name : STRING, below : Nat]
      BY <1>2, SampleAssumption, ElementOfSeq, LenProperties
    <2> QED
      BY <2>1, <2>2
  <1>6. PICK d \in NodeIds \ DOMAIN node : d = FreeNode
    BY FreeNodeFacts DEF SampleAdd
  <1>7. node' = AddChild(t, d, name, p) /\ UNCHANGED <<inited, list, mount>>
    BY <1>4, <1>5, <1>6 DEF SampleAdd
  <1>8. RootsStay
    BY <1>7, AddBeside
  <1>9. d \in DOMAIN node' /\ node'[d].root = mount[mt[t]].root /\ node'[d].maker = t
    <2>1. TypesInv
      BY DEF IInv
    <2>2. DOMAIN node' = DOMAIN node \cup {d} /\ node'[d].root = node[p].root /\ node'[d].maker = t
      BY <1>7, <2>1, AddFields
    <2> QED
      BY <1>4, <2>2
  <1>10. node'[d].names = SampleNames[k]
    <2>1. node'[d].names = Append(node[p].names, name)
      BY <1>7, AddNames DEF WInv
    <2>2. node[p].names = SampleNames[b - 1]
      BY <1>1, <1>2, <1>4 DEF SampleInv, InitInv
    <2>3. b - 1 = Sample[k].below
      BY <1>2, SampleEntries
    <2>4. SampleNames[k] = Append(SampleNames[Sample[k].below], Sample[k].name)
      BY <1>2, SampleEntries, SampleNamesDefined
    <2> QED
      BY <1>5, <2>1, <2>2, <2>3, <2>4
  <1>11. RootMounts = {mt[t]}
    BY <1>1 DEF SampleInv, InitInv
  <1>12. \/ k = Len(Sample) /\ Return(t)
         \/ /\ own' = [own EXCEPT ![t] = Append(@, d)] /\ pc' = [pc EXCEPT ![t] = "ino_load"]
            /\ UNCHANGED <<job, path, mt>>
    BY <1>6 DEF SampleAdd, Goto
  <1> QED
    BY <1>1, <1>2, <1>3, <1>7, <1>8, <1>9, <1>10, <1>11, <1>12 DEF EntryAdded

\* One entry more: the last one completes the tree.
LEMMA InitAdds ==
  ASSUME IInv, WInv, SampleInv, NEW t \in Threads, SampleAdd(t)
  PROVE  SampleInv'
  <1>1. PICK d \in NodeIds : EntryAdded(t, d)
    BY EntryAdds
  <1> DEFINE k == Len(own[t])
  <1>2. /\ job[t] = "init" /\ k \in DOMAIN Sample /\ mt[t] \in DOMAIN mount /\ RootMounts = {mt[t]}
        /\ d \in DOMAIN node' /\ node'[d].root = mount[mt[t]].root
        /\ node'[d].names = SampleNames[k] /\ node'[d].maker = t
        /\ UNCHANGED <<inited, list, mount>> /\ RootsStay
    BY <1>1 DEF EntryAdded
  <1>3. own[t] \in Seq(NodeIds) /\ own[t] # <<>> /\ k \in Nat \ {0} /\ DOMAIN own[t] = 1..k
    <2>1. own[t] \in Seq(NodeIds)
      BY DEF IInv, TypesInv
    <2>2. k # 0
      BY <1>2, SampleEntries
    <2> QED
      BY <2>1, <2>2
  <1>4. \A u \in Threads \ {t} : job[u] # "init"
    BY <1>2 DEF SampleInv, CallersInv
  <1>5. RootMounts' = {mt[t]}
    BY <1>2 DEF RootsStay
  <1>6. RootListInv'
    BY <1>2, RootListStays DEF SampleInv
  <1>7. CASE k = Len(Sample) /\ Return(t)
    <2>1. Others(t) /\ pc'[t] = "idle" /\ job'[t] = "none" /\ own'[t] = <<>>
      BY <1>7, ReturnedWalks DEF Return, IInv, TypesInv
    <2>2. CallersInv'
      BY <1>2, <1>4, <2>1 DEF SampleInv, CallersInv, AtMount, Others, Frame
    <2>3. \A u \in Threads : job'[u] # "init"
      BY <1>4, <2>1 DEF Others, Frame
    <2>4. InitInv'
      BY <2>3 DEF InitInv
    <2> DEFINE r == mount[mt[t]].root
               Tree == {e \in DOMAIN node' : node'[e].root = r}
    <2>5. ASSUME NEW i \in DOMAIN Sample
          PROVE  \E e \in Tree : node'[e].names = SampleNames[i] /\ node'[e].maker = t
      <3>1. CASE i = k
        BY <1>2, <3>1
      <3>2. CASE i # k
        <4>1. i + 1 \in DOMAIN own[t] /\ (i + 1) - 1 = i
          BY <1>2, <1>3, <1>7, <3>2, SampleEntries
        <4>2. PICK e : e = own[t][i + 1]
          OBVIOUS
        <4>3. e \in TreeOf(mount[mt[t]].root)
          BY <1>2, <1>3, <4>1, <4>2, InitOnIts
        <4>4. node[e].names = SampleNames[i] /\ node[e].maker = t
          BY <1>2, <4>1, <4>2 DEF SampleInv, InitInv
        <4>5. /\ e \in DOMAIN node' /\ node'[e].root = node[e].root
              /\ node'[e].names = node[e].names /\ node'[e].maker = node[e].maker
          BY <1>2, <4>3 DEF RootsStay
        <4> QED
          BY <1>2, <4>3, <4>4, <4>5 DEF TreeOf
      <3> QED
        BY <3>1, <3>2
    <2>6. SampleBuiltOnce'
      <3>1. PICK m \in DOMAIN mount : m = mt[t]
        BY <1>2
      <3>2. {j \in DOMAIN mount' : mount'[j].mp = Root} = {m} /\ m \in DOMAIN mount' /\ mount'[m] = mount[m]
        BY <1>2, <1>5, <3>1 DEF RootMounts
      <3>3. \A i \in DOMAIN Sample :
              \E e \in TreeOf(mount[m].root)' : node'[e].names = SampleNames[i] /\ node'[e].maker = t
        <4>1. TreeOf(mount[m].root)' = Tree
          BY <3>1, <3>2 DEF TreeOf
        <4> HIDE DEF Tree
        <4> QED
          BY <2>5, <4>1
      <3> QED
        BY <3>2, <3>3 DEF SampleBuiltOnce
    <2> QED
      BY <1>6, <2>2, <2>4, <2>6 DEF SampleInv
  <1>8. CASE /\ own' = [own EXCEPT ![t] = Append(@, d)] /\ pc' = [pc EXCEPT ![t] = "ino_load"]
             /\ UNCHANGED <<job, path, mt>>
    <2>1. /\ own'[t] = Append(own[t], d) /\ pc'[t] = "ino_load"
          /\ \A u \in Threads \ {t} : own'[u] = own[u] /\ pc'[u] = pc[u]
      BY <1>8 DEF IInv, TypesInv
    <2>2. /\ DOMAIN own'[t] = 1..(k + 1) /\ own'[t][k + 1] = d
          /\ \A j \in 1..k : own'[t][j] = own[t][j]
      BY <1>3, <2>1
    <2>3. CallersInv'
      BY <1>2, <1>8, <2>1 DEF SampleInv, CallersInv, AtMount
    <2>4. \A j \in DOMAIN own'[t] :
            node'[own'[t][j]].names = SampleNames[j - 1] /\ node'[own'[t][j]].maker = t
      <3> TAKE j \in DOMAIN own'[t]
      <3>1. CASE j = k + 1
        <4>1. j - 1 = k /\ own'[t][j] = d
          BY <1>3, <2>2, <3>1
        <4> QED
          BY <1>2, <4>1
      <3>2. CASE j # k + 1
        <4>1. j \in DOMAIN own[t] /\ own'[t][j] = own[t][j]
          BY <1>3, <2>2, <3>2
        <4>2. node[own[t][j]].names = SampleNames[j - 1] /\ node[own[t][j]].maker = t
          BY <1>2, <4>1 DEF SampleInv, InitInv
        <4>3. own[t][j] \in TreeOf(mount[mt[t]].root)
          BY <1>2, <1>3, <4>1, InitOnIts
        <4> QED
          BY <1>2, <4>1, <4>2, <4>3 DEF RootsStay
      <3> QED
        BY <3>1, <3>2
    <2>5. own'[t] # <<>>
      BY <1>3, <2>2
    <2>6. InitInv'
      <3>1. \A u \in Threads : job'[u] = "init" => u = t
        BY <1>4, <1>8
      <3>2. RootMounts' = IF own'[t] = <<>> THEN {} ELSE {mt'[t]}
        BY <1>5, <1>8, <2>5
      <3> QED
        BY <2>4, <3>1, <3>2 DEF InitInv
    <2>7. SampleBuiltOnce'
      BY <1>2, <1>8 DEF SampleBuiltOnce
    <2> QED
      BY <1>6, <2>3, <2>6, <2>7 DEF SampleInv
  <1> QED
    BY <1>1, <1>7, <1>8 DEF EntryAdded

\* A shutdown frees the root mount with the others.
LEMMA ShutdownClears ==
  ASSUME IInv, SampleInv, NEW t \in Threads, Shutdown(t)
  PROVE  SampleInv'
  <1>1. /\ ~inited' /\ UNCHANGED <<pc, job, path, mt, own>> /\ \A u \in Threads : pc[u] = "idle"
        /\ mount' = Restrict(mount, DOMAIN mount \ {list[i] : i \in DOMAIN list})
    BY DEF Shutdown, Alone, locals
  <1>2. \A u \in Threads : pc'[u] = "idle" /\ job'[u] = "none" /\ own'[u] = <<>>
    BY <1>1 DEF IInv, CallsInv
  <1>3. RootMounts' = {}
    BY <1>1 DEF Restrict, RootMounts, SampleInv, RootListInv
  <1>4. CallersInv' /\ InitInv'
    BY <1>2 DEF CallersInv, InitInv, AtMount
  <1>5. RootListInv' /\ SampleBuiltOnce'
    BY <1>1, <1>3 DEF RootListInv, SampleBuiltOnce
  <1> QED
    BY <1>4, <1>5 DEF SampleInv

LEMMA SampleInit ==
  Init => SampleInv
  <1> SUFFICES ASSUME Init PROVE SampleInv
    OBVIOUS
  <1>1. ~inited /\ DOMAIN mount = {} /\ \A t \in Threads : job[t] = "none" /\ pc[t] = "idle" /\ own[t] = <<>>
    BY DEF Init
  <1> QED
    BY <1>1 DEF SampleInv, CallersInv, RootListInv, InitInv, SampleBuiltOnce, RootMounts, AtMount

LEMMA SampleStutter ==
  ASSUME IInv, SampleInv, UNCHANGED vars
  PROVE  SampleInv'
  <1>1. UNCHANGED <<inited, list, mount, node, pc, job, path, mt, own>>
    BY DEF vars, shared, locals
  <1>2. CallsStay
    BY <1>1 DEF CallsStay, AtMount, SampleInv, CallersInv
  <1> QED
    BY <1>1, <1>2, SharedStays, StepBeside

\* Where callers mount elsewhere than at "/", the root mount is the init's, and the init
\* makes it, and every entry on it, once.
THEOREM SampleBuiltOnceAlways ==
  ASSUME Root \notin Mountpoints
  PROVE  Spec => []SampleBuiltOnce
  <1>1. IInv /\ IInv' /\ WInv /\ SampleInv /\ [Next]_vars => SampleInv'
    <2> SUFFICES ASSUME IInv, IInv', WInv, SampleInv, [Next]_vars PROVE SampleInv'
      OBVIOUS
    <2>1. CASE UNCHANGED vars
      BY <2>1, SampleStutter
    <2>2. ASSUME NEW t \in Threads,
                 (\E p \in Paths : Walk(t, p)) \/ WalkFind(t) \/ WalkRoot(t) \/ WalkLookup(t)
          PROVE  SampleInv'
      BY <2>2, WalkBeside
    <2>3. ASSUME NEW t \in Threads, WalkAdd(t) PROVE SampleInv'
      BY <2>3, WalkAddBeside
    <2>4. ASSUME NEW t \in Threads, InoLoad(t) \/ InoStore(t) PROVE SampleInv'
      BY <2>4, InoBeside
    <2>5. ASSUME NEW t \in Threads, VfsInit(t) PROVE SampleInv'
      BY <2>5, InitBegins
    <2>6. ASSUME NEW t \in Threads, SampleAdd(t) PROVE SampleInv'
      BY <2>6, InitAdds
    <2>7. ASSUME NEW t \in Threads, NEW mp \in Mountpoints, Mount(t, mp) PROVE SampleInv'
      BY <2>7, MountBeside
    <2>8. ASSUME NEW t \in Threads, Link(t) PROVE SampleInv'
      BY <2>8, InitLinks, LinkBeside
    <2>9. ASSUME NEW t \in Threads, Attach(t) PROVE SampleInv'
      BY <2>9, AttachBeside
    <2>10. ASSUME NEW t \in Threads, NEW mp \in Mountpoints, Unmount(t, mp) PROVE SampleInv'
      BY <2>10, UnmountBeside
    <2>11. ASSUME NEW t \in Threads, Unlink(t) PROVE SampleInv'
      BY <2>11, UnlinkBeside
    <2>12. ASSUME NEW t \in Threads, Destroy(t) PROVE SampleInv'
      BY <2>12, DestroyBeside
    <2>13. ASSUME NEW t \in Threads, Shutdown(t) PROVE SampleInv'
      BY <2>13, ShutdownClears
    <2> QED
      BY <2>1, <2>2, <2>3, <2>4, <2>5, <2>6, <2>7, <2>8, <2>9, <2>10, <2>11, <2>12, <2>13 DEF Next
  <1>2. SampleInv => SampleBuiltOnce
    BY DEF SampleInv
  <1> QED
    BY <1>1, <1>2, SampleInit, Invariance, WalksInvariance, PTL DEF Spec
=============================================================================
