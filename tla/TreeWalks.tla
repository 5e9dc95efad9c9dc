------------------------------ MODULE TreeWalks ------------------------------
(***************************************************************************)
(* The mount list and the dentry trees of src/src/core/vfs_core.c under    *)
(* concurrent calls: walks that look names up and add the missing ones,    *)
(* vfs_init with its sample tree, mounts and unmounts.                     *)
(*                                                                         *)
(* A step is one critical section of g_vfs_lock or of a dentry's lock, or  *)
(* the accesses between two of them; g_next_ino++, which no lock guards,   *)
(* is a load and a store.  A tree is freed in one step.                    *)
(*                                                                         *)
(* Callers unmount and shut down while no other call is in progress; a     *)
(* mount whose backend cannot be initialised is unmounted by the code      *)
(* itself, whoever is using it by then.                                    *)
(***************************************************************************)
EXTENDS VfsPaths

CONSTANTS
  Threads,
  Paths,        \* the paths that are walked, normalised
  Mountpoints,  \* where callers mount
  Sample,       \* what vfs_init adds: a sequence of names, each below an earlier one
  MountIds,     \* bound: mounts at one time
  NodeIds,      \* bound: dentries at one time
  MaxCalls,     \* bound: calls that are started
  NoMount, NoNode

ASSUME IdsAssumption == NoMount \notin MountIds /\ NoNode \notin NodeIds

\* Sample[k].below is an index into Sample, or 0 for the root dentry; no two entries are
\* the same.
ASSUME SampleAssumption ==
  /\ Sample \in Seq([name : STRING, below : Nat]) /\ Len(Sample) > 0
  /\ \A k \in DOMAIN Sample : Sample[k].below < k
  /\ \A j, k \in DOMAIN Sample : Sample[j] = Sample[k] => j = k

\* A path, or a mountpoint, begins with a slash: there is a segment behind it. Other paths
\* are refused by vfs_resolve_path; callers are taken to choose such mountpoints.
ASSUME PathsAssumption ==
  \A p \in Paths \cup Mountpoints : p \in Seq(STRING) /\ p # <<>>

VARIABLES
  inited,      \* g_vfs_inited
  list,        \* mount_table_head and its next pointers: mounts, newest first
  mount,       \* the mounts that are allocated: id -> mountpoint and root dentry
  node,        \* the dentries that are allocated: id -> see NewNode
  nextIno,     \* g_next_ino
  pc, job,     \* thread -> its step, and the call it runs
  path,        \* thread -> the path of a walk, or the mountpoint of a mount
  mt, cur,     \* thread -> the mount and the dentry in hand
  goal,        \* thread -> the names still to walk (tok and save)
  ino,         \* thread -> the inode number it has loaded
  own,         \* thread -> vfs_init's dentries so far: the root, then those of Sample
  calls,       \* the number of calls started, for MaxCalls
  lapped,      \* history: two threads were inside g_next_ino++ at once
  raced        \* history: a mount was freed while another call was in progress

shared == <<inited, list, mount, node, nextIno>>
locals == <<path, mt, cur, goal, ino, own>>
history == <<calls, lapped, raced>>
vars == <<shared, pc, job, locals, history>>

Init ==
  /\ inited = FALSE /\ list = <<>> /\ mount = <<>> /\ node = <<>> /\ nextIno = 0
  /\ pc = [t \in Threads |-> "idle"] /\ job = [t \in Threads |-> "none"]
  /\ path = [t \in Threads |-> <<>>]
  /\ mt = [t \in Threads |-> NoMount] /\ cur = [t \in Threads |-> NoNode]
  /\ goal = [t \in Threads |-> <<>>]
  /\ ino = [t \in Threads |-> 0] /\ own = [t \in Threads |-> <<>>]
  /\ calls = 0 /\ lapped = FALSE /\ raced = FALSE

Goto(t, label) == pc' = [pc EXCEPT ![t] = label] /\ UNCHANGED job

Start(t, call, label) ==
  /\ pc[t] = "idle"
  /\ \A u \in Threads : job[u] # "unmount"
  /\ pc' = [pc EXCEPT ![t] = label] /\ job' = [job EXCEPT ![t] = call]
  /\ calls < MaxCalls /\ calls' = calls + 1

Return(t) ==
  /\ pc' = [pc EXCEPT ![t] = "idle"] /\ job' = [job EXCEPT ![t] = "none"]
  /\ path' = [path EXCEPT ![t] = <<>>]
  /\ mt' = [mt EXCEPT ![t] = NoMount] /\ cur' = [cur EXCEPT ![t] = NoNode]
  /\ goal' = [goal EXCEPT ![t] = <<>>]
  /\ ino' = [ino EXCEPT ![t] = 0] /\ own' = [own EXCEPT ![t] = <<>>]

\* Freed memory is used, and nothing is said of what happens then.
Undefined ==
  /\ pc' = [t \in Threads |-> "undefined"]
  /\ UNCHANGED <<shared, job, locals, history>>

Alone(t) == \A u \in Threads \ {t} : pc[u] = "idle"

\* A freed id is not given out again while a thread has it in hand, so that its use is
\* recognised.
FreeMounts == {m \in MountIds \ DOMAIN mount : \A t \in Threads : mt[t] # m}
FreeNodes == {d \in NodeIds \ DOMAIN node :
                \A t \in Threads : cur[t] # d /\ \A k \in DOMAIN own[t] : own[t][k] # d}
FreeMount == CHOOSE m \in FreeMounts : TRUE
FreeNode == CHOOSE d \in FreeNodes : TRUE

----------------------------------------------------------------------------
\* Dentries.

\* vfs_dentry_create with vfs_inode_create. The names from the root dentry down, the
\* root, and the thread that made it are history.
NewNode(t, d, name, parent) ==
  [name |-> name, parent |-> parent, kids |-> <<>>, ino |-> ino[t], maker |-> t,
   names |-> IF parent = NoNode THEN <<>> ELSE Append(node[parent].names, name),
   root |-> IF parent = NoNode THEN d ELSE node[parent].root]

\* Mutant: the new child replaces the list.
AddChildAlone(t, d, name, parent) ==
  [e \in DOMAIN node \cup {d} |->
     IF e = d THEN NewNode(t, d, name, parent)
     ELSE IF e = parent THEN [node[e] EXCEPT !.kids = <<d>>]
     ELSE node[e]]

\* vfs_dentry_add_child: the new dentry becomes its parent's first child.
AddChild(t, d, name, parent) ==
  [e \in DOMAIN node \cup {d} |->
     IF e = d THEN NewNode(t, d, name, parent)
     ELSE IF e = parent THEN [node[e] EXCEPT !.kids = <<d>> \o @]
     ELSE node[e]]

\* Mutant: only the first child is compared.
HeadChild(d, name) ==
  IF node[d].kids # <<>> /\ node[node[d].kids[1]].name = name THEN 1 ELSE 0

\* The first child with this name, or 0.
FirstChild(d, name) == SelectInSeq(node[d].kids, LAMBDA k : node[k].name = name)

\* The names from the root dentry down to the k-th entry of the sample tree.
SampleNames[k \in 0..Len(Sample)] ==
  IF k = 0 THEN <<>> ELSE Append(SampleNames[Sample[k].below], Sample[k].name)

\* What vfs_dentry_destroy_tree frees: TreeSound says that this is what hangs below r.
TreeOf(r) == {d \in DOMAIN node : node[d].root = r}

\* g_next_ino++, on its way to a new dentry.
InoLoad(t) ==
  /\ pc[t] = "ino_load"
  /\ ino' = [ino EXCEPT ![t] = nextIno]
  /\ lapped' = (lapped \/ \E u \in Threads : pc[u] = "ino_store")
  /\ Goto(t, "ino_store")
  /\ UNCHANGED <<shared, path, mt, cur, goal, own, calls, raced>>

\* Mutant: the counter is bumped for walks only.
InoStoreInWalks(t) ==
  /\ pc[t] = "ino_store"
  /\ nextIno' = IF job[t] = "walk" THEN ino[t] + 1 ELSE nextIno
  /\ Goto(t, IF job[t] = "walk" \/ own[t] # <<>> THEN "add" ELSE "link")
  /\ UNCHANGED <<inited, list, mount, node, locals, history>>

InoStore(t) ==
  /\ pc[t] = "ino_store"
  /\ nextIno' = ino[t] + 1
  /\ Goto(t, IF job[t] = "walk" \/ own[t] # <<>> THEN "add" ELSE "link")
  /\ UNCHANGED <<inited, list, mount, node, locals, history>>

----------------------------------------------------------------------------
\* vfs_resolve_path.

\* The list holds a mount that has been freed.
ListFreed == \E i \in DOMAIN list : list[i] \notin DOMAIN mount

MpsOf == [i \in DOMAIN list |-> mount[list[i]].mp]

Walk(t, p) ==
  /\ inited
  /\ Start(t, "walk", "find")
  /\ path' = [path EXCEPT ![t] = p]
  /\ UNCHANGED <<shared, mt, cur, goal, ino, own, lapped, raced>>

\* find_best_mount, and -ENOENT if there is none.
WalkFind(t) ==
  /\ pc[t] = "find"
  /\ IF ListFreed THEN Undefined
     ELSE LET best == FindBestMount(path[t], MpsOf)
          IN  /\ IF best = 0 THEN Return(t)
                 ELSE /\ mt' = [mt EXCEPT ![t] = list[best]]
                      /\ Goto(t, "root")
                      /\ UNCHANGED <<path, cur, goal, ino, own>>
              /\ UNCHANGED <<shared, history>>

\* The walk begins at the mount's root dentry, without g_vfs_lock.
WalkRoot(t) ==
  /\ pc[t] = "root"
  /\ \/ mt[t] \notin DOMAIN mount /\ Undefined
     \/ /\ mt[t] \in DOMAIN mount
        /\ cur' = [cur EXCEPT ![t] = mount[mt[t]].root]
        /\ goal' = [goal EXCEPT ![t] = WalkNames(path[t], mount[mt[t]].mp)]
        /\ Goto(t, "lookup")
        /\ UNCHANGED <<shared, path, mt, ino, own, history>>

\* A pass of the loop: the dentry reached is returned, or a child of the next name is
\* looked for under the dentry's lock.
WalkLookup(t) ==
  /\ pc[t] = "lookup"
  /\ \/ goal[t] = <<>> /\ Return(t) /\ UNCHANGED <<shared, history>>
     \/ goal[t] # <<>> /\ cur[t] \notin DOMAIN node /\ Undefined
     \/ /\ goal[t] # <<>> /\ cur[t] \in DOMAIN node
        /\ LET i == FirstChild(cur[t], Head(goal[t]))
           IN  IF i = 0 THEN Goto(t, "ino_load") /\ UNCHANGED <<cur, goal>>
               ELSE /\ cur' = [cur EXCEPT ![t] = node[cur[t]].kids[i]]
                    /\ goal' = [goal EXCEPT ![t] = Tail(@)]
                    /\ UNCHANGED <<pc, job>>
        /\ UNCHANGED <<shared, path, mt, ino, own, history>>

\* Mutant: the walk stays at the parent.
WalkAddStays(t) ==
  /\ pc[t] = "add" /\ job[t] = "walk"
  /\ \/ cur[t] \notin DOMAIN node /\ Undefined
     \/ /\ cur[t] \in DOMAIN node /\ FreeNodes # {}
        /\ node' = AddChild(t, FreeNode, Head(goal[t]), cur[t])
        /\ goal' = [goal EXCEPT ![t] = Tail(@)]
        /\ Goto(t, "lookup")
        /\ UNCHANGED <<inited, list, mount, nextIno, path, mt, cur, ino, own, history>>

\* The child that was missing is added as a directory.
WalkAdd(t) ==
  /\ pc[t] = "add" /\ job[t] = "walk"
  /\ \/ cur[t] \notin DOMAIN node /\ Undefined
     \/ /\ cur[t] \in DOMAIN node /\ FreeNodes # {}
        /\ node' = AddChild(t, FreeNode, Head(goal[t]), cur[t])
        /\ cur' = [cur EXCEPT ![t] = FreeNode]
        /\ goal' = [goal EXCEPT ![t] = Tail(@)]
        /\ Goto(t, "lookup")
        /\ UNCHANGED <<inited, list, mount, nextIno, path, mt, ino, own, history>>

----------------------------------------------------------------------------
\* vfs_init, and mounts: vfs_mount_create, vfs_mount_backend.

\* Mutant: the flag is set but not read.
VfsInitAgain(t) ==
  /\ Start(t, "init", "ino_load")
  /\ inited' = TRUE
  /\ path' = [path EXCEPT ![t] = Root]
  /\ UNCHANGED <<list, mount, node, nextIno, mt, cur, goal, ino, own, lapped, raced>>

\* The first call sets the flag; any other returns at once, with nothing changed.
VfsInit(t) ==
  /\ ~inited
  /\ Start(t, "init", "ino_load")
  /\ inited' = TRUE
  /\ path' = [path EXCEPT ![t] = Root]
  /\ UNCHANGED <<list, mount, node, nextIno, mt, cur, goal, ino, own, lapped, raced>>

\* vfs_mount_backend, with the backend registered.
Mount(t, mp) ==
  /\ Start(t, "mount", "ino_load")
  /\ path' = [path EXCEPT ![t] = mp]
  /\ UNCHANGED <<shared, mt, cur, goal, ino, own, lapped, raced>>

\* The end of vfs_mount_create: the mount goes to the head of the list.
Link(t) ==
  /\ pc[t] = "link" /\ FreeMounts # {} /\ FreeNodes # {}
  /\ list' = <<FreeMount>> \o list
  /\ mount' = [m \in DOMAIN mount \cup {FreeMount} |->
                 IF m = FreeMount THEN [mp |-> path[t], root |-> FreeNode] ELSE mount[m]]
  /\ node' = [d \in DOMAIN node \cup {FreeNode} |->
                IF d = FreeNode THEN NewNode(t, FreeNode, "/", NoNode) ELSE node[d]]
  /\ mt' = [mt EXCEPT ![t] = FreeMount]
  /\ own' = [own EXCEPT ![t] = <<FreeNode>>]
  /\ Goto(t, IF job[t] = "init" THEN "ino_load" ELSE "backend")
  /\ UNCHANGED <<path, cur, goal, ino>>
  /\ UNCHANGED <<inited, nextIno, history>>

\* The next entry of the sample tree is added, whether or not a walk has made one of
\* that name by now.
SampleAdd(t) ==
  /\ pc[t] = "add" /\ job[t] = "init" /\ FreeNodes # {}
  /\ LET next == Sample[Len(own[t])]
     IN  node' = AddChild(t, FreeNode, next.name, own[t][next.below + 1])
  /\ IF Len(own[t]) = Len(Sample) THEN Return(t)
     ELSE /\ own' = [own EXCEPT ![t] = Append(@, FreeNode)]
          /\ Goto(t, "ino_load")
          /\ UNCHANGED <<path, mt, cur, goal, ino>>
  /\ UNCHANGED <<inited, list, mount, nextIno, history>>

\* The backend of the new mount, which is in the list already, is initialised, or fails.
Attach(t) ==
  /\ pc[t] = "backend"
  /\ \/ Return(t)
     \/ Goto(t, "unlink") /\ UNCHANGED locals
  /\ UNCHANGED <<shared, history>>

----------------------------------------------------------------------------
\* vfs_unmount_backend, vfs_mount_destroy and vfs_shutdown.

\* The first mount in the list at this mountpoint.
Unmount(t, mp) ==
  /\ Alone(t) /\ pc[t] = "idle"
  /\ IF ListFreed THEN Undefined
     ELSE LET i == SelectInSeq(MpsOf, LAMBDA m : m = mp)
          IN  /\ i # 0
              /\ Start(t, "unmount", "unlink")
              /\ mt' = [mt EXCEPT ![t] = list[i]]
              /\ UNCHANGED <<shared, path, cur, goal, ino, own, lapped, raced>>

\* Mutant: only the head of the list is unlinked.
UnlinkHead(t) ==
  /\ pc[t] = "unlink"
  /\ list' = IF list # <<>> /\ Head(list) = mt[t] THEN Tail(list) ELSE list
  /\ Goto(t, "destroy")
  /\ UNCHANGED <<inited, mount, node, nextIno, locals, history>>

Unlink(t) ==
  /\ pc[t] = "unlink"
  /\ list' = RemoveFirst(list, mt[t])
  /\ Goto(t, "destroy")
  /\ UNCHANGED <<inited, mount, node, nextIno, locals, history>>

\* The mount and its tree are freed.
Destroy(t) ==
  /\ pc[t] = "destroy"
  /\ mount' = Restrict(mount, DOMAIN mount \ {mt[t]})
  /\ node' = Restrict(node, DOMAIN node \ TreeOf(mount[mt[t]].root))
  /\ raced' = (raced \/ ~Alone(t))
  /\ Return(t)
  /\ UNCHANGED <<inited, list, nextIno, calls, lapped>>

\* Under g_vfs_lock from its first line to its last.
Shutdown(t) ==
  /\ inited /\ Alone(t) /\ pc[t] = "idle"
  /\ inited' = FALSE /\ list' = <<>>
  /\ mount' = Restrict(mount, DOMAIN mount \ {list[i] : i \in DOMAIN list})
  /\ node' = Restrict(node, DOMAIN node \ UNION {TreeOf(mount[list[i]].root) : i \in DOMAIN list})
  /\ UNCHANGED <<nextIno, pc, job, locals, history>>

----------------------------------------------------------------------------

Next ==
  \E t \in Threads :
    \/ \E p \in Paths : Walk(t, p)
    \/ WalkFind(t) \/ WalkRoot(t) \/ WalkLookup(t) \/ WalkAdd(t)
    \/ InoLoad(t) \/ InoStore(t)
    \/ VfsInit(t) \/ SampleAdd(t)
    \/ \E mp \in Mountpoints : Mount(t, mp)
    \/ Link(t) \/ Attach(t)
    \/ \E mp \in Mountpoints : Unmount(t, mp)
    \/ Unlink(t) \/ Destroy(t) \/ Shutdown(t)

Spec == Init /\ [][Next]_vars

----------------------------------------------------------------------------
\* Properties.

Labels == {"idle", "find", "root", "lookup", "ino_load", "ino_store", "add", "link", "backend",
           "unlink", "destroy", "undefined"}
Calls == {"none", "walk", "init", "mount", "unmount"}

\* The type invariant of the mounts, the dentries and the threads' locals.
TypeOK ==
  /\ inited \in BOOLEAN /\ nextIno \in Nat
  /\ DOMAIN mount \subseteq MountIds
  /\ \A i \in DOMAIN list : list[i] \in DOMAIN mount
  /\ \A m \in DOMAIN mount : mount[m].root \in NodeIds /\ mount[m].mp \in Mountpoints \cup {Root}
  /\ DOMAIN node \subseteq NodeIds
  /\ \A d \in DOMAIN node : /\ node[d].parent \in NodeIds \cup {NoNode}
                            /\ node[d].maker \in Threads
                            /\ node[d].ino \in Nat
                            /\ node[d].kids \in Seq(NodeIds)
  /\ \A t \in Threads : /\ pc[t] \in Labels /\ job[t] \in Calls
                        /\ mt[t] \in MountIds \cup {NoMount} /\ cur[t] \in NodeIds \cup {NoNode}
                        /\ ino[t] \in Nat
                        /\ Len(own[t]) <= Len(Sample)

\* No call uses a mount or a dentry that has been freed: not the walks of several
\* threads, nor the init and mounts beside them, nor what comes after an unmount; only
\* a mount that fails may pull the tree away from under a call in progress.
NoUseAfterFree == ~raced => \A t \in Threads : pc[t] # "undefined"

\* A walk has come down the path it was called with: the names down to the dentry in
\* hand and those still to go are the ones its mount leaves of the path, whatever other
\* calls have added beside and above it; and so is what it returns.
WalkEndsRight ==
  ~raced => \A t \in Threads :
    job[t] = "walk" /\ pc[t] \in {"lookup", "ino_load", "ino_store", "add"} =>
      node[cur[t]].names \o goal[t] = WalkNames(path[t], mount[mt[t]].mp)

OnceIn(d, seq) == \E i \in DOMAIN seq : \A j \in DOMAIN seq : seq[j] = d <=> j = i

\* d is on p's list of children, once, and of the same tree.
LinkedOnce(d, p) ==
  p \in DOMAIN node /\ node[p].root = node[d].root /\ OnceIn(d, node[p].kids)

\* Parents and children agree, and no child is lost or linked twice, when several calls
\* add to one dentry: what hangs below a root dentry is its whole tree, and
\* vfs_dentry_destroy_tree frees all of it.
TreeSound ==
  \A d \in DOMAIN node :
    /\ node[d].parent = NoNode <=> \E m \in DOMAIN mount : mount[m].root = d
    /\ node[d].parent # NoNode => LinkedOnce(d, node[d].parent)
    /\ \A i \in DOMAIN node[d].kids :
         node[d].kids[i] \in DOMAIN node /\ node[node[d].kids[i]].parent = d

\* A thread never adds a name twice below one dentry: children of one name, which hide
\* each other, come from different threads, so there are at most as many as threads.
TwinsOfDifferentCalls ==
  \A d, e \in DOMAIN node :
    d # e /\ node[d].parent = node[e].parent /\ node[d].parent # NoNode /\ node[d].name = node[e].name
      => node[d].maker # node[e].maker

\* Inode numbers differ as long as no two threads were inside g_next_ino++ at once.
InodeNumbersDiffer ==
  ~lapped => \A d, e \in DOMAIN node : d # e => node[d].ino # node[e].ino

\* However many threads call vfs_init, and whatever they walk meanwhile, one of them builds
\* the root mount: once it is done there is one, with every sample entry on it, made by
\* one thread.
SampleBuiltOnce ==
  inited /\ (\A t \in Threads : job[t] # "init") =>
    \E m \in DOMAIN mount :
      /\ {k \in DOMAIN mount : mount[k].mp = Root} = {m}
      /\ \E t \in Threads : \A i \in DOMAIN Sample :
           \E d \in TreeOf(mount[m].root) : node[d].names = SampleNames[i] /\ node[d].maker = t
----------------------------------------------------------------------------
\* The inductive invariant behind TreeSound, TwinsOfDifferentCalls and InodeNumbersDiffer.

Fields == {"name", "parent", "kids", "ino", "maker", "names", "root"}

TypesInv ==
  /\ nextIno \in Nat /\ ino \in [Threads -> Nat]
  /\ pc \in [Threads -> Labels] /\ job \in [Threads -> Calls]
  /\ own \in [Threads -> Seq(NodeIds)]
  /\ mt = [t \in Threads |-> mt[t]]
  /\ cur = [t \in Threads |-> cur[t]] /\ goal = [t \in Threads |-> goal[t]]
  /\ list \in Seq(MountIds)
  /\ DOMAIN mount \subseteq MountIds
  /\ DOMAIN node \subseteq NodeIds
  /\ \A d \in DOMAIN node :
       /\ node[d] = [f \in Fields |-> node[d][f]]
       /\ node[d].kids \in Seq(NodeIds) /\ node[d].ino \in Nat

CallsInv ==
  \A t \in Threads :
    /\ pc[t] = "idle" => job[t] = "none" /\ own[t] = <<>>
    /\ pc[t] \in {"find", "root", "lookup"} => job[t] = "walk"
    /\ pc[t] = "add" => job[t] = "walk" \/ own[t] # <<>>

\* A number is in nobody's hand, in one thread's, or a dentry's.
NumbersInv ==
  ~lapped =>
    /\ \A d \in DOMAIN node : node[d].ino < nextIno
    /\ \A d, e \in DOMAIN node : d # e => node[d].ino # node[e].ino
    /\ \A t, u \in Threads : pc[t] = "ino_store" /\ pc[u] = "ino_store" => t = u
    /\ \A t \in Threads : pc[t] = "ino_store" => ino[t] = nextIno
    /\ \A t \in Threads : pc[t] \in {"add", "link"} =>
         /\ ino[t] < nextIno
         /\ \A d \in DOMAIN node : node[d].ino # ino[t]
         /\ \A u \in Threads : pc[u] \in {"add", "link"} /\ u # t => ino[u] # ino[t]

\* Each mount has a tree of its own.
RootsInv ==
  /\ \A m \in DOMAIN mount : mount[m].root \in DOMAIN node
  /\ \A m, k \in DOMAIN mount : mount[m].root = mount[k].root => m = k
  /\ \A d \in DOMAIN node : node[d].parent = NoNode => node[d].root = d

\* The list holds mounts that are allocated, each once, and none that is about to be freed.
ListInv ==
  /\ \A i \in DOMAIN list : list[i] \in DOMAIN mount
  /\ \A i, j \in DOMAIN list : list[i] = list[j] => i = j
  /\ \A t \in Threads : pc[t] = "destroy" => \A i \in DOMAIN list : list[i] # mt[t]

\* The thread works on a mount that it has made, or is about to free it.
Owner(t) ==
  \/ pc[t] \in {"backend", "unlink", "destroy"}
  \/ job[t] = "init" /\ own[t] # <<>>

OwnersInv ==
  /\ \A t \in Threads : Owner(t) => mt[t] \in DOMAIN mount
  /\ \A t, u \in Threads : Owner(t) /\ Owner(u) /\ mt[t] = mt[u] => t = u

\* A walk that missed a name has not added it since.
PendingInv ==
  \A t \in Threads :
    job[t] = "walk" /\ pc[t] \in {"ino_load", "ino_store", "add"} /\ cur[t] \in DOMAIN node =>
      \A d \in DOMAIN node :
        node[d].parent = cur[t] /\ node[d].name = Head(goal[t]) => node[d].maker # t

\* What an init has built so far: the root, and its first entries, each once.
Built(t) ==
  /\ Len(own[t]) <= Len(Sample)
  /\ mount[mt[t]].root = own[t][1]
  /\ \A k \in DOMAIN own[t] : own[t][k] \in DOMAIN node /\ node[own[t][k]].root = own[t][1]
  /\ \A j, k \in DOMAIN own[t] : own[t][j] = own[t][k] => j = k
  /\ \A k \in DOMAIN own[t] \ {1} :
       /\ node[own[t][k]].parent = own[t][Sample[k - 1].below + 1]
       /\ node[own[t][k]].name = Sample[k - 1].name
  /\ \A d \in DOMAIN node, k \in DOMAIN own[t] :
       node[d].maker = t /\ node[d].parent = own[t][k] => \E j \in DOMAIN own[t] \ {1} : own[t][j] = d

BuildInv == \A t \in Threads : job[t] = "init" /\ own[t] # <<>> => Built(t)

IInv ==
  /\ TypesInv /\ CallsInv /\ NumbersInv /\ RootsInv /\ ListInv /\ OwnersInv /\ TreeSound
  /\ PendingInv /\ BuildInv /\ TwinsOfDifferentCalls
----------------------------------------------------------------------------
\* What TypeOK, NoUseAfterFree and WalkEndsRight need besides.

HandsInv ==
  /\ \A t \in Threads : /\ mt[t] \in MountIds \cup {NoMount} /\ cur[t] \in NodeIds \cup {NoNode}
                        /\ job[t] # "init" => Len(own[t]) <= 1
  /\ \A d \in DOMAIN node : node[d].maker \in Threads

PlacesInv ==
  /\ path = [t \in Threads |-> path[t]]
  /\ \A t \in Threads : /\ job[t] = "walk" => path[t] \in Paths
                        /\ job[t] \in {"init", "mount"} => path[t] \in Mountpoints \cup {Root}
                        /\ pc[t] \in {"ino_load", "ino_store", "add"} => job[t] \in {"walk", "init", "mount"}
                        /\ pc[t] = "link" => job[t] \in {"init", "mount"}
  /\ \A m \in DOMAIN mount : mount[m].mp \in Mountpoints \cup {Root}

\* The names down to a dentry are its parent's and its own.
NamesInv ==
  /\ goal \in [Threads -> Seq(STRING)]
  /\ \A t \in Threads : job[t] = "walk" /\ pc[t] \in {"ino_load", "ino_store", "add"} => goal[t] # <<>>
  /\ \A d \in DOMAIN node :
       /\ node[d].names \in Seq(STRING)
       /\ node[d].names = IF node[d].parent = NoNode THEN <<>>
                          ELSE Append(node[node[d].parent].names, node[d].name)

\* The walk is at a dentry.
Down(t) == job[t] = "walk" /\ pc[t] \in {"lookup", "ino_load", "ino_store", "add"}

\* What the walk has in hand is allocated, and it is on its way.
OnItsWay(t) ==
  /\ pc[t] # "undefined"
  /\ pc[t] = "root" \/ Down(t) => mt[t] \in DOMAIN mount
  /\ Down(t) => /\ cur[t] \in DOMAIN node
                /\ node[cur[t]].names \o goal[t] = WalkNames(path[t], mount[mt[t]].mp)

WalkersInv == ~raced => \A t \in Threads : OnItsWay(t)

WInv == HandsInv /\ PlacesInv /\ NamesInv /\ WalkersInv
----------------------------------------------------------------------------
\* What SampleBuiltOnce needs besides, if callers mount elsewhere than at "/": how far the
\* one init has come.

RootMounts == {m \in DOMAIN mount : mount[m].mp = Root}

AtMount == {"backend", "unlink", "destroy"}

CallersInv ==
  /\ \A t, u \in Threads : job[t] = "init" /\ job[u] = "init" => t = u
  /\ \A t \in Threads :
       /\ job[t] = "init" => inited /\ path[t] = Root
       /\ job[t] = "mount" => path[t] # Root
       /\ pc[t] \in AtMount => job[t] # "init" /\ mount[mt[t]].mp # Root
       /\ pc[t] = "link" => own[t] = <<>>

\* A shutdown leaves no root mount behind, since each is in the list.
RootListInv == \A m \in RootMounts : inited /\ \E i \in DOMAIN list : list[i] = m

\* The init has made nothing yet, or the only root mount, and the entries it has in hand.
InitInv ==
  \A t \in Threads : job[t] = "init" =>
    /\ RootMounts = IF own[t] = <<>> THEN {} ELSE {mt[t]}
    /\ \A k \in DOMAIN own[t] :
         node[own[t][k]].names = SampleNames[k - 1] /\ node[own[t][k]].maker = t

SampleInv == CallersInv /\ RootListInv /\ InitInv /\ SampleBuiltOnce
=============================================================================
