------------------------------ MODULE VfsPaths ------------------------------
(***************************************************************************)
(* How vfs_core.c takes paths apart: normalisation, the choice of a mount, *)
(* and the two ways the rest of the path is cut off, one for the backend   *)
(* and one for the dentry tree.                                            *)
(*                                                                         *)
(* An absolute path is the sequence of what stands between its slashes:    *)
(* "/m//a/" is <<"m", "", "a", "">> and "/" is <<"">>.  A mountpoint is    *)
(* kept as the caller wrote it, in the same form, so that the comparison   *)
(* of strings with a slash or an end behind the prefix (the source's       *)
(* strncmp and its boundary test) is IsPrefix.  A relative path has the    *)
(* same form without the slash in front: "a/b" is <<"a", "b">>, and        *)
(* "/b", absolute, is <<"", "b">>.                                         *)
(***************************************************************************)
EXTENDS Naturals, SequencesExt

Empty == ""    \* what stands between two slashes that follow each other
Dot == "."
DotDot == ".."
Special == {Empty, Dot, DotDot}

Root == <<Empty>>

\* The segments of a path that are names, for whoever skips the empty ones.
Names(p) ==
  LET names[i \in 0..Len(p)] ==
        IF i = 0 THEN <<>>
        ELSE IF p[i] = Empty THEN names[i - 1]
        ELSE Append(names[i - 1], p[i])
  IN  names[Len(p)]

----------------------------------------------------------------------------
\* normalize_path_alloc: a stack of segments; ".." on an empty stack is dropped.

\* Mutants: an empty segment is kept; ".." never removes the first segment.
PushKeepsEmpty(stack, seg) ==
  IF seg = Dot THEN stack
  ELSE IF seg = DotDot THEN IF stack = <<>> THEN <<>> ELSE Front(stack)
  ELSE Append(stack, seg)

PushKeepsFirst(stack, seg) ==
  IF seg \in {Empty, Dot} THEN stack
  ELSE IF seg = DotDot THEN IF Len(stack) <= 1 THEN stack ELSE Front(stack)
  ELSE Append(stack, seg)

Push(stack, seg) ==
  IF seg \in {Empty, Dot} THEN stack
  ELSE IF seg = DotDot THEN IF stack = <<>> THEN <<>> ELSE Front(stack)
  ELSE Append(stack, seg)

\* The string that a stack is printed as.
Printed(stack) == IF stack = <<>> THEN Root ELSE stack

Stacked(path) ==
  LET stack[i \in 0..Len(path)] == IF i = 0 THEN <<>> ELSE Push(stack[i - 1], path[i])
  IN  stack[Len(path)]

NormalizePath(path) == Printed(Stacked(path))

----------------------------------------------------------------------------
\* find_best_mount: one pass over the list from its head, the newest mount. The
\* answer is an index into the sequence of mountpoints, 0 for NULL. The root mount
\* counts as length 1 and is taken only if nothing was found before it.

MpLen(mountpoint) == IF mountpoint = Root THEN 1 ELSE Len(mountpoint) + 1

\* Mutant: a later mount of equal length wins.
BetterOrEqual(path, mountpoints, best, i) ==
  IF mountpoints[i] = Root THEN IF best = 0 THEN i ELSE best
  ELSE IF /\ IsPrefix(mountpoints[i], path)
          /\ best = 0 \/ MpLen(mountpoints[i]) >= MpLen(mountpoints[best])
       THEN i
       ELSE best

Better(path, mountpoints, best, i) ==
  IF mountpoints[i] = Root THEN IF best = 0 THEN i ELSE best
  ELSE IF /\ IsPrefix(mountpoints[i], path)
          /\ best = 0 \/ MpLen(mountpoints[i]) > MpLen(mountpoints[best])
       THEN i
       ELSE best

FindBestMount(path, mountpoints) ==
  LET pass[i \in 0..Len(mountpoints)] ==
        IF i = 0 THEN 0 ELSE Better(path, mountpoints, pass[i - 1], i)
  IN  pass[Len(mountpoints)]

----------------------------------------------------------------------------
\* get_relpath_for_mount: what a backend is given. The path is not normalised.

\* Mutant: one segment too many is cut off.
RestTooShort(path, mountpoint) == SubSeq(path, Len(mountpoint) + 2, Len(path))

Rest(path, mountpoint) == SubSeq(path, Len(mountpoint) + 1, Len(path))

\* Mutant: the slash behind the mountpoint is not skipped.
SkipNothing(rel) == rel

\* rel is advanced past every slash in front.
SkipSlashes(rel) ==
  SubSeq(rel, SelectInSeq(Append(rel, Dot), LAMBDA seg : seg # Empty), Len(rel))

OrDot(rel) == IF rel = <<>> THEN <<Dot>> ELSE rel

\* Under the root mount only the leading slash goes, and "/" itself keeps it.
GetRelpath(path, mountpoint) ==
  IF mountpoint = Root
  THEN IF path = Root THEN <<Empty, Empty>> ELSE path
  ELSE OrDot(SkipSlashes(Rest(path, mountpoint)))

\* join_backend_path refuses such a path: it begins with a slash.
IsAbsolute(rel) == Len(rel) > 1 /\ rel[1] = Empty

----------------------------------------------------------------------------
\* vfs_resolve_path: the names to walk down from the mount's root dentry, for a
\* normalised path; none for the root path and for the mountpoint itself.

WalkNames(norm, mountpoint) ==
  IF norm = Root \/ norm = mountpoint THEN <<>>
  ELSE Names(IF mountpoint = Root THEN norm ELSE Rest(norm, mountpoint))
=============================================================================
