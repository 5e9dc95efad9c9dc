----------------------------- MODULE MCVfsCore -----------------------------
(***************************************************************************)
(* VfsCore with the sample tree's file, files in and outside one or two    *)
(* mountpoints, and few ids.                                               *)
(***************************************************************************)
EXTENDS VfsCore

M == <<"m">>
N == <<"n">>

OneMountpoint == {M}
RootAndOne == {Root, M}
TwoMountpoints == {M, N}

\* The sample tree's file with one file of the backend at /m; where no backend is mounted,
\* the backend's file becomes a directory of the root mount.
SampleAndOnePath == {<<"dir1", "dir2", "file">>, <<"m", "a">>}

\* Two files below /m, which one backend may have open at a time, and one outside it.
TwoInAndOneOut == {<<"m", "a">>, <<"m", "c">>, <<"b">>}

\* A file of each of two backends.
TwoBackendPaths == {<<"m", "a">>, <<"n", "b">>}
=============================================================================
