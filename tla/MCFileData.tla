----------------------------- MODULE MCFileData -----------------------------
(***************************************************************************)
(* Instances of FileData.  Blocks of two bytes, one direct block and three *)
(* indirect ones put every boundary within reach of short writes.          *)
(***************************************************************************)
EXTENDS FileData, TLC

Load(data, writers, files, vals, maxn) ==
  [data |-> data, writers |-> writers, files |-> files, bytes |-> vals, maxn |-> maxn]

\* One writer of two files on a disk of three blocks, where contents matter; two writers at
\* once, where they do not; one large file.
Contents == {Load({5, 6, 7}, {p}, {1, 2}, {1, 2}, 3) : p \in Writer}
Sharing == {Load({5, 6, 7}, Writer, {1, 2}, {0}, 2)}
Large == {Load({5, 6, 7, 8, 9}, {p}, {1}, {0}, 8) : p \in Writer}
Loads == Contents \cup Sharing \cup Large
Symmetry == Permutations(Writer)
=============================================================================
