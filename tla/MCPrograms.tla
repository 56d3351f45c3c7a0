----------------------------- MODULE MCPrograms -----------------------------
(* The programs outside the kernel, for model checking: one run executes one of them. *)
EXTENDS Malloc, Zip, XCheck

VARIABLE program

Texts(lo, hi) == UNION {[1..n -> Char] : n \in lo..hi}
FileLists == {<<f>> : f \in Texts(1, 6)} \cup {<<f, g>> : f, g \in Texts(2, 3)}

\* Images with the root at inode 1, in block 2, and one more inode.
Entry(n, m) == [name |-> m, inum |-> n]
RootDirs == {<<Entry(1, "."), Entry(1, "..")>> \o r :
               r \in {<<>>, <<Entry(2, "a")>>, <<Entry(2, "a"), Entry(2, "b")>>, <<Entry(1, "a")>>, <<Entry(3, "a")>>,
                      <<Entry(0, ""), Entry(2, "b")>>}}
            \cup {<<Entry(2, "."), Entry(2, "..")>>, <<Entry(1, "."), Entry(2, "..")>>}
SubDirs == {<<Entry(2, "."), Entry(1, "..")>>, <<Entry(1, ".")>>, <<Entry(2, "."), Entry(2, "x")>>}
Inode(t, a) == [type |-> t, addrs |-> a]
\* The addresses of that inode, the entries its block 3 holds as a directory, and, when block 4 is
\* its indirect block, the addresses there and the entry in the block they may lead to.
Layouts ==
  {[addrs |-> a, sub |-> d, ind |-> <<0, 0>>, far |-> Entry(0, "")] : d \in SubDirs,
     a \in {<<0, 0>>, <<3, 0>>, <<2, 0>>, <<7, 0>>, <<1, 0>>, <<6, 0>>, <<3, 6>>}}
  \cup {[addrs |-> <<3, 4>>, sub |-> d, ind |-> i, far |-> e] : d \in SubDirs,
           i \in {<<0, 0>>, <<0, 5>>, <<3, 0>>, <<0, 7>>}, e \in {Entry(0, ""), Entry(2, "z")}}
ImagesOf(size, types, roots) ==
  {[size |-> size, ninodes |-> 3, bmapstart |-> 1, bitmap |-> {0, 1} \cup bits,
    inodes |-> (0 :> Inode(0, <<0, 0>>)) @@ (1 :> Inode(1, <<2, 0>>)) @@ (2 :> Inode(t, l.addrs)),
    entries |-> (2 :> root) @@ (3 :> l.sub) @@ (5 :> <<l.far>>) @@ [b \in 0..7 |-> <<Entry(0, "")>>],
    addresses |-> (4 :> l.ind) @@ [b \in 0..7 |-> <<0, 0>>]] :
   bits \in SUBSET (2..5), t \in types, l \in Layouts, root \in roots}

\* Of NBLOCKS blocks, and of one less and one more.
AllImages ==
  ImagesOf(NBLOCKS, 0..4, RootDirs)
  \cup UNION {ImagesOf(n, {T_FILE}, {<<Entry(1, "."), Entry(1, ".."), Entry(2, "a")>>}) :
               n \in {NBLOCKS - 1, NBLOCKS + 1}}

\* The variables of a program that this run does not execute.
NoZip == files = <<>> /\ fileno = 1 /\ parts = <<>> /\ old = <<>> /\ out = <<>>
NoXCheck == image = <<>> /\ inuse_inode = <<>> /\ inuse_block = <<>> /\ at = <<>> /\ verdict = "none"

Init ==
  \/ /\ program = "malloc" /\ MallocInit
     /\ NoZip /\ NoXCheck
  \/ /\ program = "pzip" /\ ZipInit
     /\ MallocInit /\ NoXCheck
  \/ /\ program = "xcheck" /\ XInit
     /\ MallocInit /\ NoZip

Next ==
  \/ program = "malloc" /\ MallocNext /\ UNCHANGED <<zvars, xvars, program>>
  \/ program = "pzip" /\ ZipNext /\ UNCHANGED <<mvars, xvars, program>>
  \/ program = "xcheck" /\ XNext /\ UNCHANGED <<mvars, zvars, program>>

Spec == Init /\ [][Next]_<<mvars, zvars, xvars, program>>
=============================================================================
