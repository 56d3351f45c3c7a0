------------------------------ MODULE FileData ------------------------------
(***************************************************************************)
(* File content on the disk: balloc, bfree, bmap, itrunc, readi, writei    *)
(* (fs.c) and the splitting of a write into transactions (filewrite in     *)
(* file.c), for several files that share the free blocks.                  *)
(*                                                                         *)
(* A writer is a process in write() on an open file of its own.  ilock lets*)
(* one writer at a time into a file for the length of one transaction;     *)
(* writers of different files interleave turn by turn of writei's loop.    *)
(* A block is bytes, or the block numbers of an indirect block.            *)
(***************************************************************************)
EXTENDS Naturals, Sequences, FiniteSets, FiniteSetsExt

CONSTANTS
  File, Writer,
  Data,          \* block numbers of the data area
  Byte,          \* the bytes programs write; 0 is what bzero leaves
  NDIRECT, NINDIRECT, BSIZE, MAXOPBLOCKS,
  Workloads,     \* records: data, the blocks this disk has; the writers, the files and the
                 \* bytes they write; maxn, bound on the bytes of one write
  Root,          \* a file that mkfs made (the root directory)
  RootBytes      \* what mkfs appended to it before it fixed its size

MAXFILE == NDIRECT + NINDIRECT
\* The bytes filewrite puts in one transaction.
MaxChunk_all == MAXOPBLOCKS * BSIZE
MaxChunk == ((MAXOPBLOCKS - 1 - 1 - 2) \div 2) * BSIZE

\* The root directory of the image ends inside a block, as the one that the Makefile's list
\* of programs makes does: from the end of a block mkfs would round its size up by a block that
\* it does not have.
ASSUME RootAssumption == Root \in File /\ RootBytes % BSIZE # 0

ASSUME FileDataAssumption ==
  /\ NDIRECT \in Nat \ {0} /\ NINDIRECT \in Nat /\ BSIZE \in Nat \ {0}
  /\ MAXOPBLOCKS \in Nat /\ RootBytes \in Nat
  /\ Data \subseteq Nat \ {0} /\ MaxChunk > 0
  /\ \A l \in Workloads : /\ l.data \subseteq Data /\ l.writers \subseteq Writer /\ l.files \subseteq File
                         /\ l.bytes \subseteq Byte /\ l.maxn \in Nat

VARIABLES
  addrs, size,   \* the inodes in memory
  daddrs, dsize, \* and as iupdate last wrote them
  bytes, ind,    \* contents of blocks, as data and as an indirect block
  inuse,         \* the bit map
  w,             \* each writer's write()
  spec,          \* what writers wrote, by definition
  load           \* the workload of this behaviour

inode == <<addrs, size, daddrs, dsize>>
vars == <<addrs, size, daddrs, dsize, bytes, ind, inuse, w, spec, load>>

NoWrite == [pc |-> "idle", file |-> Root, off |-> 0, left |-> 0, tot |-> 0, logged |-> {}]
Bitmap == Max(Data) + 1   \* the blocks of the bit map and of the inodes, for logged
Inodes == Max(Data) + 2

\* mkfs appends to Root (here, to direct blocks only) and then rounds its size up: to the end of
\* the block it is in or, from the end of a block, by a whole one.
mkfsSize == ((RootBytes \div BSIZE) + 1) * BSIZE
mkfsBlocks == (RootBytes + BSIZE - 1) \div BSIZE
Init ==
  LET root == [k \in 0..NDIRECT |-> IF k < mkfsBlocks THEN Min(Data) + k ELSE 0] IN
  /\ load \in Workloads
  /\ mkfsBlocks <= NDIRECT
  /\ addrs = [i \in File |-> IF i = Root THEN root ELSE [k \in 0..NDIRECT |-> 0]]
  /\ size = [i \in File |-> IF i = Root THEN mkfsSize ELSE 0]
  /\ daddrs = addrs /\ dsize = size
  /\ bytes = [b \in Data |-> [k \in 0..BSIZE - 1 |-> 0]]
  /\ ind = [b \in Data |-> [k \in 0..NINDIRECT - 1 |-> 0]]
  /\ inuse = {root[k] : k \in 0..NDIRECT} \ {0}
  /\ w = [p \in Writer |-> NoWrite]
  /\ spec = [i \in File |-> [k \in 1..size[i] |-> 0]]

-----------------------------------------------------------------------------
(***************************************************************************)
(* Blocks.                                                                 *)
(***************************************************************************)
bzero(n, old) == [k \in 0..n - 1 |-> 0]

\* The first free block; balloc panics when there is none, which ends the behaviour.
balloc(used) == Min(load.data \ used)
Mark(used, b) == used \cup {b}

\* What bmap(ip, bn) does: the block, the inode's addresses, the indirect blocks and the bit map
\* after it, and the blocks it allocated and handed to log_write.
direct(i, bn) ==
  LET new == addrs[i][bn] = 0
      b   == IF new THEN balloc(inuse) ELSE addrs[i][bn]
  IN [b |-> b, addrs |-> [addrs[i] EXCEPT ![bn] = b], ind |-> ind,
      inuse |-> IF new THEN Mark(inuse, b) ELSE inuse,
      new |-> IF new THEN {b} ELSE {}, log |-> IF new THEN {Bitmap, b} ELSE {}]
indirect(i, bn) ==
  LET newT  == addrs[i][NDIRECT] = 0
      t     == IF newT THEN balloc(inuse) ELSE addrs[i][NDIRECT]
      inuse1 == IF newT THEN Mark(inuse, t) ELSE inuse
      a     == IF newT THEN bzero(NINDIRECT, ind[t]) ELSE ind[t]
      new   == a[bn] = 0
      b     == IF new THEN balloc(inuse1) ELSE a[bn]
  IN [b |-> b, addrs |-> [addrs[i] EXCEPT ![NDIRECT] = t],
      ind |-> [ind EXCEPT ![t] = [a EXCEPT ![bn] = b]],
      inuse |-> IF new THEN Mark(inuse1, b) ELSE inuse1,
      new |-> (IF newT THEN {t} ELSE {}) \cup (IF new THEN {b} ELSE {}),
      log |-> (IF newT THEN {Bitmap, t} ELSE {}) \cup (IF new THEN {Bitmap, b, t} ELSE {})]
bmap(i, bn) == IF bn < NDIRECT THEN direct(i, bn) ELSE indirect(i, bn - NDIRECT)

\* The block that bmap finds, 0 where it has to allocate.
BlockOf(i, bn) == IF bn < NDIRECT THEN addrs[i][bn]
                  ELSE IF addrs[i][NDIRECT] = 0 THEN 0
                  ELSE ind[addrs[i][NDIRECT]][bn - NDIRECT]
Needed(i, bn) == IF BlockOf(i, bn) # 0 THEN 0
                 ELSE IF bn >= NDIRECT /\ addrs[i][NDIRECT] = 0 THEN 2 ELSE 1

\* The blocks of a file, the indirect one included.
Blocks(i) == ({addrs[i][k] : k \in 0..NDIRECT} \cup
              (IF addrs[i][NDIRECT] = 0 THEN {}
               ELSE {ind[addrs[i][NDIRECT]][k] : k \in 0..NINDIRECT - 1})) \ {0}

-----------------------------------------------------------------------------
(***************************************************************************)
(* Writing.                                                                *)
(***************************************************************************)
Locked(i) == \E p \in Writer : w[p].pc = "turn" /\ w[p].file = i

\* write() of n bytes to i, at the offset that the open file has reached.
filewrite(p, i, off, n) ==
  /\ w[p].pc = "idle"
  /\ w' = [w EXCEPT ![p] = [NoWrite EXCEPT !.pc = "chunk", !.file = i, !.off = off, !.left = n]]
  /\ UNCHANGED <<inode, bytes, ind, inuse, spec>>

n1(p) == Min({w[p].left, MaxChunk})

\* A turn of filewrite's loop: begin_op, ilock and writei's checks; -1 ends the loop.
Chunk(p) ==
  LET i == w[p].file IN
  /\ w[p].pc = "chunk" /\ w[p].left > 0 /\ ~Locked(i)
  /\ w' = [w EXCEPT ![p] = IF @.off > size[i] \/ @.off + n1(p) > MAXFILE * BSIZE
                             THEN NoWrite
                             ELSE [@ EXCEPT !.pc = "turn", !.tot = 0, !.logged = {}]]
  /\ UNCHANGED <<inode, bytes, ind, inuse, spec>>
Written(p) ==
  /\ w[p].pc = "chunk" /\ w[p].left = 0
  /\ w' = [w EXCEPT ![p] = NoWrite]
  /\ UNCHANGED <<inode, bytes, ind, inuse, spec>>

\* What writing the byte v n times at off makes of the content c.
Overwrite(c, off, n, v) ==
  [k \in 1..Max({Len(c), off + n}) |-> IF k > off /\ k <= off + n THEN v ELSE c[k]]

\* A turn of writei's loop, to the end of the block at most; the bytes of one turn are equal.
mm(p) == Min({n1(p) - w[p].tot, BSIZE - (w[p].off % BSIZE)})
Copy_start(old, o, n, v) == [k \in 0..BSIZE - 1 |-> IF k < n THEN v ELSE old[k]]
Copy(old, o, n, v) == [k \in 0..BSIZE - 1 |-> IF k >= o /\ k < o + n THEN v ELSE old[k]]
writei(p, v) ==
  LET i == w[p].file
      bn == w[p].off \div BSIZE
      r == bmap(i, bn)
  IN
  /\ w[p].pc = "turn" /\ w[p].tot < n1(p)
  /\ Needed(i, bn) <= Cardinality(load.data \ inuse)
  /\ addrs' = [addrs EXCEPT ![i] = r.addrs]
  /\ ind' = r.ind /\ inuse' = r.inuse
  /\ bytes' = [bytes EXCEPT ![r.b] = Copy(IF r.b \in r.new THEN bzero(BSIZE, @) ELSE @,
                                          w[p].off % BSIZE, mm(p), v)]
  /\ spec' = [spec EXCEPT ![i] = Overwrite(@, w[p].off, mm(p), v)]
  /\ w' = [w EXCEPT ![p].off = @ + mm(p), ![p].tot = @ + mm(p),
                     ![p].logged = @ \cup r.log \cup {r.b}]
  /\ UNCHANGED <<size, daddrs, dsize>>

\* The end of writei: iupdate if the file grew; then iunlock and end_op.
Grew_block(p, i) == w[p].off > size[i] /\ w[p].off % BSIZE = 0
Grew(p, i) == w[p].off > size[i]
EndChunk(p) ==
  LET i == w[p].file IN
  /\ w[p].pc = "turn" /\ w[p].tot = n1(p)
  /\ size' = [size EXCEPT ![i] = Max({@, w[p].off})]
  /\ daddrs' = IF Grew(p, i) THEN [daddrs EXCEPT ![i] = addrs[i]] ELSE daddrs
  /\ dsize' = IF Grew(p, i) THEN [dsize EXCEPT ![i] = w[p].off] ELSE dsize
  /\ w' = [w EXCEPT ![p].pc = "chunk", ![p].left = @ - w[p].tot, ![p].tot = 0,
                     ![p].logged = IF Grew(p, i) THEN @ \cup {Inodes} ELSE @]
  /\ UNCHANGED <<addrs, bytes, ind, inuse, spec>>

\* itrunc, called when the file has neither a name nor a reference left.
Freed_direct(i) == {addrs[i][k] : k \in 0..NDIRECT}
Freed(i) == Blocks(i)
itrunc(i) ==
  /\ size[i] > 0 /\ \A p \in Writer : w[p].pc = "idle" \/ w[p].file # i
  /\ inuse' = inuse \ Freed(i)
  /\ addrs' = [addrs EXCEPT ![i] = [k \in 0..NDIRECT |-> 0]]
  /\ daddrs' = [daddrs EXCEPT ![i] = addrs'[i]]
  /\ size' = [size EXCEPT ![i] = 0] /\ dsize' = [dsize EXCEPT ![i] = 0]
  /\ spec' = [spec EXCEPT ![i] = <<>>]
  /\ UNCHANGED <<bytes, ind, w>>

Next ==
  /\ \/ \E p \in load.writers, i \in load.files : \E off \in 0..size[i], n \in 1..load.maxn :
          filewrite(p, i, off, n)
     \/ \E p \in load.writers : Chunk(p) \/ Written(p) \/ EndChunk(p)
     \/ \E p \in load.writers, v \in load.bytes : writei(p, v)
     \/ \E i \in load.files : itrunc(i)
  /\ UNCHANGED load

Spec == Init /\ [][Next]_vars

-----------------------------------------------------------------------------
(***************************************************************************)
(* Properties.                                                             *)
(***************************************************************************)
\* Every field has its type; no write goes past its end or the largest file.
TypeOK ==
  /\ addrs \in [File -> [0..NDIRECT -> Data \cup {0}]] /\ size \in [File -> 0..MAXFILE * BSIZE]
  /\ daddrs \in [File -> [0..NDIRECT -> Data \cup {0}]] /\ dsize \in [File -> 0..MAXFILE * BSIZE]
  /\ bytes \in [Data -> [0..BSIZE - 1 -> Byte \cup {0}]]
  /\ ind \in [Data -> [0..NINDIRECT - 1 -> Data \cup {0}]]
  /\ inuse \subseteq Data
  /\ \A p \in Writer : w[p].left \in 0..load.maxn /\ w[p].tot <= n1(p) /\ w[p].off <= MAXFILE * BSIZE

\* What readi(ip, dst, off, n) copies to dst, for off <= ip->size.
readi(i, off, n) ==
  LET cut == Min({n, size[i] - off})
      rest[t \in 0..cut] ==
        IF t = cut THEN <<>>
        ELSE LET o == (off + t) % BSIZE
                 k == Min({cut - t, BSIZE - o})
                 b == BlockOf(i, (off + t) \div BSIZE)
             IN [x \in 1..k |-> bytes[b][o + x - 1]] \o rest[t + k]
  IN rest[0]

\* A read of any part of a file that is not being written returns what writers wrote there
\* last, however the writes were cut into transactions and blocks, and whatever was freed and
\* allocated again meanwhile: no byte comes from another file or from an earlier use of a block.
ReadsWhatWasWritten ==
  \A i \in File : ~Locked(i) =>
    /\ Len(spec[i]) = size[i]
    /\ \A off \in 0..size[i], n \in 1..BSIZE + 1 :
         readi(i, off, n) = SubSeq(spec[i], off + 1, Min({off + n, size[i]}))

\* The bit map is exact: the blocks in use are those of the files, and no block serves twice, in
\* two files or in two places of one.  bfree's panic "freeing free block" cannot happen.
Uses(i, b) == Cardinality({k \in 0..NDIRECT : addrs[i][k] = b}) +
              (IF addrs[i][NDIRECT] = 0 THEN 0
               ELSE Cardinality({k \in 0..NINDIRECT - 1 : ind[addrs[i][NDIRECT]][k] = b}))
BitmapExact ==
  \A b \in Data : MapThenSumSet(LAMBDA i : Uses(i, b), File) = IF b \in inuse THEN 1 ELSE 0

\* The inode on disk is the one in memory once a transaction is over: the blocks that bmap put
\* into ip->addrs are never lost, although only writei's last lines call iupdate.
InodeWritten == \A i \in File : ~Locked(i) => daddrs[i] = addrs[i] /\ dsize[i] = size[i]

\* fileread runs outside of transactions, so a read may not allocate: every block of a file
\* below its size is there (log_write panics "log_write outside of trans").
NoHoles == \A i \in File : \A k \in 0..size[i] - 1 : BlockOf(i, k \div BSIZE) # 0

\* What holds of blocks at all times.
BlocksInv == TypeOK /\ BitmapExact /\ NoHoles

\* One transaction of filewrite hands fewer blocks to log_write than begin_op reserved for it,
\* as log.c needs (BudgetFits in module Log), in spite of writes that begin inside a block.
FitsTransaction == \A p \in Writer : Cardinality(w[p].logged) < MAXOPBLOCKS
=============================================================================
