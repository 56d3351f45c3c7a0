------------------------------- MODULE XCheck -------------------------------
(***************************************************************************)
(* The file system checker xcheck.  An image has a superblock, inodes with *)
(* NDIRECT direct addresses and one indirect, blocks of directory entries  *)
(* and of addresses, and a bitmap.  Numbers in images are below 2^16:      *)
(* get_int_from_mem gives the upper two bytes of larger ones no weight of  *)
(* their own.  Arrays come zeroed, since nothing was freed before malloc.  *)
(* An access outside them, which an image can bring about, has no defined  *)
(* outcome: the verdict is "wild".                                         *)
(***************************************************************************)
EXTENDS Integers, Sequences, SequencesExt, FiniteSets, FiniteSetsExt

CONSTANTS
  NDIRECT,
  NBLOCKS,     \* 1000, the bits that check_bitmap looks at
  NSlots,      \* bound: entries of a directory, addresses of an inode
  Images       \* bound: the images to check

VARIABLES
  image,
  inuse_inode, inuse_block,
  at,          \* the phase of check and the inode it has come to
  verdict      \* "none" yet, "ok", "error": a message and exit(1), or "wild"

xvars == <<image, inuse_inode, inuse_block, at, verdict>>

T_UNLOCATED == 0
T_DIR == 1
T_FILE == 2
T_DEV == 3
Inum(im) == 0..im.ninodes - 1
Block(im) == 0..im.size - 1

\* construct_super_block and construct_inodes.
XInit ==
  /\ image \in Images
  /\ inuse_inode = [n \in Inum(image) |-> IF image.inodes[n].type = T_UNLOCATED THEN 0 ELSE 1]
  /\ inuse_block = [b \in Block(image) |-> 0]
  /\ at = <<"inodes", 0>> /\ verdict = "none"

End(v) == verdict' = v /\ UNCHANGED <<image, inuse_inode, inuse_block, at>>
Fail == End("error")
Wild == End("wild")
NextInode(phase, then) == at' = IF at[2] + 1 < image.ninodes THEN <<phase, at[2] + 1>> ELSE <<then, 0>>

-----------------------------------------------------------------------------
check_inode_type(ino) == ino.type \in {T_UNLOCATED, T_DIR, T_FILE, T_DEV}
check_inode_data_blocks(ino) == \A k \in 1..NDIRECT + 1 : ino.addrs[k] <= image.size

\* The entries check_dir looks at: up to the first free one or the first address of 0.
Until(seq, Stops) == SubSeq(seq, 1, Min(Stops \cup {Len(seq) + 1}) - 1)
\* Block number size, which check_inode_data_blocks lets pass, lies behind the image.
Outside == [name |-> "", inum |-> -1]
Slots(addrs) == FlattenSeq([k \in DOMAIN addrs |-> IF addrs[k] \in Block(image) THEN image.entries[addrs[k]]
                                                                             ELSE <<Outside>>])
Entries(ino) ==
  LET direct == SubSeq(ino.addrs, 1, NDIRECT)
      slots == Slots(Until(direct, {k \in DOMAIN direct : direct[k] = 0}))
  IN  Until(slots, {k \in DOMAIN slots : slots[k].inum = 0})

\* An entry of directory n is well formed; what the entries of n add to the count of inode m.
GoodEntry(n, e) == /\ e.name = "." => e.inum = n
                   /\ e.name = ".." /\ n = 1 => e.inum = 1
Refs(n, m) == Cardinality({k \in DOMAIN Entries(image.inodes[n]) :
                /\ Entries(image.inodes[n])[k].inum = m
                /\ Entries(image.inodes[n])[k].name \notin {".", ".."}})
check_dir(n) ==
  LET es == Entries(image.inodes[n])
      bad == {k \in DOMAIN es : es[k].inum \notin Inum(image) \/ ~GoodEntry(n, es[k])}
  IN  IF bad # {} THEN IF es[Min(bad)].inum \in Inum(image) THEN Fail ELSE Wild
      ELSE /\ inuse_inode' = [m \in Inum(image) |-> inuse_inode[m] + Refs(n, m) - IF m = n /\ n # 1 THEN 1 ELSE 0]
           /\ NextInode("inodes", "counts")
           /\ UNCHANGED <<image, inuse_block, verdict>>

\* The first loop of check_inodes, one inode.
check_inode_uncounted(n) ==
  /\ at = <<"inodes", n>> /\ verdict = "none"
  /\ IF ~check_inode_type(image.inodes[n]) \/ ~check_inode_data_blocks(image.inodes[n]) THEN Fail
     ELSE IF image.inodes[n].type = T_DIR THEN check_dir(n)
     ELSE NextInode("inodes", "counts") /\ UNCHANGED <<image, inuse_inode, inuse_block, verdict>>
check_inode(n) ==
  /\ at = <<"inodes", n>> /\ verdict = "none"
  /\ LET ino == image.inodes[n] IN
     IF ~check_inode_type(ino) \/ ~check_inode_data_blocks(ino) THEN Fail
     ELSE IF ino.type = T_DIR THEN check_dir(n)
     ELSE /\ inuse_inode' = [inuse_inode EXCEPT ![n] = IF ino.type = T_UNLOCATED THEN @ ELSE @ - 1]
          /\ NextInode("inodes", "counts")
          /\ UNCHANGED <<image, inuse_block, verdict>>

\* The second loop.
check_counts ==
  /\ at[1] = "counts" /\ verdict = "none"
  /\ IF \A n \in Inum(image) : IF image.inodes[n].type = T_UNLOCATED THEN inuse_inode[n] <= 0
                                                                   ELSE inuse_inode[n] = 1
       THEN /\ at' = <<"mark", 0>>
            /\ inuse_block' = [b \in Block(image) |-> IF b <= image.bmapstart THEN 1 ELSE 0]
            /\ UNCHANGED <<image, inuse_inode, verdict>>
       ELSE Fail

-----------------------------------------------------------------------------
\* The addresses of inode n in the order mark_add meets them, those in its indirect block last.
Addrs(n) ==
  LET a == image.inodes[n].addrs IN
  SelectSeq(a \o (IF a[NDIRECT + 1] = 0 THEN <<>> ELSE image.addresses[a[NDIRECT + 1]]), LAMBDA x : x # 0)
Times(n, b) == Cardinality({k \in DOMAIN Addrs(n) : Addrs(n)[k] = b})

\* mark_add for one inode, up to the first address that was met before, which is an error,
\* or that has no entry in inuse_block.
mark_add(n) ==
  /\ at = <<"mark", n>> /\ verdict = "none"
  /\ LET a == Addrs(n)
         bad == {k \in DOMAIN a : \/ a[k] \notin Block(image)
                                  \/ inuse_block[a[k]] + Cardinality({j \in 1..k : a[j] = a[k]}) > 1}
     IN  IF bad # {} THEN IF a[Min(bad)] \in Block(image) THEN Fail ELSE Wild
         ELSE /\ inuse_block' = [b \in Block(image) |-> inuse_block[b] + Times(n, b)]
              /\ NextInode("mark", "bitmap")
              /\ UNCHANGED <<image, inuse_inode, verdict>>

\* The loop has NBLOCKS turns, whatever the size of the image: behind a smaller one it reads
\* past inuse_block, and of a larger one it leaves the rest.
check_bitmap ==
  /\ at[1] = "bitmap" /\ verdict = "none"
  /\ IF \E b \in Block(image) \cap 0..NBLOCKS - 1 : (b \in image.bitmap) # (inuse_block[b] # 0) THEN Fail
     ELSE IF image.size < NBLOCKS THEN Wild
     ELSE End("ok")

XNext == (\E n \in Inum(image) : check_inode(n) \/ mark_add(n)) \/ check_counts \/ check_bitmap

-----------------------------------------------------------------------------
(***************************************************************************)
(* What a consistent image is, said of the image alone.                    *)
(***************************************************************************)
Dirs == {n \in Inum(image) : image.inodes[n].type = T_DIR}
\* All entries of a directory that are not free, those in the blocks of its indirect block
\* included.
Live(n) ==
  LET a == image.inodes[n].addrs
      all == SubSeq(a, 1, NDIRECT) \o (IF a[NDIRECT + 1] = 0 THEN <<>> ELSE image.addresses[a[NDIRECT + 1]])
  IN  SelectSeq(Slots(SelectSeq(all, LAMBDA x : x # 0)), LAMBDA e : e.inum # 0)
Names(m) == {<<n, k>> \in Dirs \X (1..NSlots) : /\ k \in DOMAIN Live(n) /\ Live(n)[k].inum = m
                                              /\ Live(n)[k].name \notin {".", ".."}}
Pointers == {<<n, k>> \in Inum(image) \X (1..NSlots) : k \in DOMAIN Addrs(n)}

InRange ==
  /\ \A n \in Inum(image) : check_inode_data_blocks(image.inodes[n])
  /\ \A p \in Pointers : Addrs(p[1])[p[2]] \in Block(image)
  /\ \A n \in Dirs : \A k \in DOMAIN Live(n) : Live(n)[k].inum \in Inum(image)

Consistent ==
  /\ InRange
  /\ \A n \in Inum(image) : check_inode_type(image.inodes[n])
  /\ \A n \in Dirs : \A k \in DOMAIN Live(n) : GoodEntry(n, Live(n)[k])
  /\ \A n \in Inum(image) :
       Cardinality(Names(n)) = IF n = 1 \/ image.inodes[n].type = T_UNLOCATED THEN 0 ELSE 1
  /\ \A p, q \in Pointers : Addrs(p[1])[p[2]] = Addrs(q[1])[q[2]] => p = q
  /\ \A p \in Pointers : Addrs(p[1])[p[2]] > image.bmapstart
  /\ image.bitmap = 0..image.bmapstart \cup {Addrs(p[1])[p[2]] : p \in Pointers}

\* xcheck accepts an image if and only if it is consistent: every number is in range, every inode
\* in use is named by one entry, no block has two owners, and the bitmap marks the blocks in use
\* and no others.  Said of images of at most NBLOCKS blocks (it accepts larger ones whatever
\* their further bits are), and of directories that check_dir sees whole: it stops at the first
\* free entry and leaves out indirect blocks.  It leaves its arrays on images that are out of
\* range or have fewer than NBLOCKS blocks only.
XCheckExact ==
  LET whole == \A n \in Dirs : check_inode_data_blocks(image.inodes[n]) => Entries(image.inodes[n]) = Live(n)
  IN  /\ verdict = "error" /\ whole => ~Consistent
      /\ verdict = "ok" /\ whole /\ image.size <= NBLOCKS => Consistent
      /\ verdict = "wild" => image.size < NBLOCKS \/ ~InRange
=============================================================================
