------------------------------- MODULE Bcache -------------------------------
(***************************************************************************)
(* The buffer cache (bio.c) on top of the disk driver (ide.c).             *)
(*                                                                         *)
(* A client is one use of a buffer, from bread to brelse; a process that   *)
(* holds two buffers at once (bmap with balloc, write_log) is two clients. *)
(* bcache.lock and idelock are held within a step: one step is what the    *)
(* code does between acquire and release.  Taking the buffer's sleep lock  *)
(* is a step that waits (module SleepLock).  Between the steps other       *)
(* clients and the disk interrupt come in.                                 *)
(***************************************************************************)
EXTENDS Naturals, Sequences, FiniteSets, SequencesExt

CONSTANTS
  Client, Block, Buf, Value,
  Zero,         \* the content buffers start with, and the disk in this model
  LRU,          \* the buffers in the order binit puts them, most recent first
  MaxPinned,    \* bound: buffers that log_write may leave dirty at a time
  ReadErrors,   \* whether the disk may fail a read
  None

ASSUME BcacheAssumption ==
  /\ None \notin Client /\ None \notin Block /\ None \notin Buf
  /\ LRU \in Seq(Buf) /\ Zero \in Value
  /\ MaxPinned \in Nat /\ ReadErrors \in BOOLEAN

VARIABLES
  blockno, valid, dirty, refcnt, data,   \* struct buf
  holder,                                \* the client that holds b->lock
  lru,                                   \* the list through bcache.head.next
  idequeue,
  cmd,                                   \* what idestart last told the disk to do
  disk,                                  \* the blocks on the disk
  pc, cur,                               \* where each client is, with which buffer
  changed                                \* it has changed the data since the last bwrite or log_write

vars == <<blockno, valid, dirty, refcnt, data, holder, lru, idequeue, cmd, disk, pc, cur, changed>>

Init ==
  /\ blockno = [b \in Buf |-> None]
  /\ valid = [b \in Buf |-> FALSE] /\ dirty = [b \in Buf |-> FALSE]
  /\ refcnt = [b \in Buf |-> 0]
  /\ data = [b \in Buf |-> Zero]
  /\ holder = [b \in Buf |-> None]
  /\ lru = LRU
  /\ idequeue = <<>> /\ cmd = None
  /\ disk = [k \in Block |-> Zero]
  /\ pc = [c \in Client |-> "idle"] /\ cur = [c \in Client |-> None]
  /\ changed = [c \in Client |-> FALSE]

-----------------------------------------------------------------------------
Goto(c, l) == pc' = [pc EXCEPT ![c] = l]

\* The buffer bget recycles: the least recently used one that nobody refers to and
\* that the log has not left dirty.
Free(b) == refcnt[b] = 0 /\ ~dirty[b]
LastFree == lru[CHOOSE i \in DOMAIN lru :
                  /\ Free(lru[i])
                  /\ \A j \in DOMAIN lru : Free(lru[j]) => j <= i]

\* bget up to release(&bcache.lock); acquiresleep comes next.
Hit(c, k) ==
  /\ pc[c] = "idle"
  /\ \E b \in Buf :
       /\ blockno[b] = k
       /\ refcnt' = [refcnt EXCEPT ![b] = @ + 1]
       /\ cur' = [cur EXCEPT ![c] = b]
  /\ Goto(c, "lock")
  /\ UNCHANGED <<blockno, valid, dirty, data, holder, lru, idequeue, cmd, disk, changed>>

Recycle_keeps_valid(c, k) ==
  /\ pc[c] = "idle"
  /\ \A b \in Buf : blockno[b] # k
  /\ \E b \in Buf : Free(b)
  /\ blockno' = [blockno EXCEPT ![LastFree] = k]
  /\ refcnt' = [refcnt EXCEPT ![LastFree] = 1]
  /\ cur' = [cur EXCEPT ![c] = LastFree]
  /\ Goto(c, "lock")
  /\ UNCHANGED <<valid, dirty, data, holder, lru, idequeue, cmd, disk, changed>>
Recycle(c, k) ==
  /\ pc[c] = "idle"
  /\ \A b \in Buf : blockno[b] # k
  /\ \E b \in Buf : Free(b)
  /\ blockno' = [blockno EXCEPT ![LastFree] = k]
  /\ valid' = [valid EXCEPT ![LastFree] = FALSE]
  /\ refcnt' = [refcnt EXCEPT ![LastFree] = 1]
  /\ cur' = [cur EXCEPT ![c] = LastFree]
  /\ Goto(c, "lock")
  /\ UNCHANGED <<dirty, data, holder, lru, idequeue, cmd, disk, changed>>

\* With no free buffer bget panics; NoPanic says that it finds one.
bget(c, k) == Hit(c, k) \/ Recycle(c, k)

\* acquiresleep(&b->lock), and the test of B_VALID in bread.
bread(c) ==
  /\ pc[c] = "lock" /\ holder[cur[c]] = None
  /\ holder' = [holder EXCEPT ![cur[c]] = c]
  /\ Goto(c, IF valid[cur[c]] THEN "use" ELSE "rw")
  /\ UNCHANGED <<blockno, valid, dirty, refcnt, data, lru, idequeue, cmd, disk, cur, changed>>

-----------------------------------------------------------------------------
(***************************************************************************)
(* ide.c.                                                                  *)
(***************************************************************************)
\* What idestart tells the disk for buffer b; a write takes the data along.
idestart(b) == [buf |-> b, write |-> dirty[b], block |-> blockno[b], data |-> data[b]]

\* iderw up to its loop: append b, start the disk if it has nothing to do.
iderw_silent(c) ==
  /\ pc[c] = "rw"
  /\ idequeue' = Append(idequeue, cur[c])
  /\ cmd' = IF idequeue = <<>> /\ dirty[cur[c]] THEN idestart(cur[c]) ELSE cmd
  /\ Goto(c, "wait")
  /\ UNCHANGED <<blockno, valid, dirty, refcnt, data, holder, lru, disk, cur, changed>>
iderw(c) ==
  /\ pc[c] = "rw"
  /\ idequeue' = Append(idequeue, cur[c])
  /\ cmd' = IF idequeue = <<>> THEN idestart(cur[c]) ELSE cmd
  /\ Goto(c, "wait")
  /\ UNCHANGED <<blockno, valid, dirty, refcnt, data, holder, lru, disk, cur, changed>>

\* The loop of iderw.
Wait(c) ==
  /\ pc[c] = "wait" /\ ~(valid[cur[c]] /\ ~dirty[cur[c]])
  /\ Goto(c, "asleep")
  /\ UNCHANGED <<blockno, valid, dirty, refcnt, data, holder, lru, idequeue, cmd, disk, cur, changed>>
Synced(c) ==
  /\ pc[c] = "wait" /\ valid[cur[c]] /\ ~dirty[cur[c]]
  /\ Goto(c, "use")
  /\ UNCHANGED <<blockno, valid, dirty, refcnt, data, holder, lru, idequeue, cmd, disk, cur, changed>>

\* The disk carries out cmd and interrupts.  A write is on the disk by then; after a
\* read that failed the buffer keeps what it held.
Transfer(b, ok) ==
  /\ disk' = IF cmd.write THEN [disk EXCEPT ![cmd.block] = cmd.data] ELSE disk
  /\ data' = IF ~dirty[b] /\ ok THEN [data EXCEPT ![b] = disk[blockno[b]]] ELSE data
ideintr_keeps_head(ok) ==
  /\ cmd # None /\ idequeue # <<>>
  /\ Transfer(Head(idequeue), ok)
  /\ valid' = [valid EXCEPT ![Head(idequeue)] = TRUE]
  /\ dirty' = [dirty EXCEPT ![Head(idequeue)] = FALSE]
  /\ pc' = [c \in Client |-> IF pc[c] = "asleep" /\ cur[c] = Head(idequeue) THEN "wait" ELSE pc[c]]
  /\ UNCHANGED <<blockno, refcnt, holder, lru, idequeue, cmd, cur, changed>>
ideintr(ok) ==
  /\ cmd # None /\ idequeue # <<>>
  /\ idequeue' = Tail(idequeue)
  /\ Transfer(Head(idequeue), ok)
  /\ valid' = [valid EXCEPT ![Head(idequeue)] = TRUE]
  /\ dirty' = [dirty EXCEPT ![Head(idequeue)] = FALSE]
  /\ pc' = [c \in Client |-> IF pc[c] = "asleep" /\ cur[c] = Head(idequeue) THEN "wait" ELSE pc[c]]
  /\ cmd' = IF idequeue' # <<>> THEN idestart(Head(idequeue')) ELSE None
  /\ UNCHANGED <<blockno, refcnt, holder, lru, cur, changed>>

-----------------------------------------------------------------------------
(***************************************************************************)
(* What a client does with a buffer it holds.                              *)
(***************************************************************************)
Modify(c, v) ==
  /\ pc[c] = "use"
  /\ data' = [data EXCEPT ![cur[c]] = v]
  /\ changed' = [changed EXCEPT ![c] = TRUE]
  /\ UNCHANGED <<blockno, valid, dirty, refcnt, holder, lru, idequeue, cmd, disk, pc, cur>>

bwrite(c) ==
  /\ pc[c] = "use"
  /\ dirty' = [dirty EXCEPT ![cur[c]] = TRUE]
  /\ changed' = [changed EXCEPT ![c] = FALSE]
  /\ Goto(c, "rw")
  /\ UNCHANGED <<blockno, valid, refcnt, data, holder, lru, idequeue, cmd, disk, cur>>

\* log_write leaves the buffer dirty; a later transaction commit writes it.
Pinned == {b \in Buf : dirty[b]}
log_write_unpinned(c) ==
  /\ pc[c] = "use" /\ Cardinality(Pinned \ {cur[c]}) < MaxPinned
  /\ changed' = [changed EXCEPT ![c] = FALSE]
  /\ UNCHANGED <<blockno, valid, dirty, refcnt, data, holder, lru, idequeue, cmd, disk, pc, cur>>
log_write(c) ==
  /\ pc[c] = "use" /\ Cardinality(Pinned \ {cur[c]}) < MaxPinned
  /\ dirty' = [dirty EXCEPT ![cur[c]] = TRUE]
  /\ changed' = [changed EXCEPT ![c] = FALSE]
  /\ UNCHANGED <<blockno, valid, refcnt, data, holder, lru, idequeue, cmd, disk, pc, cur>>

\* brelse: releasesleep, then the rest under bcache.lock.  Callers pass a buffer they
\* changed to bwrite or log_write first.
releasesleep(c) ==
  /\ pc[c] = "use" /\ ~changed[c]
  /\ holder' = [holder EXCEPT ![cur[c]] = None]
  /\ Goto(c, "rel")
  /\ UNCHANGED <<blockno, valid, dirty, refcnt, data, lru, idequeue, cmd, disk, cur, changed>>
brelse(c) ==
  /\ pc[c] = "rel"
  /\ refcnt' = [refcnt EXCEPT ![cur[c]] = @ - 1]
  /\ lru' = IF refcnt[cur[c]] = 1
              THEN <<cur[c]>> \o SelectSeq(lru, LAMBDA b : b # cur[c])
              ELSE lru
  /\ cur' = [cur EXCEPT ![c] = None]
  /\ Goto(c, "idle")
  /\ UNCHANGED <<blockno, valid, dirty, data, holder, idequeue, cmd, disk, changed>>

\* There are enough buffers for what is held and pinned at a time (NBUF in param.h): nobody
\* asks for one more block than that.
Needed == Pinned \cup ({cur[c] : c \in Client} \ {None})
EnoughBufs(k) == Cardinality(Needed) < Cardinality(Buf) \/ \E b \in Buf : blockno[b] = k

Finish(c) == bwrite(c) \/ log_write(c) \/ releasesleep(c)
Step(c) == bread(c) \/ iderw(c) \/ Wait(c) \/ Synced(c) \/ brelse(c)
Intr == \E ok \in IF ReadErrors THEN BOOLEAN ELSE {TRUE} : ideintr(ok)

Next ==
  \/ \E c \in Client :
       \/ Step(c) \/ Finish(c)
       \/ \E k \in Block : EnoughBufs(k) /\ bget(c, k)
       \/ \E v \in Value : Modify(c, v)
  \/ Intr

Spec == Init /\ [][Next]_vars

\* The disk answers; a client that can go on does, and gives its buffer back at last.
Fairness ==
  /\ WF_vars(Intr)
  /\ \A c \in Client : SF_vars(Step(c)) /\ SF_vars(releasesleep(c)) /\ WF_vars(bwrite(c))

FairSpec == Spec /\ Fairness

-----------------------------------------------------------------------------
(***************************************************************************)
(* Properties.                                                             *)
(***************************************************************************)
\* Every field has its type; lru is an order of all the buffers.
TypeOK ==
  /\ blockno \in [Buf -> Block \cup {None}]
  /\ valid \in [Buf -> BOOLEAN] /\ dirty \in [Buf -> BOOLEAN]
  /\ refcnt \in [Buf -> 0..Cardinality(Client)]
  /\ data \in [Buf -> Value] /\ disk \in [Block -> Value]
  /\ holder \in [Buf -> Client \cup {None}]
  /\ Len(lru) = Cardinality(Buf) /\ ToSet(lru) = Buf
  /\ idequeue \in Seq(Buf)
  /\ pc \in [Client -> {"idle", "lock", "rw", "wait", "asleep", "use", "rel"}]
  /\ cur \in [Client -> Buf \cup {None}]
  /\ changed \in [Client -> BOOLEAN]

\* bio.c: a block has at most one buffer, or two clients would work on two copies.
OneBufPerBlock ==
  \A a, b \in Buf : blockno[a] = blockno[b] /\ blockno[a] # None => a = b

\* The count of a buffer is the number of its users, so bget never takes away one that
\* is in use or about to be locked.
RefcntIsUses == \A b \in Buf : refcnt[b] = Cardinality({c \in Client : cur[c] = b})

\* The disk works on the head of idequeue, no buffer is queued twice, and whoever sleeps
\* in iderw has its buffer in the queue: the interrupt that wakes it is still to come.
QueueInv ==
  /\ IsInjective(idequeue)
  /\ IF idequeue = <<>> THEN cmd = None ELSE cmd = idestart(Head(idequeue))
  /\ \A c \in Client : pc[c] = "asleep" => \E i \in DOMAIN idequeue : idequeue[i] = cur[c]

\* The flags as bio.c describes them, if no read fails: a buffer that is valid and not dirty, and that its
\* holder has not just changed, agrees with the disk.  So bwrite has written when it
\* returns, and a buffer that is recycled takes nothing away.
CachedIsDisk ==
  \A b \in Buf : /\ valid[b] /\ ~dirty[b]
                 /\ (holder[b] # None => ~changed[holder[b]])
                 => data[b] = disk[blockno[b]]

\* None of the panics of bget and iderw ("no buffers", "buf not locked", "nothing to do")
\* happens as long as there are buffers for all that is held and pinned.
NoPanic ==
  /\ Cardinality(Needed) < Cardinality(Buf) => \E b \in Buf : Free(b)
  /\ \A c \in Client : pc[c] = "rw" => /\ holder[cur[c]] = c
                                       /\ dirty[cur[c]] \/ ~valid[cur[c]]

\* What the list, the counts and the disk queue promise each other.
CacheInv == TypeOK /\ OneBufPerBlock /\ RefcntIsUses /\ QueueInv /\ NoPanic

\* The cache and the driver implement BlockStore: the content of a block is the data of
\* its valid buffer, or else what the disk has.
BufOf(k) == {b \in Buf : blockno[b] = k}
S == INSTANCE BlockStore WITH
       mem <- [k \in Block |-> IF \E b \in BufOf(k) : valid[b]
                                 THEN data[CHOOSE b \in BufOf(k) : valid[b]]
                                 ELSE disk[k]],
       user <- [k \in Block |-> IF \E b \in BufOf(k) : holder[b] # None
                                  THEN holder[CHOOSE b \in BufOf(k) : holder[b] # None]
                                  ELSE None]
ImplementsBlockStore == S!BSpec

\* Every bread returns with the block, if clients give their buffers back.
BreadReturns == \A c \in Client : pc[c] = "lock" ~> pc[c] = "use"
=============================================================================
