-------------------------------- MODULE Log --------------------------------
(***************************************************************************)
(* The write-ahead log of the xv6 file system (log.c), with the buffer     *)
(* cache and the disk it drives reduced to the contents of blocks.         *)
(*                                                                         *)
(* A section of code under log.lock is one action; everything outside the  *)
(* lock (the size check of log_write, every disk write of commit and of    *)
(* recovery) is an action of its own, so that other processes and a crash  *)
(* can come between.  A disk write of one 512-byte block is atomic: a      *)
(* block is one sector.                                                    *)
(***************************************************************************)
EXTENDS Integers, Sequences, FiniteSets

CONSTANTS
  Proc,         \* processes that make file-system calls
  Block,        \* home blocks of the file system
  Data,         \* contents of a block
  LOGSIZE,      \* capacity of the in-memory header (param.h)
  MAXOPBLOCKS,  \* blocks that begin_op reserves per system call (param.h)
  NLog,         \* sb.nlog: blocks of the on-disk log, header block included
  OpBlocks,     \* distinct blocks that one system call really logs
  None          \* no buffer / nothing cached

ASSUME SizesAssumption ==
  /\ LOGSIZE \in Nat /\ MAXOPBLOCKS \in Nat /\ NLog \in Nat \ {0} /\ OpBlocks \in Nat
  /\ OpBlocks <= MAXOPBLOCKS

ASSUME SetsAssumption ==
  /\ IsFiniteSet(Proc) /\ Data # {}
  /\ None \notin Block /\ None \notin Data

VARIABLES
  stage,        \* what the log layer is doing: see Stage
  tail,         \* loop index of write_log / install_trans
  pc,           \* where each process is: see Pc
  held,         \* the buffer a process holds between bread and brelse
  written,      \* blocks the current system call of a process has logged
  lh,           \* log.lh: block numbers of the open transaction
  outstanding,  \* log.outstanding
  committing,   \* log.committing
  cache,        \* buffer cache: contents of home blocks, None if not cached
  dirty,        \* buffers with B_DIRTY
  disk,         \* home blocks on disk
  dlog,         \* log data blocks on disk
  dhead         \* log header block on disk

volatile == <<pc, held, written, lh, outstanding, committing, cache, dirty>>
onDisk   == <<disk, dlog, dhead>>
vars     == <<stage, tail, volatile, onDisk>>

\* "run": no commit in progress; the next four are commit() in end_op, the
\* last two recover_from_log() at boot after read_head.
Stage == {"run", "write_log", "write_head", "install", "erase", "finish",
          "read_head", "r_install", "r_erase"}
Booting == stage \in {"read_head", "r_install", "r_erase"}

\* idle: outside a system call; begin: at the head of begin_op's loop;
\* asleep: in sleep(&log); op: between begin_op and end_op; check, add: in
\* log_write; commit: in end_op with do_commit; panic: stopped in panic().
Pc == {"idle", "begin", "asleep", "op", "check", "add", "commit", "panic"}

InOp == {"op", "check", "add", "panic"}

TypeOK ==
  /\ stage \in Stage
  /\ tail \in Nat
  /\ pc \in [Proc -> Pc]
  /\ held \in [Proc -> Block \cup {None}]
  /\ written \in [Proc -> SUBSET Block]
  /\ lh \in Seq(Block)
  /\ outstanding \in Int
  /\ committing \in BOOLEAN
  /\ cache \in [Block -> Data \cup {None}]
  /\ dirty \subseteq Block
  /\ disk \in [Block -> Data]
  /\ dlog \in [1..LOGSIZE -> Data]
  /\ dhead \in Seq(Block)

\* mkfs leaves an empty, zeroed log; the kernel boots through initlog.
Init ==
  /\ stage = "read_head"
  /\ tail = 0
  /\ pc = [p \in Proc |-> "idle"]
  /\ held = [p \in Proc |-> None]
  /\ written = [p \in Proc |-> {}]
  /\ lh = <<>>
  /\ outstanding = 0
  /\ committing = FALSE
  /\ cache = [b \in Block |-> None]
  /\ dirty = {}
  /\ disk \in [Block -> Data]
  /\ \E zero \in Data : dlog = [i \in 1..LOGSIZE |-> zero]
  /\ dhead = <<>>
-----------------------------------------------------------------------------
\* bread(): the cached contents if the buffer is valid, else the disk's.
Contents(b) == IF cache[b] # None THEN cache[b] ELSE disk[b]

\* Mutant: the wakeup is forgotten.
Woken_forgotten(f) == f

\* The processes that wakeup(&log) makes runnable resume begin_op's loop.
Woken(f) == [p \in Proc |-> IF f[p] = "asleep" THEN "begin" ELSE f[p]]

\* A system call enters begin_op().
Start(p) ==
  /\ ~Booting
  /\ pc[p] = "idle"
  /\ pc' = [pc EXCEPT ![p] = "begin"]
  /\ UNCHANGED <<stage, tail, held, written, lh, outstanding, committing,
                 cache, dirty, onDisk>>

\* Mutant: begin_op() reserves for itself only.
NoRoom_alone == committing \/ Len(lh) + MAXOPBLOCKS > LOGSIZE

\* The two conditions under which begin_op() sleeps.
NoRoom == \/ committing
          \/ Len(lh) + (outstanding + 1) * MAXOPBLOCKS > LOGSIZE

begin_op(p) ==
  /\ pc[p] = "begin"
  /\ \/ /\ NoRoom
        /\ pc' = [pc EXCEPT ![p] = "asleep"]
        /\ UNCHANGED <<written, outstanding>>
     \/ /\ ~NoRoom
        /\ outstanding' = outstanding + 1
        /\ pc' = [pc EXCEPT ![p] = "op"]
        /\ written' = [written EXCEPT ![p] = {}]
  /\ UNCHANGED <<stage, tail, held, lh, committing, cache, dirty, onDisk>>

\* bread(b), then a change of b->data: the buffer stays locked until brelse.
Modify(p, b, v) ==
  /\ pc[p] = "op"
  /\ \A q \in Proc : held[q] # b
  /\ b \in written[p] \/ Cardinality(written[p]) < OpBlocks
  /\ held' = [held EXCEPT ![p] = b]
  /\ cache' = [cache EXCEPT ![b] = v]
  /\ pc' = [pc EXCEPT ![p] = "check"]
  /\ UNCHANGED <<stage, tail, written, lh, outstanding, committing, dirty, onDisk>>

\* log_write() looks at log.lh.n and log.outstanding before it takes the lock.
TooBig == Len(lh) >= LOGSIZE \/ Len(lh) >= NLog - 1

log_write_check(p) ==
  /\ pc[p] = "check"
  /\ pc' = [pc EXCEPT ![p] = IF TooBig \/ outstanding < 1 THEN "panic" ELSE "add"]
  /\ UNCHANGED <<stage, tail, held, written, lh, outstanding, committing,
                 cache, dirty, onDisk>>

\* The locked part of log_write(): absorption, or one more block; then brelse.
Logged(b) == \E i \in 1..Len(lh) : lh[i] = b

\* Mutant: the buffer is not pinned with B_DIRTY.
log_write_add_unpinned(p) ==
  /\ pc[p] = "add"
  /\ lh' = IF Logged(held[p]) THEN lh ELSE Append(lh, held[p])
  /\ written' = [written EXCEPT ![p] = @ \cup {held[p]}]
  /\ held' = [held EXCEPT ![p] = None]
  /\ pc' = [pc EXCEPT ![p] = "op"]
  /\ UNCHANGED <<stage, tail, outstanding, committing, cache, dirty, onDisk>>

log_write_add(p) ==
  /\ pc[p] = "add"
  /\ lh' = IF Logged(held[p]) THEN lh ELSE Append(lh, held[p])
  /\ dirty' = dirty \cup {held[p]}
  /\ written' = [written EXCEPT ![p] = @ \cup {held[p]}]
  /\ held' = [held EXCEPT ![p] = None]
  /\ pc' = [pc EXCEPT ![p] = "op"]
  /\ UNCHANGED <<stage, tail, outstanding, committing, cache, onDisk>>

\* end_op() up to the release of the lock.  The last call out commits.
end_op(p) ==
  /\ pc[p] = "op"
  /\ outstanding' = outstanding - 1
  /\ \/ /\ committing
        /\ pc' = [pc EXCEPT ![p] = "panic"]
        /\ UNCHANGED <<stage, tail, committing>>
     \/ /\ ~committing /\ outstanding = 1
        /\ committing' = TRUE
        /\ pc' = [pc EXCEPT ![p] = "commit"]
        /\ stage' = IF lh = <<>> THEN "finish" ELSE "write_log"
        /\ tail' = 0
     \/ /\ ~committing /\ outstanding # 1
        /\ pc' = [Woken(pc) EXCEPT ![p] = "idle"]
        /\ UNCHANGED <<stage, tail, committing>>
  /\ UNCHANGED <<held, written, lh, cache, dirty, onDisk>>
-----------------------------------------------------------------------------
\* commit(), one disk write at a time.

write_log ==
  /\ stage = "write_log"
  /\ \/ /\ tail < Len(lh)
        /\ dlog' = [dlog EXCEPT ![tail + 1] = Contents(lh[tail + 1])]
        /\ tail' = tail + 1
        /\ UNCHANGED stage
     \/ /\ tail >= Len(lh)
        /\ stage' = "write_head"
        /\ UNCHANGED <<tail, dlog>>
  /\ UNCHANGED <<volatile, disk, dhead>>

\* "the real commit"
write_head ==
  /\ stage = "write_head"
  /\ dhead' = lh
  /\ stage' = "install"
  /\ tail' = 0
  /\ UNCHANGED <<volatile, disk, dlog>>

\* One turn of install_trans()'s loop; the disk write clears B_DIRTY.
InstallBlock ==
  /\ tail < Len(lh)
  /\ disk' = [disk EXCEPT ![lh[tail + 1]] = dlog[tail + 1]]
  /\ cache' = [cache EXCEPT ![lh[tail + 1]] = dlog[tail + 1]]
  /\ dirty' = dirty \ {lh[tail + 1]}
  /\ tail' = tail + 1
  /\ UNCHANGED <<stage, pc, held, written, lh, outstanding, committing, dlog, dhead>>

InstallDone(next) ==
  /\ tail >= Len(lh)
  /\ stage' = next
  /\ UNCHANGED <<tail, volatile, onDisk>>

install_trans == stage = "install" /\ (InstallBlock \/ InstallDone("erase"))

\* log.lh.n = 0; write_head(): erases the transaction from the log.
EraseTo(next) ==
  /\ lh' = <<>>
  /\ dhead' = <<>>
  /\ stage' = next
  /\ UNCHANGED <<tail, pc, held, written, outstanding, committing, cache, dirty, disk, dlog>>

erase_head == stage = "erase" /\ EraseTo("finish")

\* The rest of end_op() after commit().
end_commit(p) ==
  /\ stage = "finish"
  /\ pc[p] = "commit"
  /\ committing' = FALSE
  /\ pc' = [Woken(pc) EXCEPT ![p] = "idle"]
  /\ stage' = "run"
  /\ UNCHANGED <<tail, held, written, lh, outstanding, cache, dirty, onDisk>>
-----------------------------------------------------------------------------
\* initlog() -> recover_from_log(), when the system boots.

read_head ==
  /\ stage = "read_head"
  /\ lh' = dhead
  /\ stage' = "r_install"
  /\ tail' = 0
  /\ UNCHANGED <<pc, held, written, outstanding, committing, cache, dirty, onDisk>>

recover_install == stage = "r_install" /\ (InstallBlock \/ InstallDone("r_erase"))

recover_erase == stage = "r_erase" /\ EraseTo("run")

\* bget() recycles a buffer that is neither in use nor B_DIRTY.
Evict(b) ==
  /\ cache[b] # None
  /\ b \notin dirty
  /\ \A p \in Proc : held[p] # b
  /\ cache' = [cache EXCEPT ![b] = None]
  /\ UNCHANGED <<stage, tail, pc, held, written, lh, outstanding, committing, dirty, onDisk>>

\* Power fails: only the disk survives.
Crash ==
  /\ stage' = "read_head"
  /\ tail' = 0
  /\ pc' = [p \in Proc |-> "idle"]
  /\ held' = [p \in Proc |-> None]
  /\ written' = [p \in Proc |-> {}]
  /\ lh' = <<>>
  /\ outstanding' = 0
  /\ committing' = FALSE
  /\ cache' = [b \in Block |-> None]
  /\ dirty' = {}
  /\ UNCHANGED onDisk

ProcStep(p) ==
  \/ Start(p) \/ begin_op(p) \/ end_op(p) \/ end_commit(p)
  \/ \E b \in Block, v \in Data : Modify(p, b, v)
  \/ log_write_check(p) \/ log_write_add(p)

CommitStep == write_log \/ write_head \/ install_trans \/ erase_head
BootStep   == read_head \/ recover_install \/ recover_erase

Next ==
  \/ \E p \in Proc : ProcStep(p)
  \/ CommitStep
  \/ BootStep
  \/ \E b \in Block : Evict(b)
  \/ Crash

Spec == Init /\ [][Next]_vars

\* Runnable processes are scheduled and disk writes complete.  A system call
\* makes finitely many log_writes, so one that could end again and again ends.
Fairness ==
  /\ \A p \in Proc :
       /\ WF_vars(begin_op(p)) /\ SF_vars(end_op(p)) /\ WF_vars(end_commit(p))
       /\ WF_vars(log_write_check(p)) /\ WF_vars(log_write_add(p))
  /\ WF_vars(CommitStep) /\ WF_vars(BootStep)

FairSpec == Spec /\ Fairness
-----------------------------------------------------------------------------
(***************************************************************************)
(* Safety                                                                  *)
(***************************************************************************)

\* The sizes leave room for every call: a call logs fewer blocks than begin_op()
\* reserves for it, and the blocks that can then be logged fit the log area.
\* With param.h and mkfs (30, 10, nlog 30) this says OpBlocks <= 8.
BudgetFits ==
  /\ OpBlocks < MAXOPBLOCKS
  /\ LOGSIZE - (MAXOPBLOCKS - OpBlocks) < NLog - 1

\* A system call that stays within its block budget never panics in
\* log_write() ("too big a transaction", "log_write outside of trans") nor in
\* end_op() ("log.committing"): begin_op()'s reservation is sufficient although
\* log_write() reads the log's length before it takes the lock.
NoPanic == \A p \in Proc : pc[p] # "panic"

\* commit() copies no block past the end of the on-disk log area, which would
\* overwrite the inode blocks that follow it.
FitsLogArea == Len(lh) <= NLog - 1

\* "there is never any reasoning required about whether a commit might write an
\* uncommitted system call's updates": no call is between begin_op and end_op
\* while a commit runs, and one process at most is in commit().
CommitAlone ==
  committing =>
    /\ \A p \in Proc : pc[p] \notin InOp
    /\ \E p \in Proc : pc[p] = "commit" /\ \A q \in Proc : pc[q] = "commit" => q = p

\* A process sleeps in begin_op() only while it would have to: every step that
\* makes room for it also wakes it up.
SleepersHaveCause == (\E p \in Proc : pc[p] = "asleep") => NoRoom

\* Processes between begin_op() and end_op(), and the part of the log space that
\* begin_op() reserved for them and they have not used: one token per block.
Ops == {p \in Proc : pc[p] \in InOp}
TokenSet(ops, w) == {t \in ops \X (1..MAXOPBLOCKS) : t[2] > Cardinality(w[t[1]])}
Tokens == TokenSet(Ops, written)

\* The counter is the number of running calls, and no call runs during a commit
\* or before recovery is over.
CountInv ==
  /\ outstanding = Cardinality(Ops)
  /\ committing => Ops = {}
  /\ stage \in {"write_log", "write_head", "install", "erase", "finish"} <=> committing
  /\ Booting => \A p \in Proc : pc[p] = "idle"
  /\ \A p \in Proc : pc[p] = "commit" => committing

\* What is logged and what may still be logged fit the log together.
SpaceInv ==
  /\ Len(lh) + Cardinality(Tokens) <= LOGSIZE
  /\ Len(lh) <= NLog - 1
  /\ Len(dhead) <= LOGSIZE /\ Len(dhead) <= NLog - 1

\* A call within its budget: what it has logged is in the log, and what it is
\* about to log is either there already or within the budget.
BudgetInv ==
  \A p \in Ops :
    /\ IsFiniteSet(written[p]) /\ Cardinality(written[p]) <= OpBlocks
    /\ \A b \in written[p] : Logged(b)
    /\ pc[p] \in {"check", "add"} =>
         /\ held[p] \in Block
         /\ held[p] \in written[p] \/ Cardinality(written[p]) < OpBlocks

\* What log.c maintains: no panic, the log area never overrun, commits alone, nobody asleep
\* without need, and the counts and reservations that these rest on.  It is inductive.
SpaceIInv ==
  /\ TypeOK /\ NoPanic /\ CountInv /\ SpaceInv /\ BudgetInv
  /\ CommitAlone /\ SleepersHaveCause

\* What the disk holds once the log has been replayed.
Recovered ==
  [b \in Block |->
     IF \E i \in 1..Len(dhead) : dhead[i] = b
     THEN dlog[CHOOSE i \in 1..Len(dhead) : dhead[i] = b]
     ELSE disk[b]]

\* What file-system calls see.
Seen == IF Booting THEN Recovered ELSE [b \in Block |-> Contents(b)]

\* log.c implements AtomicDisk: across crashes at any point, during recovery
\* too, the disk moves from one state without half-done calls to another.
Atomic == INSTANCE AtomicDisk WITH
            durable <- Recovered, view <- Seen,
            active <- {p \in Proc : pc[p] \in InOp}
ImplementsAtomicDisk == Atomic!Spec
-----------------------------------------------------------------------------
(***************************************************************************)
(* Liveness, under FairSpec                                                *)
(***************************************************************************)

\* No wakeup(&log) is lost: whoever sleeps in begin_op() is woken again.
SleepersWake == \A p \in Proc : pc[p] = "asleep" ~> pc[p] # "asleep"
=============================================================================
