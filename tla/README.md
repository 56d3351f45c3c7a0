# TLA+ models of the xv6 kernel and the course projects

The repository holds a modified xv6 kernel (`src/src`: lottery scheduling, null-pointer
protection and `mprotect`, kernel threads, a read counter) and stand-alone programs
(`src/P1a` to `src/P5`). This directory models the parts of both whose correctness
depends on interleavings, crashes, limits or exact arithmetic.

    tlc -workers 2 -config MCLog_log.cfg MCLog      # one run
    tlapm LogProofs.tla                             # one proof module

`PROJECT.json` lists the components, the runs, a mutant for every property, the source
lines behind every definition, the hazards and the theorems.

## 1. The system and its models

| Part | Source | Modules | State |
|---|---|---|---|
| Write-ahead log | `log.c` | `Log`, abstract `AtomicDisk`, `LogProofs` | modelled, proved in part |
| Process table | `proc.c`, `trap.c`, `sysproc.c` | `Proc` | modelled |
| Lottery scheduler | `proc.c`, `trap.c`, `sysproc.c` | `Lottery` | partly (one CPU, no `getpinfo`) |
| Locks, sleep, switch | `spinlock.c`, `sleeplock.c`, `proc.c` | `SleepLock`, abstract `Mutex`, `SleepLockProofs` | modelled, proved |
| Pipes | `pipe.c`, `file.c` | `Pipe`, abstract `Channel`, `PipeProofs` | modelled, proved in part |
| Buffer cache, disk driver | `bio.c`, `ide.c` | `Bcache`, abstract `BlockStore` | modelled |
| Inodes, names, calls on them | `fs.c`, `sysfile.c` | `Fs` | modelled |
| File content, allocation | `fs.c`, `file.c`, `mkfs.c` | `FileData` | modelled |
| Memory | `vm.c`, `kalloc.c`, `exec.c`, `proc.c` | `Vm`, abstract `AddressSpaces` | partly (no shared address spaces) |
| User `malloc` | `ulib.c` | `Malloc` | modelled (one thread) |
| `wzip`, `wunzip`, `pzip` | `P1a`, `P3a` | `Zip` | modelled |
| `xcheck` | `P5` | `XCheck` | modelled |

The kernel parts sit on each other: `Fs` and `FileData` use calls bracketed by the log's
`begin_op`/`end_op`; the log writes through the buffer cache; the cache, the inodes and the
log wait with `sleep`/`wakeup`; those rest on the process table and the scheduler. Each
module models its own layer in full and takes the layer below by what that layer promises:
sleep locks are atomic in `Bcache` and `Fs` because `SleepLock` implements `Mutex`; a call
is a transaction in `Fs` and `FileData` because `Log` implements `AtomicDisk`; block reads
return the last content because `Bcache` implements `BlockStore`.

Not modelled, with the reason for each in `PROJECT.json`: boot and device set-up, interrupt
controllers, system call dispatch, string routines, the small user programs, test programs,
and (planned, section 6) the console, the two shells, MapReduce.

### How each module follows the code

* **`Log`**. `lh`, `outstanding` and `committing` are the fields of `log`, `cache` and `dirty` the
  buffers; `disk`, `dlog` and `dhead` are the home blocks, the log blocks and the log header on
  the disk. Each region under `log.lock` is an action (`begin_op`,
  `log_write` in its check and its append, `end_op`, `end_commit`); each block written by
  `write_log`, `write_head`, `install_trans` and recovery is one `CommitStep` or `BootStep`;
  `Crash` may come between any two and keeps only the disk.
* **`Proc`**. The slots of `ptable` with state, pid, parent, channel, killed flag and page
  table; `ptable.lock` regions of `allocproc`, `fork`, `clone`, `exit`, `wait`, `join`,
  `kill`, `yield`, dispatch and the tick of `trap.c` are actions. `init` exits when its
  `fork` fails (`init.c:25`), and `exit` panics on it: nothing runs after that (`Panicked`).
* **`Lottery`**. The generator, the draw `count >= r`, the tick of the winner, inheritance
  of tickets at `fork`, `settickets`, and slots that are reused. The sum of the tickets is an
  `int` that wraps at `IntMax`; a divisor `count + 1` of 0 stops the CPU (`trap`).
* **`SleepLock`**. Every acquire and release of `lk->lk` and `ptable.lock` is a step of a
  process on a CPU. A process that gave up its CPU in `sched` may be picked by another CPU
  only after the first has released `ptable.lock`.
* **`Pipe`**. One action per turn of the loops of `pipewrite` and `piperead`; counters wrap
  at `Wrap`, a multiple of `PIPESIZE` as 2^32 is of 512. The abstract `Channel` is a bounded
  queue with two ends: bytes go in while the write end is open and come out while the read end
  is, and a new, empty queue appears only when both are closed.
* **`Bcache`**. `bget`'s two loops over the LRU list, `iderw`, the queue of the driver, and
  `ideintr` as a step of the disk; a buffer pinned by `log_write` is never recycled.
* **`Fs`**. One action per region under `icache.lock` or an inode's sleep lock. A walk notes
  whether it left a removed directory through `..` (`stray`).
* **`FileData`**. `filewrite` starts a call, `Chunk` and `EndChunk` bracket each of its
  transactions, and a turn of the loop in `writei` (one block, with `bmap`, `balloc` and
  `bzero`) is a step between them; `itrunc` is one step under the inode's lock.
* **`Vm`**. Two-level page tables over numbered physical pages and a free list. `setupkvm`,
  `allocuvm` and `copyuvm` allocate one page per step, page tables and the kernel stack of a
  child included, each `kalloc` may find the list empty, and the error path of that line is
  taken: what was allocated before it is given back, or is not, as the code has it. The
  kernel mappings need one page table here.
* **`Malloc`, `Zip`, `XCheck`** are sequential: the operators follow the functions, and
  `MCPrograms` gives them their inputs. `Malloc`'s calls come in every order; the other two
  are compared with a definition of what their result should be.

## 2. Runs

| Run | Checks | Instance | Distinct states |
|---|---|---|---|
| `log` | `SpaceIInv`, `ImplementsAtomicDisk`, `SleepersWake` | 2 processes, 2 blocks, 2 contents, `LOGSIZE` 8, `MAXOPBLOCKS` 4 | 442 000 |
| `proc` | `TableInv`, `NoExitMissed`, `TablesOwned`, `KilledExits`, `OrphansReaped` | 3 slots, 2 CPUs, 4 pids, with and without threads | 32 300 |
| `lottery` | `FairShare`, `NobodyStarves`, `TicksAreOwn`, `SomebodyRuns` | 3 slots, a full period of the generator; `IntMax` 1023 | 336 000 |
| `sleeplock` | `SleepIInv`, `ImplementsMutex`, `FreeLockTaken` | 2 processes, 2 CPUs | 953 |
| `pipe` | `PipeIInv`, `NoUseAfterFree`, `ImplementsChannel`, `CallsReturn` | 1 reader, 1 writer, 2 bytes, calls of up to 3 | 58 800 |
| `pipe_killrace` | `KilledAwake`: violated | 1 byte | |
| `bcache` | `CacheInv`, `CachedIsDisk`, `ImplementsBlockStore`, `BreadReturns` | 2 clients, 3 blocks, 2 buffers | 186 000 |
| `fs` | `CacheInv`, `Counts`, `NoUseAfterFree`, `NoDangling`, `IlockHasType` | 2 processes, 4 inodes, four workloads | 1 902 000 |
| `fs_cross` | `NoWaitCycle`: violated | 2 processes, 3 inodes | |
| `file` | `BlocksInv`, `ReadsWhatWasWritten`, `InodeWritten`, `FitsTransaction` | 2 writers, 2 files, 5 data blocks | 317 000 |
| `vm` | `PagesInv`, `SizeIsMapped`, `ImplementsAddressSpaces` | 2 processes, 5 to 12 pages, 6 calls | 246 000 |
| `programs` | `HeapInv`, `ZipExact`, `XCheckExact` | heap of 16 units, files of up to 6 characters with `RESMAX` 3, images around `NBLOCKS` 6 | 180 000 |

Why the bounds are enough for the cases of interest:

* `log`: two calls may run together and share one commit, and once a block is logged the next
  `begin_op` beside a running call finds no room and sleeps; crashes leave a log that is empty,
  written without its header, committed, or half installed.
* `proc`: three slots hold `init`, a parent and a child, so `fork` fails on a full table,
  children are orphaned and slots are reused; two CPUs let an exit meet a `wait`.
* `lottery`: the period of the generator is finite (134 456), so one pass over it with fixed
  tickets covers every draw it makes. `Slack` and `Gap` are the largest deviations seen;
  they are statements about this generator and the tickets 100, 200, 300 of `forkt.c`, not
  about others: with few tickets the extra value of `count + 1` weighs more, and no run bounds
  that. A second workload changes tickets, from 0 to the largest `int`.
* `pipe`: the ring fills, empties, and its counters wrap; one call is longer than the ring.
* `bcache`: three blocks on two buffers recycle; a pinned buffer leaves one.
* `file`: five data blocks make the files run into each other's freed blocks; the file
  sizes pass from direct to indirect blocks. A full disk panics and ends the behaviour.
* `fs`: one file, one directory, a directory in a directory, and a maker beside those who look
  up. Deeper trees repeat the two-level step of `namex` and `unlink`.
* `vm`: with 5 to 12 pages each `kalloc` of each call is the first to fail in some behaviour,
  and with 12 the calls also succeed.
* `programs`: pzip's arrays (1 000 000 entries in the code, `RESMAX` here) are overrun by the
  longest files; images are one block smaller and larger than `xcheck`'s fixed 1000
  (`NBLOCKS`), and name blocks and inodes outside the image.

`CHECK_DEADLOCK FALSE` stands where the system may stop: calls wait for each other for ever
(`fs`, for the reason `fs_cross` shows) or an image runs out of inodes, the disk is full
(`file`), the pids are used up (`proc`), the draws are over (`lottery`), every process has
exited or the calls are spent (`vm`), the program is done (`programs`).

### The two violations

* `pipe_killrace`: `kill` says it will "Wake process from sleep if necessary" (`proc.c:506`).
  `piperead` tests `killed` before `sleep` takes `ptable.lock`; a `kill` in between finds
  the process not yet sleeping, and it then sleeps although killed.
* `fs_cross`: `fs.c:149` says separating `iget` from `ilock` "helps avoid deadlock". `create`
  still holds the new inode while `iunlockput(dp)` locks the directory again in `iput`
  (`fs.c:334`); `sys_unlink` locks the directory and then the inode. They can wait for each
  other for ever.

## 3. Fairness

Spin locks are assumed not to starve a CPU that keeps asking, and interrupts to arrive.
From this:

* `Log`: weak fairness of each step a process or recovery takes, strong fairness of
  `end_op`, whose lock others keep taking.
* `Proc`: strong fairness of dispatch and of a dispatched process' kernel steps (the
  lottery picks a process with tickets again and again), weak fairness of the timer, and
  `init` waiting in its loop (`init.c`).
* `SleepLock`: strong fairness of lock steps and of the switch; a holder releases.
* `Pipe`: strong fairness of a call's steps and of closing.
* `Bcache`: the disk interrupts (weak), buffers are released, and lock steps are strong.

No fairness is assumed of user programs: nobody has to make a call.

## 4. Proofs

For every value of the constants that the named `ASSUME`s allow:

* **`LogProofs`**. Assumption `BudgetFits`: a call logs fewer blocks than `MAXOPBLOCKS`
  reserves, and these fit the log area. With `param.h` (30, 10) and the image of `mkfs` this
  means at most 8 blocks a call. That the log is short enough is not inductive: a call that
  passed `begin_op` may log more blocks without another test. `SpaceIInv` therefore bounds the
  length together with the tokens still unspent (blocks that running calls may yet log), and
  says of each call what it has logged. The counting
  lemmas (`TokensBound`, `TokensSpend`, ...) rest on `FiniteSetTheorems`; one lemma per
  action carries the invariant; `LogNeverPanics`, `LogStaysInArea`, `CommitRunsAlone` and
  `NoMissedRoom` follow.
* **`SleepLockProofs`**. `SleepIInv` says who holds each spin lock at each program point,
  that a process is on at most one CPU, and that a sleeper, or a process about to sleep, has
  either a locked lock or a waker on the way. From it: mutual exclusion, no lost wakeup, no
  panic in `acquire`, `release` or `sched`, and the refinement of `Mutex`, for any number of
  processes and CPUs.
* **`PipeProofs`**. `PipeIInv` gives the holder of `p->lock`, the cause of every sleep and
  who keeps the page alive; from it, wakeups are not lost and the pipe is freed once, for
  any number of readers and writers.

Only model-checked: all liveness (fairness and `ENABLED` are outside the prover), the
refinements of `Log`, `Pipe`, `Bcache` and `Vm`, all of `Proc`, `Lottery`, `Fs`, `FileData`,
`Vm`, and the sequential programs, whose recursion needs induction over data.

## 5. What the models leave out or exclude, and what was seen on the way

Excluded by a precondition or a bound, because the code panics or leaves its contract there:

* Nobody kills `init` in the run of `Proc`. `KilledExits` and `OrphansReaped` end when `init`
  exits because it could not fork.
* `ImplementsAtomicDisk` promises that a crash leaves whole transactions. It does not promise
  that a call which returned survives: `end_op` returns before the commit when other calls
  are running.
* A call that logs `MAXOPBLOCKS` blocks can reach "too big a transaction" or overrun the
  log, so `BudgetFits` of the proofs asks for fewer, and `FitsTransaction` checks that
  `filewrite` logs fewer. The other calls on files and names are not counted.
* `SomebodyRuns` is about tickets whose sum is an `int`: beyond that the sum wraps, the draw
  may find nobody, and `count + 1` may be 0.
* `SleepersHaveCause` excepts a reader whose writer was killed; `CallsReturn` then shows that
  the reader wakes when that writer's end is closed.
* `bget` panics when every buffer is held or pinned. `CacheInv` says that it finds a buffer as
  long as there are more buffers than blocks in use; that callers keep to this is not shown.
* `IlockHasType` excepts an inode reached through `..` of a removed directory. When the parent
  was removed as well, `..` leads to a free inode and `ilock` panics ("no type"): `chdir("..")`
  from a working directory whose parent and which itself were removed. Without the exception
  the `fs` run finds this. `NoUseAfterFree` has the same exception.
* `Counts` leaves out link counts where directories are removed: `create` may put a name into a
  directory that was removed since `nameiparent` found it, and the inode keeps its count.
* `RootBytes` is no multiple of `BSIZE`: `mkfs.c:161` always rounds up to a further block, so a
  root directory that fills its last block would get a size with a block it does not have.
  The image of the `Makefile` ends inside a block.
* `mprotect` and `munprotect` compute `addr + len * PGSIZE` in 32 bits; `Vm` has only lengths
  for which this does not wrap.
* The failure path of `pipealloc` (`pipe.c:48`) gives back what it allocated before anybody
  has it, and is not in `Pipe`.
* A failed disk read is not reported: `ideintr` marks the buffer valid (`ide.c:122`).
  `ReadErrors` is `FALSE` in the run.
* A full disk panics in `balloc` (`FileData`) and, without a free inode, in `create` (`Fs`);
  the models stop there.
* `malloc` has no lock, so `Malloc` has one thread; sizes near 2^32 wrap and are
  left out, and no request is larger than the 4096 units `morecore` asks for at least.
* `ZipExact` is about files with a character for every thread; on shorter ones `pzip` counts
  a character too many, and empty files, which `mmap` refuses, are not among the inputs.
* A slice of `RESMAX` or more pairs overruns `pzip`'s arrays (`pzip.c:85`); `ZipExact` says
  that nothing shorter does, and nothing about the output then.
* `XCheckExact` is about directories that `xcheck` sees whole: it stops at the first free entry
  and does not read a directory's indirect block. Then an error is reported only of an image
  that is not consistent, and an accepted image of at most 1000 blocks is consistent
  (`check_bitmap` looks at 1000 bits whatever the size). It leaves its arrays only for an image
  with fewer than 1000 blocks or with an address or inode number out of range: indirect
  addresses and inode numbers are not checked, and an address equal to the image size is
  accepted. "Consistent" means what the program sets out to check: one name for
  each inode (it rejects hard links).

Behaviour that a reader of the code may want to know, not part of a checked property:

* A writer that gives up in `pipewrite` (`pipe.c:85`) returns without waking readers.
* `link` of a name onto `.` locks one inode twice (`fs.c:560`).
* Two last references dropped together can leave an unlinked inode unfreed (`fs.c:347`), and
  a file created in a directory that is being removed has no parent (`sysfile.c:259`).
* `join` does not clear pid, parent and killed, takes threads of any parent, and sleeps on
  when killed; `wait` frees the page table a thread shares. Properties of `Proc` about page
  tables and kills are therefore checked without threads, the others with and without them.
* The lottery draws from `count + 1` values for `count` tickets.
* `growproc` to size 0 leaves `sz` unchanged; threads have copies of `sz` of their own.
* `mapreduce.c:122` leaves `next` of a new key's first value unset.

Memory is sequentially consistent; paths are short and names are not cut at `DIRSIZ`; `fork`
does not copy descriptors.

## 6. Plan for further work

1. Console input ring (`consoleintr`, `consoleread`), then descriptors: `dup`, `sys_pipe`,
   `fork` and `exit` on shared `struct file`s.
2. The shells: `sh.c` pipelines composed with `Pipe`; parallel commands of `wish.c`.
3. MapReduce: key lists sorted and without duplicates in each partition.
4. Threads in `Vm`: growth by one thread and stale sizes in the others.
5. Proofs: `Proc` (`TableInv`), `Bcache` (`CacheInv`), `Vm` (`PagesInv`), the refinement of
   `AtomicDisk` by `Log`, `FitsTransaction`.
