-------------------------------- MODULE Proc --------------------------------
(***************************************************************************)
(* The process table of proc.c: allocproc, fork, clone, exit, wait, join,  *)
(* kill, sleep, wakeup, yield and the dispatch step of scheduler.          *)
(*                                                                         *)
(* Slots are numbered in table order, because every scan of ptable.proc    *)
(* takes the first slot that fits.  Code between acquire(&ptable.lock) and *)
(* the matching release is one step; sched() hands the lock to the         *)
(* scheduler, so "change state and switch away" is one step as well (module*)
(* SleepLock looks inside it).  fork and clone touch their EMBRYO without  *)
(* the lock and are split where other processes may run in between.        *)
(*                                                                         *)
(* UNUSED slots keep whatever the code leaves in them: pid, parent and     *)
(* killed of a slot that join() or a failed fork() released are stale.     *)
(* Which RUNNABLE process runs is left open here; module Lottery has the   *)
(* draw.  Files, names, trap frames and contexts are left out.             *)
(***************************************************************************)
EXTENDS Integers, FiniteSets, FiniteSetsExt

CONSTANTS
  NPROC,        \* number of slots
  NCPU,         \* number of CPUs: at most so many processes are RUNNING
  MaxPid,       \* bound: fork and clone stop at this pid
  KillPids,     \* the arguments programs pass to kill()
  Threads       \* whether programs call clone() and join(): {FALSE}, {TRUE} or both

ASSUME ProcAssumption ==
  /\ NPROC \in Nat \ {0} /\ NCPU \in Nat \ {0} /\ MaxPid \in Nat \ {0}
  /\ KillPids \subseteq Nat /\ Threads \subseteq BOOLEAN

VARIABLES
  state,        \* enum procstate of each slot
  pid, parent, killed, chan,
  pgdir,        \* page table of each slot
  tables,       \* page tables that are allocated
  nextpid,
  pc,           \* where each process is in the kernel
  np,           \* fork's and clone's local np
  threads       \* whether the programs of this behaviour use threads

ptable == <<state, pid, parent, killed, chan, pgdir, tables, nextpid, pc, np>>
vars == <<ptable, threads>>

Slot == 1..NPROC
None == 0                          \* the null pointer
initproc == 1
ticks == NPROC + 1                 \* channel &ticks; a process is its own channel
Table == 1..NPROC                  \* enough for one page table per slot

States == {"UNUSED", "EMBRYO", "SLEEPING", "RUNNABLE", "RUNNING", "ZOMBIE"}
Alive  == {"SLEEPING", "RUNNABLE", "RUNNING"}
Places == {"user", "fork", "copied", "clone", "wait", "join", "ticks", "sleep", "panic"}

(***************************************************************************)
(* main() calls userinit() before any other process exists.                *)
(***************************************************************************)
Init ==
  /\ state = [s \in Slot |-> IF s = initproc THEN "RUNNABLE" ELSE "UNUSED"]
  /\ pid = [s \in Slot |-> IF s = initproc THEN 1 ELSE 0]
  /\ parent = [s \in Slot |-> None]
  /\ killed = [s \in Slot |-> FALSE]
  /\ chan = [s \in Slot |-> None]
  /\ pgdir = [s \in Slot |-> IF s = initproc THEN 1 ELSE None]
  /\ tables = {1}
  /\ nextpid = 2
  /\ pc = [s \in Slot |-> "user"]
  /\ np = [s \in Slot |-> None]
  /\ threads \in Threads

-----------------------------------------------------------------------------
(***************************************************************************)
(* Scheduling.                                                             *)
(***************************************************************************)
\* init has exited, and exit() has panicked ("init exiting"): nothing runs any more.
Panicked == pc[initproc] = "panic"
Running(p) == state[p] = "RUNNING" /\ ~Panicked

\* The table after wakeup1(c): sleepers on c become RUNNABLE.
Wakeup1_none(st, c) == st
Wakeup1(st, c) ==
  [s \in Slot |-> IF st[s] = "SLEEPING" /\ chan[s] = c THEN "RUNNABLE" ELSE st[s]]

Dispatch(p) ==
  /\ state[p] = "RUNNABLE" /\ ~Panicked
  /\ Cardinality({s \in Slot : Running(s)}) < NCPU
  /\ state' = [state EXCEPT ![p] = "RUNNING"]
  /\ UNCHANGED <<pid, parent, killed, chan, pgdir, tables, nextpid, pc, np>>

\* The timer interrupt.  Interrupts are off while a process holds ptable.lock (back
\* from sleep() in wait and join) and while it holds or spins for tickslock.
yield(p) ==
  /\ Running(p)
  /\ pc[p] \in {"user", "fork", "clone", "copied"}
  /\ state' = [state EXCEPT ![p] = "RUNNABLE"]
  /\ UNCHANGED <<pid, parent, killed, chan, pgdir, tables, nextpid, pc, np>>

\* trap() lets a process into a system call only when it is not killed.
Syscall(p) == Running(p) /\ pc[p] = "user" /\ ~killed[p]

-----------------------------------------------------------------------------
(***************************************************************************)
(* fork and clone.                                                         *)
(***************************************************************************)
Unused == {s \in Slot : state[s] = "UNUSED"}

\* fork or clone of p returns -1.  init.c exits when its fork fails.
Fails(p) == pc' = [pc EXCEPT ![p] = IF p = initproc THEN "panic" ELSE "user"]

\* allocproc finds no UNUSED slot and returns 0.
noslot(p) ==
  /\ Syscall(p)
  /\ Unused = {}
  /\ Fails(p)
  /\ UNCHANGED <<state, pid, parent, killed, chan, pgdir, tables, nextpid, np>>

\* allocproc as far as the release of ptable.lock, called by op of p.
allocproc(p, op) ==
  /\ Syscall(p)
  /\ Unused # {}
  /\ nextpid <= MaxPid
  /\ state' = [state EXCEPT ![Min(Unused)] = "EMBRYO"]
  /\ pid' = [pid EXCEPT ![Min(Unused)] = nextpid]
  /\ nextpid' = nextpid + 1
  /\ np' = [np EXCEPT ![p] = Min(Unused)]
  /\ pc' = [pc EXCEPT ![p] = op]
  /\ UNCHANGED <<parent, killed, chan, pgdir, tables>>

\* kalloc() of the kernel stack fails in allocproc.
nostack(p) ==
  /\ Running(p)
  /\ pc[p] \in {"fork", "clone"}
  /\ state' = [state EXCEPT ![np[p]] = "UNUSED"]
  /\ Fails(p)
  /\ np' = [np EXCEPT ![p] = None]
  /\ UNCHANGED <<pid, parent, killed, chan, pgdir, tables, nextpid>>

\* copyuvm() fails: pgdir becomes 0, the slot is given back, its pid stays.
copy_fails(p) ==
  /\ Running(p)
  /\ pc[p] = "fork"
  /\ state' = [state EXCEPT ![np[p]] = "UNUSED"]
  /\ pgdir' = [pgdir EXCEPT ![np[p]] = None]
  /\ Fails(p)
  /\ np' = [np EXCEPT ![p] = None]
  /\ UNCHANGED <<pid, parent, killed, chan, tables, nextpid>>

\* copyuvm() succeeds: a new page table, and curproc as the parent.
fork_copy(p) ==
  /\ Running(p)
  /\ pc[p] = "fork"
  /\ tables # Table
  /\ LET t == Min(Table \ tables)
     IN  /\ tables' = tables \cup {t}
         /\ pgdir' = [pgdir EXCEPT ![np[p]] = t]
  /\ parent' = [parent EXCEPT ![np[p]] = p]
  /\ pc' = [pc EXCEPT ![p] = "copied"]
  /\ UNCHANGED <<state, pid, killed, chan, nextpid, np>>

\* A thread shares the page table of its creator.
clone_copy(p) ==
  /\ Running(p)
  /\ pc[p] = "clone"
  /\ pgdir' = [pgdir EXCEPT ![np[p]] = pgdir[p]]
  /\ parent' = [parent EXCEPT ![np[p]] = p]
  /\ pc' = [pc EXCEPT ![p] = "copied"]
  /\ UNCHANGED <<state, pid, killed, chan, tables, nextpid, np>>

\* The end of fork and clone; the child's first instruction is in user space.
fork_done(p) ==
  /\ Running(p)
  /\ pc[p] = "copied"
  /\ state' = [state EXCEPT ![np[p]] = "RUNNABLE"]
  /\ pc' = [pc EXCEPT ![p] = "user", ![np[p]] = "user"]
  /\ np' = [np EXCEPT ![p] = None]
  /\ UNCHANGED <<pid, parent, killed, chan, pgdir, tables, nextpid>>

-----------------------------------------------------------------------------
(***************************************************************************)
(* exit, wait and join.                                                    *)
(***************************************************************************)
Children(p) == {s \in Slot : parent[s] = p}
Zombies == {s \in Slot : state[s] = "ZOMBIE"}

\* exit() of a program, or of trap() once the process is killed.  init's program
\* exits when its fork fails only (Fails).
exit_no_reparent(p) ==
  /\ Running(p)
  /\ pc[p] = "user"
  /\ p # initproc
  /\ state' = [Wakeup1(state, parent[p]) EXCEPT ![p] = "ZOMBIE"]
  /\ UNCHANGED <<pid, parent, killed, chan, pgdir, tables, nextpid, pc, np>>
exit(p) ==
  LET woken == Wakeup1(state, parent[p])
  IN  /\ Running(p)
      /\ pc[p] = "user"
      /\ p # initproc
      /\ parent' = [s \in Slot |-> IF s \in Children(p) THEN initproc ELSE parent[s]]
      /\ state' = [(IF Children(p) \cap Zombies # {} THEN Wakeup1(woken, initproc)
                                                     ELSE woken)
                   EXCEPT ![p] = "ZOMBIE"]
      /\ UNCHANGED <<pid, killed, chan, pgdir, tables, nextpid, pc, np>>

\* Entering the call op, or back in its loop after sleep() returned.
InCall(p, op) == Syscall(p) \/ (Running(p) /\ pc[p] = op)

\* sleep(curproc, &ptable.lock) and the return to user space; sleep() clears chan
\* when it returns.
SleepIn(p, op) ==
  /\ state' = [state EXCEPT ![p] = "SLEEPING"]
  /\ chan' = [chan EXCEPT ![p] = p]
  /\ pc' = [pc EXCEPT ![p] = op]
Return(p) ==
  /\ chan' = [chan EXCEPT ![p] = None]
  /\ pc' = [pc EXCEPT ![p] = "user"]

\* wait() finds a child that has exited and frees all it had.
wait_reap_leaks(p) ==
  LET z == Min(Children(p) \cap Zombies)
  IN  /\ InCall(p, "wait")
      /\ Children(p) \cap Zombies # {}
      /\ state' = [state EXCEPT ![z] = "UNUSED"]
      /\ tables' = tables
      /\ pid' = [pid EXCEPT ![z] = 0]
      /\ parent' = [parent EXCEPT ![z] = None]
      /\ killed' = [killed EXCEPT ![z] = FALSE]
      /\ Return(p)
      /\ UNCHANGED <<pgdir, nextpid, np>>
wait_reap(p) ==
  LET z == Min(Children(p) \cap Zombies)
  IN  /\ InCall(p, "wait")
      /\ Children(p) \cap Zombies # {}
      /\ state' = [state EXCEPT ![z] = "UNUSED"]
      /\ tables' = tables \ {pgdir[z]}
      /\ pid' = [pid EXCEPT ![z] = 0]
      /\ parent' = [parent EXCEPT ![z] = None]
      /\ killed' = [killed EXCEPT ![z] = FALSE]
      /\ Return(p)
      /\ UNCHANGED <<pgdir, nextpid, np>>

\* No slot names the caller as its parent, or the caller was killed: -1.
wait_none(p) ==
  /\ InCall(p, "wait")
  /\ Children(p) \cap Zombies = {}
  /\ Children(p) = {} \/ killed[p]
  /\ Return(p)
  /\ UNCHANGED <<state, pid, parent, killed, pgdir, tables, nextpid, np>>

wait_sleep_anyway(p) ==
  /\ InCall(p, "wait")
  /\ Children(p) \cap Zombies = {}
  /\ Children(p) # {}
  /\ SleepIn(p, "wait")
  /\ UNCHANGED <<pid, parent, killed, pgdir, tables, nextpid, np>>
wait_sleep(p) ==
  /\ InCall(p, "wait")
  /\ Children(p) \cap Zombies = {}
  /\ Children(p) # {} /\ ~killed[p]
  /\ SleepIn(p, "wait")
  /\ UNCHANGED <<pid, parent, killed, pgdir, tables, nextpid, np>>

\* The zombies join() takes: those of the caller, and those whose page table is
\* their parent's.  (A slot without a parent is never a ZOMBIE.)
Joinable(p) ==
  {s \in Zombies : parent[s] = p \/ (parent[s] # None /\ pgdir[parent[s]] = pgdir[s])}

\* join() frees the kernel stack and the slot, and nothing else.
join_reap(p) ==
  /\ threads
  /\ InCall(p, "join")
  /\ Joinable(p) # {}
  /\ state' = [state EXCEPT ![Min(Joinable(p))] = "UNUSED"]
  /\ Return(p)
  /\ UNCHANGED <<pid, parent, killed, pgdir, tables, nextpid, np>>

join_sleep(p) ==
  /\ threads
  /\ InCall(p, "join")
  /\ Joinable(p) = {}
  /\ SleepIn(p, "join")
  /\ UNCHANGED <<pid, parent, killed, pgdir, tables, nextpid, np>>

-----------------------------------------------------------------------------
(***************************************************************************)
(* kill, and sys_sleep as the other place where a process sleeps.          *)
(***************************************************************************)
\* kill(k) marks the first slot that holds pid k, whatever its state.
kill_no_wake(k) ==
  LET hit == {s \in Slot : pid[s] = k}
  IN  /\ hit # {}
      /\ killed' = [killed EXCEPT ![Min(hit)] = TRUE]
      /\ UNCHANGED <<state, pid, parent, chan, pgdir, tables, nextpid, pc, np>>
kill(k) ==
  LET hit == {s \in Slot : pid[s] = k}
  IN  /\ hit # {}
      /\ killed' = [killed EXCEPT ![Min(hit)] = TRUE]
      /\ state' = [state EXCEPT ![Min(hit)] = IF @ = "SLEEPING" THEN "RUNNABLE" ELSE @]
      /\ UNCHANGED <<pid, parent, chan, pgdir, tables, nextpid, pc, np>>

sys_kill(p, k) == Syscall(p) /\ kill(k)

TicksLockFree == \A s \in Slot : pc[s] # "ticks"

\* sys_sleep takes tickslock and looks at the time and at killed ...
sys_sleep(p) ==
  /\ InCall(p, "sleep")
  /\ TicksLockFree
  /\ ~killed[p]
  /\ pc' = [pc EXCEPT ![p] = "ticks"]
  /\ chan' = [chan EXCEPT ![p] = None]
  /\ UNCHANGED <<state, pid, parent, killed, pgdir, tables, nextpid, np>>

\* ... then sleeps on &ticks, giving up tickslock in the same step ...
ticks_sleep(p) ==
  /\ Running(p)
  /\ pc[p] = "ticks"
  /\ state' = [state EXCEPT ![p] = "SLEEPING"]
  /\ chan' = [chan EXCEPT ![p] = ticks]
  /\ pc' = [pc EXCEPT ![p] = "sleep"]
  /\ UNCHANGED <<pid, parent, killed, pgdir, tables, nextpid, np>>

\* ... and returns when its time has come or it was killed.
sleep_return(p) ==
  /\ Running(p)
  /\ pc[p] = "sleep"
  /\ TicksLockFree
  /\ Return(p)
  /\ UNCHANGED <<state, pid, parent, killed, pgdir, tables, nextpid, np>>

\* The timer interrupt on CPU 0: ticks++ and wakeup(&ticks) under tickslock.
tick ==
  /\ TicksLockFree /\ ~Panicked
  /\ \E s \in Slot : state[s] = "SLEEPING" /\ chan[s] = ticks
  /\ state' = Wakeup1(state, ticks)
  /\ UNCHANGED <<pid, parent, killed, chan, pgdir, tables, nextpid, pc, np>>

-----------------------------------------------------------------------------
fork(p) == allocproc(p, "fork") \/ noslot(p)
clone(p) == threads /\ (allocproc(p, "clone") \/ noslot(p))
wait(p) == wait_reap(p) \/ wait_none(p) \/ wait_sleep(p)
join(p) == join_reap(p) \/ join_sleep(p)

\* Steps of a process that is inside the kernel: its program has no say in them.
KernelStep(p) ==
  \/ nostack(p) \/ copy_fails(p) \/ fork_copy(p) \/ clone_copy(p) \/ fork_done(p)
  \/ pc[p] = "wait" /\ wait(p)
  \/ pc[p] = "join" /\ join(p)
  \/ pc[p] = "sleep" /\ sys_sleep(p)
  \/ ticks_sleep(p)
  \/ sleep_return(p)
  \/ killed[p] /\ exit(p)

\* System calls a program makes as it likes; init.c only forks and waits.
Call(p) ==
  \/ fork(p)
  \/ pc[p] = "user" /\ wait(p)
  \/ /\ p # initproc
     /\ \/ clone(p) \/ exit(p)
        \/ pc[p] = "user" /\ (join(p) \/ sys_sleep(p))
        \/ \E k \in KillPids : sys_kill(p, k)

Next ==
  /\ tick \/ \E p \in Slot : Dispatch(p) \/ yield(p) \/ KernelStep(p) \/ Call(p)
  /\ UNCHANGED threads

Spec == Init /\ [][Next]_vars

\* Every RUNNABLE process is drawn again and again (module Lottery); the timer
\* ends a turn but not before the process has executed something; init.c calls
\* wait() again and again; clock ticks keep coming.
Fairness ==
  /\ \A p \in Slot : SF_ptable(Dispatch(p)) /\ SF_ptable(KernelStep(p)) /\ WF_ptable(yield(p))
  /\ SF_ptable(wait(initproc))
  /\ WF_ptable(tick)

FairSpec == Spec /\ Fairness

-----------------------------------------------------------------------------
(***************************************************************************)
(* Properties.                                                             *)
(***************************************************************************)
\* Every field of the table has its type, and np names an EMBRYO exactly while its
\* process is inside fork or clone: no other process may take that slot.
TypeOK ==
  /\ state \in [Slot -> States]
  /\ pid \in [Slot -> 0..MaxPid]
  /\ parent \in [Slot -> Slot \cup {None}]
  /\ killed \in [Slot -> BOOLEAN]
  /\ chan \in [Slot -> Slot \cup {None, ticks}]
  /\ pgdir \in [Slot -> Table \cup {None}]
  /\ tables \subseteq Table
  /\ nextpid \in 1..MaxPid + 1
  /\ pc \in [Slot -> Places]
  /\ np \in [Slot -> Slot \cup {None}]

Forking(p) == pc[p] \in {"fork", "clone", "copied"}

\* The unlocked half of fork and clone is safe: the EMBRYO it fills belongs to one
\* creator only, which is alive, and stays EMBRYO until that creator is done.
EmbryoOwned ==
  /\ \A p \in Slot : Forking(p) => state[p] \in Alive /\ np[p] # None /\ state[np[p]] = "EMBRYO"
  /\ \A s \in Slot : state[s] = "EMBRYO" =>
       \E p \in Slot : Forking(p) /\ np[p] = s /\ \A q \in Slot \ {p} : np[q] # s

\* kill(pid) reaches the process that has this pid: no other slot, not even an
\* UNUSED one that still holds an old pid, comes before it in kill()'s scan.
PidFindsProcess ==
  \A s \in Slot : state[s] # "UNUSED" => /\ pid[s] # 0
                                        /\ {t \in Slot : pid[t] = pid[s]} = {s}

\* Every process but init has a parent that can still wait for it: exit() hands
\* children over before their parent becomes a ZOMBIE.
ParentAlive ==
  \A s \in Slot \ {initproc} :
    state[s] \in Alive \cup {"ZOMBIE"} => parent[s] # None /\ state[parent[s]] \in Alive

\* What the table promises to the code that scans it: types, EMBRYOs with one creator, pids
\* that find their process, parents that can wait.
TableInv == TypeOK /\ EmbryoOwned /\ PidFindsProcess /\ ParentAlive

\* No exit is missed: whoever sleeps in wait() or join() has no ZOMBIE child; without threads,
\* whoever sleeps in wait() has children, too, and has not been killed.
NoExitMissed ==
  \A s \in Slot : state[s] = "SLEEPING" /\ pc[s] \in {"wait", "join"} =>
    /\ Children(s) \cap Zombies = {}
    /\ pc[s] = "wait" /\ ~threads => Children(s) # {} /\ ~killed[s]

\* Without threads, page tables are owned: each process that may run, and each
\* ZOMBIE, has an allocated table of its own, and no other table is allocated
\* (nothing is freed twice, freed while in use, or leaked).
TablesOwned ==
  LET owners == {s \in Slot : state[s] \in Alive \cup {"ZOMBIE"}}
      filling == {np[p] : p \in {q \in Slot : pc[q] = "copied"}}
  IN  ~threads => /\ tables = {pgdir[s] : s \in owners \cup filling}
                  /\ Cardinality(tables) = Cardinality(owners \cup filling)

\* Without threads, a killed process exits, wherever it was: kill() wakes it and the
\* call it sleeps in gives up (join() does not); unless init exits first.
KilledExits ==
  \A s \in Slot \ {initproc} :
    ~threads /\ killed[s] /\ state[s] \in Alive ~> state[s] \notin Alive \/ Panicked

\* A ZOMBIE that was handed to init is reaped: init's wait() is woken for it; unless init
\* exits first, since it could not fork.
OrphansReaped ==
  \A s \in Slot : state[s] = "ZOMBIE" /\ parent[s] = initproc ~> state[s] # "ZOMBIE" \/ Panicked
=============================================================================
