----------------------------- MODULE SleepLock ------------------------------
(***************************************************************************)
(* Sleep locks (sleeplock.c) on top of sleep, wakeup, yield, sched and the *)
(* scheduler (proc.c) on top of spin locks (spinlock.c), lock operation by *)
(* lock operation, on several CPUs.                                        *)
(*                                                                         *)
(* Processes call acquiresleep, holdingsleep and releasesleep on one sleep *)
(* lock.  A process runs on the CPU c with cpu[c] = p; swtch moves the CPU *)
(* between a process and its scheduler loop, and ptable.lock, taken on one *)
(* side of a swtch, is released on the other.  A spin lock is held by a CPU*)
(* (lk->cpu) with interrupts off, so the timer's yield comes only where the*)
(* CPU holds no lock.                                                      *)
(*                                                                         *)
(* pc[p] names the next step of p; ret[p] is the caller's position to which*)
(* a call returns: "idle" outside the sleep lock, "held" inside.           *)
(***************************************************************************)
EXTENDS Naturals, FiniteSets

CONSTANTS Proc, CPU, None

ASSUME SleepLockAssumption == None \notin Proc /\ None \notin CPU

VARIABLES
  pc, ret,
  state, chan,     \* p->state; whether p->chan is the sleep lock
  cpu,             \* c->proc
  loop,            \* where each CPU's scheduler loop is; "away" while c->proc runs
  lk, ptable,      \* the CPU that holds the sleep lock's spin lock, ptable.lock
  locked, owner    \* lk->locked and lk->pid of the sleep lock

vars == <<pc, ret, state, chan, cpu, loop, lk, ptable, locked, owner>>

Init ==
  /\ pc = [p \in Proc |-> "y_rel"]           \* forkret: release(&ptable.lock)
  /\ ret = [p \in Proc |-> "idle"]
  /\ state = [p \in Proc |-> "RUNNABLE"]
  /\ chan = [p \in Proc |-> FALSE]
  /\ cpu = [c \in CPU |-> None]
  /\ loop = [c \in CPU |-> "out"]
  /\ lk = None /\ ptable = None
  /\ locked = FALSE /\ owner = None

-----------------------------------------------------------------------------
(***************************************************************************)
(* Steps.  Process p runs on CPU c; at(p, c, l) is the guard of step l.    *)
(***************************************************************************)
at(p, c, l) == cpu[c] = p /\ pc[p] = l
goto(p, l) == pc' = [pc EXCEPT ![p] = l]

\* acquire and release of the sleep lock's spin lock, and of ptable.lock.
AcquireLk(p, c, l, m) ==
  /\ at(p, c, l) /\ lk = None
  /\ lk' = c /\ goto(p, m)
  /\ UNCHANGED <<ret, state, chan, cpu, loop, ptable, locked, owner>>
ReleaseLk(p, c, l, m) ==
  /\ at(p, c, l)
  /\ lk' = None /\ goto(p, m)
  /\ UNCHANGED <<ret, state, chan, cpu, loop, ptable, locked, owner>>
AcquirePt(p, c, l, m) ==
  /\ at(p, c, l) /\ ptable = None
  /\ ptable' = c /\ goto(p, m)
  /\ UNCHANGED <<ret, state, chan, cpu, loop, lk, locked, owner>>
ReleasePt(p, c, l, m) ==
  /\ at(p, c, l)
  /\ ptable' = None /\ goto(p, m)
  /\ UNCHANGED <<ret, state, chan, cpu, loop, lk, locked, owner>>

\* A caller starts one of the three operations.
Call(p, c) ==
  /\ \/ at(p, c, "idle") /\ goto(p, "a_acq") /\ UNCHANGED ret
     \/ at(p, c, "held") /\ goto(p, "h_acq") /\ UNCHANGED ret
     \/ at(p, c, "held") /\ goto(p, "r_acq") /\ UNCHANGED ret
  /\ UNCHANGED <<state, chan, cpu, loop, lk, ptable, locked, owner>>

\* acquiresleep: acquire(&lk->lk); while (lk->locked) sleep; take it.
Take_blindly(p, c) ==
  /\ at(p, c, "a_test")
  /\ locked' = TRUE /\ owner' = p
  /\ ret' = [ret EXCEPT ![p] = "held"]
  /\ goto(p, "a_rel")
  /\ UNCHANGED <<state, chan, cpu, loop, lk, ptable>>
Take(p, c) ==
  /\ at(p, c, "a_test") /\ ~locked
  /\ locked' = TRUE /\ owner' = p
  /\ ret' = [ret EXCEPT ![p] = "held"]
  /\ goto(p, "a_rel")
  /\ UNCHANGED <<state, chan, cpu, loop, lk, ptable>>
Wait(p, c) ==
  /\ at(p, c, "a_test") /\ locked
  /\ goto(p, "s_acq")
  /\ UNCHANGED <<ret, state, chan, cpu, loop, lk, ptable, locked, owner>>

acquiresleep(p, c) ==
  \/ AcquireLk(p, c, "a_acq", "a_test")
  \/ Take(p, c) \/ Wait(p, c)
  \/ ReleaseLk(p, c, "a_rel", "held")

\* sched(): swtch to the scheduler loop, with ptable.lock held.
sched(p, c, l, m) ==
  /\ at(p, c, l)
  /\ cpu' = [cpu EXCEPT ![c] = None]
  /\ loop' = [loop EXCEPT ![c] = "back"]
  /\ goto(p, m)
  /\ UNCHANGED <<ret, state, chan, lk, ptable, locked, owner>>

\* sleep(lk, &lk->lk): ptable.lock is taken before lk is released.
GoToSleep(p, c) ==
  /\ at(p, c, "s_set")
  /\ chan' = [chan EXCEPT ![p] = TRUE]
  /\ state' = [state EXCEPT ![p] = "SLEEPING"]
  /\ goto(p, "s_sw")
  /\ UNCHANGED <<ret, cpu, loop, lk, ptable, locked, owner>>
Tidy(p, c) ==
  /\ at(p, c, "s_tidy")
  /\ chan' = [chan EXCEPT ![p] = FALSE]
  /\ goto(p, "s_relp")
  /\ UNCHANGED <<ret, state, cpu, loop, lk, ptable, locked, owner>>

sleep_unlocked(p, c) ==
  \/ ReleaseLk(p, c, "s_acq", "s_rel")
  \/ AcquirePt(p, c, "s_rel", "s_set")
  \/ GoToSleep(p, c)
  \/ sched(p, c, "s_sw", "s_tidy")
  \/ Tidy(p, c)
  \/ ReleasePt(p, c, "s_relp", "a_acq")
sleep_early_release(p, c) ==
  \/ AcquirePt(p, c, "s_acq", "s_rel")
  \/ ReleaseLk(p, c, "s_rel", "s_set")
  \/ GoToSleep(p, c)
  \/ ReleasePt(p, c, "s_sw", "s_off")
  \/ sched(p, c, "s_off", "a_acq")
sleep(p, c) ==
  \/ AcquirePt(p, c, "s_acq", "s_rel")
  \/ ReleaseLk(p, c, "s_rel", "s_set")
  \/ GoToSleep(p, c)
  \/ sched(p, c, "s_sw", "s_tidy")
  \/ Tidy(p, c)
  \/ ReleasePt(p, c, "s_relp", "a_acq")

\* holdingsleep: only its caller can be the owner while it is inside.
holdingsleep(p, c) ==
  \/ AcquireLk(p, c, "h_acq", "h_read")
  \/ ReleaseLk(p, c, "h_read", "held")

\* releasesleep: clear the lock, wakeup(lk) under ptable.lock, release.
Clear(p, c) ==
  /\ at(p, c, "r_clr")
  /\ locked' = FALSE /\ owner' = None
  /\ ret' = [ret EXCEPT ![p] = "idle"]
  /\ goto(p, "w_acq")
  /\ UNCHANGED <<state, chan, cpu, loop, lk, ptable>>
wakeup1(p, c) ==
  /\ at(p, c, "w_wake")
  /\ state' = [q \in Proc |-> IF state[q] = "SLEEPING" /\ chan[q] THEN "RUNNABLE" ELSE state[q]]
  /\ goto(p, "w_rel")
  /\ UNCHANGED <<ret, chan, cpu, loop, lk, ptable, locked, owner>>

releasesleep(p, c) ==
  \/ AcquireLk(p, c, "r_acq", "r_clr")
  \/ Clear(p, c)
  \/ AcquirePt(p, c, "w_acq", "w_wake")
  \/ wakeup1(p, c)
  \/ ReleasePt(p, c, "w_rel", "r_rel")
  \/ ReleaseLk(p, c, "r_rel", "idle")

\* yield() from the timer interrupt, where the CPU holds no spin lock; y_rel is
\* also where a new process starts, in forkret.  The timer between the first line of a
\* call and its acquire is the same to everybody else as the timer before the call.
StopRunning(p, c) ==
  /\ at(p, c, "y_set")
  /\ state' = [state EXCEPT ![p] = "RUNNABLE"]
  /\ goto(p, "y_sw")
  /\ UNCHANGED <<ret, chan, cpu, loop, lk, ptable, locked, owner>>

yield(p, c) ==
  \/ \E l \in {"idle", "held"} : AcquirePt(p, c, l, "y_set")
  \/ StopRunning(p, c)
  \/ sched(p, c, "y_sw", "y_rel")
  \/ ReleasePt(p, c, "y_rel", ret[p])

\* The scheduler's loop on CPU c.
Enter(c) ==
  /\ loop[c] = "out" /\ ptable = None
  /\ ptable' = c
  /\ loop' = [loop EXCEPT ![c] = "scan"]
  /\ UNCHANGED <<pc, ret, state, chan, cpu, lk, locked, owner>>
Switch(p, c) ==
  /\ loop[c] = "scan" /\ state[p] = "RUNNABLE"
  /\ cpu' = [cpu EXCEPT ![c] = p]
  /\ state' = [state EXCEPT ![p] = "RUNNING"]
  /\ loop' = [loop EXCEPT ![c] = "away"]
  /\ UNCHANGED <<pc, ret, chan, lk, ptable, locked, owner>>
Leave(c) ==
  /\ \/ loop[c] = "back"
     \/ loop[c] = "scan" /\ \A p \in Proc : state[p] # "RUNNABLE"
  /\ ptable' = None
  /\ loop' = [loop EXCEPT ![c] = "out"]
  /\ UNCHANGED <<pc, ret, state, chan, cpu, lk, locked, owner>>

scheduler(c) == Enter(c) \/ Leave(c) \/ \E p \in Proc : Switch(p, c)

Step(p, c) ==
  acquiresleep(p, c) \/ sleep(p, c) \/ holdingsleep(p, c) \/ releasesleep(p, c)

Next == \E c \in CPU : scheduler(c) \/ \E p \in Proc : Call(p, c) \/ Step(p, c) \/ yield(p, c)

Spec == Init /\ [][Next]_vars

\* An instruction that can go on again and again is executed, the xchg of acquire
\* included; the timer keeps ticking; a RUNNABLE process is drawn at last; the holder of the sleep lock gives
\* it back.
Fairness ==
  /\ \A p \in Proc :
       /\ SF_vars(\E c \in CPU : Step(p, c))
       /\ SF_vars(\E c \in CPU : yield(p, c))
       /\ SF_vars(\E c \in CPU : Switch(p, c))
       /\ SF_vars(\E c \in CPU : at(p, c, "held") /\ Call(p, c) /\ pc'[p] = "r_acq")
  /\ \A c \in CPU : SF_vars(Enter(c)) /\ WF_vars(Leave(c))

FairSpec == Spec /\ Fairness

-----------------------------------------------------------------------------
(***************************************************************************)
(* Properties.                                                             *)
(***************************************************************************)
\* Steps taken with the sleep lock's spin lock held, and with ptable.lock held.
InLk == {"a_test", "a_rel", "s_acq", "s_rel", "h_read", "r_clr", "w_acq", "w_wake", "w_rel", "r_rel"}
InPt == {"s_rel", "s_set", "s_sw", "s_tidy", "s_relp", "w_wake", "w_rel", "y_set", "y_sw", "y_rel"}
Places == {"idle", "held", "a_acq", "h_acq", "r_acq"} \cup InLk \cup InPt

\* Every variable has its type, and a CPU has a process exactly while its scheduler
\* loop is switched away.
TypeOK ==
  /\ pc \in [Proc -> Places]
  /\ ret \in [Proc -> {"idle", "held"}]
  /\ state \in [Proc -> {"RUNNABLE", "RUNNING", "SLEEPING"}]
  /\ chan \in [Proc -> BOOLEAN]
  /\ cpu \in [CPU -> Proc \cup {None}]
  /\ loop \in [CPU -> {"out", "scan", "back", "away"}]
  /\ \A c \in CPU : loop[c] = "away" <=> cpu[c] # None
  /\ lk \in CPU \cup {None} /\ ptable \in CPU \cup {None}
  /\ locked \in BOOLEAN /\ owner \in Proc \cup {None}

\* acquiresleep excludes: whoever is between acquiresleep and releasesleep is the
\* owner on record, so there is one at most and holdingsleep answers yes.
MutualExclusion == \A p \in Proc : ret[p] = "held" => locked /\ owner = p

\* No process is on two CPUs: a process that has marked itself SLEEPING or RUNNABLE
\* is not picked up by another CPU before its own has switched away from it.
OneCPU ==
  /\ \A c, d \in CPU : cpu[c] = cpu[d] /\ cpu[c] # None => c = d
  /\ \A c, d \in CPU : loop[c] = "scan" /\ cpu[d] # None => state[cpu[d]] = "RUNNING"

\* No panic: release() finds the lock held by its CPU, acquire() finds it not held,
\* and sched() finds ptable.lock held, no other lock, and a state other than RUNNING.
NoPanic ==
  \A c \in CPU : cpu[c] # None =>
    LET l == pc[cpu[c]]
    IN  /\ l \in InLk <=> lk = c
        /\ l \in InPt <=> ptable = c
        /\ l \in {"s_sw", "y_sw"} => state[cpu[c]] # "RUNNING"

\* No wakeup is lost: while a process sleeps on the lock, the lock is taken, or the
\* process that has just cleared it is still on its way to wakeup1.
NoLostWakeup ==
  \A p \in Proc : state[p] = "SLEEPING" =>
    locked \/ \E q \in Proc : pc[q] \in {"w_acq", "w_wake"}

\* A free sleep lock that somebody asks for is taken.
Asking(p) == ret[p] = "idle" /\ pc[p] \in {"a_acq", "a_test", "s_acq", "s_rel", "s_set", "s_sw", "s_tidy", "s_relp"}
FreeLockTaken == (~locked /\ \E p \in Proc : Asking(p)) ~> locked

\* Sleep locks implement Mutex.
M == INSTANCE Mutex WITH
       Nobody <- None,
       asking <- {p \in Proc : Asking(p)},
       holder <- owner
ImplementsMutex == M!MSpec

(***************************************************************************)
(* The inductive invariant behind the safety properties.                   *)
(***************************************************************************)
\* Who is where: a process is on one CPU at most and, off the CPUs, it is where
\* sched() returns to.
CpuInv ==
  /\ \A c, d \in CPU : cpu[c] = cpu[d] /\ cpu[c] # None => c = d
  /\ \A p \in Proc : (\A c \in CPU : cpu[c] # p) =>
       pc[p] \in {"s_tidy", "y_rel"} /\ state[p] # "RUNNING"
  /\ \A c \in CPU : cpu[c] # None =>
       state[cpu[c]] = (IF pc[cpu[c]] = "s_sw" THEN "SLEEPING"
                        ELSE IF pc[cpu[c]] = "y_sw" THEN "RUNNABLE" ELSE "RUNNING")

\* Which CPU holds which spin lock.
LockInv ==
  \A c \in CPU :
    /\ lk = c <=> cpu[c] # None /\ pc[cpu[c]] \in InLk
    /\ ptable = c <=> \/ cpu[c] # None /\ pc[cpu[c]] \in InPt
                      \/ loop[c] \in {"scan", "back"}

\* Who has the sleep lock.
HoldInv ==
  /\ locked <=> owner # None
  /\ \A p \in Proc :
       /\ ret[p] = "held" <=> owner = p
       /\ pc[p] \in {"a_rel", "held", "h_acq", "h_read", "r_acq", "r_clr"} => ret[p] = "held"
       /\ ret[p] = "held" => pc[p] \in {"a_rel", "held", "h_acq", "h_read", "r_acq", "r_clr",
                                        "y_set", "y_sw", "y_rel"}

\* Who sleeps, or has made up its mind to, and who will wake it.
SleepInv ==
  /\ \A p \in Proc : pc[p] \in {"s_acq", "s_rel"} => locked
  /\ \A p \in Proc : state[p] = "SLEEPING" => chan[p] /\ pc[p] \in {"s_sw", "s_tidy"}
  /\ \A p \in Proc : state[p] = "SLEEPING" \/ pc[p] = "s_set" =>
       locked \/ \E q \in Proc : pc[q] \in {"w_acq", "w_wake"}

SleepIInv == TypeOK /\ CpuInv /\ LockInv /\ HoldInv /\ SleepInv
=============================================================================
