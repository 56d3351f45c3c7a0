-------------------------- MODULE SleepLockProofs ---------------------------
(***************************************************************************)
(* Proofs about SleepLock, for any number of processes and CPUs: the       *)
(* invariant SleepIInv is inductive, it implies the safety properties, and *)
(* sleep locks implement Mutex.                                            *)
(***************************************************************************)
EXTENDS SleepLock, TLAPS

USE SleepLockAssumption

\* Before any process has run the invariant holds.
LEMMA InitInv == Init => SleepIInv
<1> SUFFICES ASSUME Init PROVE SleepIInv
  OBVIOUS
<1>1. TypeOK
  BY DEF Init, TypeOK, Places, InLk, InPt
<1>2. CpuInv
  BY DEF Init, CpuInv
<1>3. LockInv
  BY DEF Init, LockInv, InLk, InPt
<1>4. HoldInv
  BY DEF Init, HoldInv
<1>5. SleepInv
  BY DEF Init, SleepInv
<1> QED  BY <1>1, <1>2, <1>3, <1>4, <1>5 DEF SleepIInv

\* acquire of the sleep lock's spin lock keeps the invariant.
LEMMA StepAcquireLk ==
  ASSUME SleepIInv, NEW p \in Proc, NEW c \in CPU, NEW l, NEW m,
         <<l, m>> \in {<<"a_acq", "a_test">>, <<"h_acq", "h_read">>, <<"r_acq", "r_clr">>},
         AcquireLk(p, c, l, m)
  PROVE  SleepIInv'
<1> USE DEF SleepIInv
<1>1. TypeOK'
  BY DEF TypeOK, AcquireLk, at, goto, Places, InLk, InPt
<1>2. CpuInv'
  BY DEF TypeOK, AcquireLk, at, goto, CpuInv, LockInv, InPt
<1>3. LockInv'
  BY DEF TypeOK, AcquireLk, at, goto, CpuInv, LockInv, InLk, InPt
<1>4. HoldInv'
  BY DEF TypeOK, AcquireLk, at, goto, HoldInv
<1>5. SleepInv'
  BY DEF TypeOK, AcquireLk, at, goto, SleepInv, CpuInv, LockInv, HoldInv, InLk, InPt
<1> QED  BY <1>1, <1>2, <1>3, <1>4, <1>5

\* release of the sleep lock's spin lock keeps the invariant.
LEMMA StepReleaseLk ==
  ASSUME SleepIInv, NEW p \in Proc, NEW c \in CPU, NEW l, NEW m,
         <<l, m>> \in {<<"a_rel", "held">>, <<"s_rel", "s_set">>, <<"h_read", "held">>, <<"r_rel", "idle">>},
         ReleaseLk(p, c, l, m)
  PROVE  SleepIInv'
<1> USE DEF SleepIInv
<1>1. TypeOK'
  BY DEF TypeOK, ReleaseLk, at, goto, Places, InLk, InPt
<1>2. CpuInv'
  BY DEF TypeOK, ReleaseLk, at, goto, CpuInv, LockInv, InPt
<1>3. LockInv'
  BY DEF TypeOK, ReleaseLk, at, goto, CpuInv, LockInv, InLk, InPt
<1>4. HoldInv'
  BY DEF TypeOK, ReleaseLk, at, goto, HoldInv
<1>5. SleepInv'
  BY DEF TypeOK, ReleaseLk, at, goto, SleepInv, CpuInv, LockInv, HoldInv, InLk, InPt
<1> QED  BY <1>1, <1>2, <1>3, <1>4, <1>5

\* acquire of ptable.lock keeps the invariant.
LEMMA StepAcquirePt ==
  ASSUME SleepIInv, NEW p \in Proc, NEW c \in CPU, NEW l, NEW m,
         <<l, m>> \in {<<"s_acq", "s_rel">>, <<"w_acq", "w_wake">>, <<"idle", "y_set">>, <<"held", "y_set">>},
         AcquirePt(p, c, l, m)
  PROVE  SleepIInv'
<1> USE DEF SleepIInv
<1>1. TypeOK'
  BY DEF TypeOK, AcquirePt, at, goto, Places, InLk, InPt
<1>2. CpuInv'
  BY DEF TypeOK, AcquirePt, at, goto, CpuInv, LockInv, InPt
<1>3. LockInv'
  BY DEF TypeOK, AcquirePt, at, goto, CpuInv, LockInv, InLk, InPt
<1>4. HoldInv'
  BY DEF TypeOK, AcquirePt, at, goto, HoldInv
<1>5. SleepInv'
  BY DEF TypeOK, AcquirePt, at, goto, SleepInv, CpuInv, LockInv, HoldInv, InLk, InPt
<1> QED  BY <1>1, <1>2, <1>3, <1>4, <1>5

\* release of ptable.lock keeps the invariant.
LEMMA StepReleasePt ==
  ASSUME SleepIInv, NEW p \in Proc, NEW c \in CPU, NEW l, NEW m,
         <<l, m>> \in {<<"s_relp", "a_acq">>, <<"w_rel", "r_rel">>},
         ReleasePt(p, c, l, m)
  PROVE  SleepIInv'
<1> USE DEF SleepIInv
<1>1. TypeOK'
  BY DEF TypeOK, ReleasePt, at, goto, Places, InLk, InPt
<1>2. CpuInv'
  BY DEF TypeOK, ReleasePt, at, goto, CpuInv, LockInv, InPt
<1>3. LockInv'
  BY DEF TypeOK, ReleasePt, at, goto, CpuInv, LockInv, InLk, InPt
<1>4. HoldInv'
  BY DEF TypeOK, ReleasePt, at, goto, HoldInv
<1>5. SleepInv'
  BY DEF TypeOK, ReleasePt, at, goto, SleepInv, CpuInv, LockInv, HoldInv, InLk, InPt
<1> QED  BY <1>1, <1>2, <1>3, <1>4, <1>5

\* The end of yield, and forkret, keep the invariant.
LEMMA StepResume ==
  ASSUME SleepIInv, NEW p \in Proc, NEW c \in CPU,
         ReleasePt(p, c, "y_rel", ret[p])
  PROVE  SleepIInv'
<1> USE DEF SleepIInv
<1>1. TypeOK'
  BY DEF TypeOK, ReleasePt, at, goto, Places, InLk, InPt
<1>2. CpuInv'
  BY DEF TypeOK, ReleasePt, at, goto, CpuInv, LockInv, InPt
<1>3. LockInv'
  BY DEF TypeOK, ReleasePt, at, goto, CpuInv, LockInv, InLk, InPt
<1>4. HoldInv'
  BY DEF TypeOK, ReleasePt, at, goto, HoldInv
<1>5. SleepInv'
  BY DEF TypeOK, ReleasePt, at, goto, SleepInv, CpuInv, LockInv, HoldInv, InLk, InPt
<1> QED  BY <1>1, <1>2, <1>3, <1>4, <1>5

\* The switch to the scheduler keeps the invariant.
LEMMA StepSched ==
  ASSUME SleepIInv, NEW p \in Proc, NEW c \in CPU, NEW l, NEW m,
         <<l, m>> \in {<<"s_sw", "s_tidy">>, <<"y_sw", "y_rel">>},
         sched(p, c, l, m)
  PROVE  SleepIInv'
<1> USE DEF SleepIInv
<1>1. TypeOK'
  BY DEF TypeOK, sched, at, goto, Places, InLk, InPt
<1>2. CpuInv'
  BY DEF TypeOK, sched, at, goto, CpuInv, LockInv, InPt
<1>3. LockInv'
  BY DEF TypeOK, sched, at, goto, CpuInv, LockInv, InLk, InPt
<1>4. HoldInv'
  BY DEF TypeOK, sched, at, goto, HoldInv
<1>5. SleepInv'
  BY DEF TypeOK, sched, at, goto, SleepInv, CpuInv, LockInv, HoldInv, InLk, InPt
<1> QED  BY <1>1, <1>2, <1>3, <1>4, <1>5

\* Call keeps the invariant.
LEMMA Step_Call ==
  ASSUME SleepIInv, NEW p \in Proc, NEW c \in CPU,
         Call(p, c)
  PROVE  SleepIInv'
<1> USE DEF SleepIInv
<1>1. TypeOK'
  BY DEF TypeOK, Call, at, goto, Places, InLk, InPt
<1>2. CpuInv'
  BY DEF TypeOK, Call, at, goto, CpuInv, LockInv, InPt
<1>3. LockInv'
  BY DEF TypeOK, Call, at, goto, CpuInv, LockInv, InLk, InPt
<1>4. HoldInv'
  BY DEF TypeOK, Call, at, goto, HoldInv
<1>5. SleepInv'
  BY DEF TypeOK, Call, at, goto, SleepInv, CpuInv, LockInv, HoldInv, InLk, InPt
<1> QED  BY <1>1, <1>2, <1>3, <1>4, <1>5

\* Take keeps the invariant.
LEMMA Step_Take ==
  ASSUME SleepIInv, NEW p \in Proc, NEW c \in CPU,
         Take(p, c)
  PROVE  SleepIInv'
<1> USE DEF SleepIInv
<1>1. TypeOK'
  BY DEF TypeOK, Take, at, goto, Places, InLk, InPt
<1>2. CpuInv'
  BY DEF TypeOK, Take, at, goto, CpuInv, LockInv, InPt
<1>3. LockInv'
  BY DEF TypeOK, Take, at, goto, CpuInv, LockInv, InLk, InPt
<1>4. HoldInv'
  BY DEF TypeOK, Take, at, goto, HoldInv
<1>5. SleepInv'
  BY DEF TypeOK, Take, at, goto, SleepInv, CpuInv, LockInv, HoldInv, InLk, InPt
<1> QED  BY <1>1, <1>2, <1>3, <1>4, <1>5

\* Wait keeps the invariant.
LEMMA Step_Wait ==
  ASSUME SleepIInv, NEW p \in Proc, NEW c \in CPU,
         Wait(p, c)
  PROVE  SleepIInv'
<1> USE DEF SleepIInv
<1>1. TypeOK'
  BY DEF TypeOK, Wait, at, goto, Places, InLk, InPt
<1>2. CpuInv'
  BY DEF TypeOK, Wait, at, goto, CpuInv, LockInv, InPt
<1>3. LockInv'
  BY DEF TypeOK, Wait, at, goto, CpuInv, LockInv, InLk, InPt
<1>4. HoldInv'
  BY DEF TypeOK, Wait, at, goto, HoldInv
<1>5. SleepInv'
  BY DEF TypeOK, Wait, at, goto, SleepInv, CpuInv, LockInv, HoldInv, InLk, InPt
<1> QED  BY <1>1, <1>2, <1>3, <1>4, <1>5

\* GoToSleep keeps the invariant.
LEMMA Step_GoToSleep ==
  ASSUME SleepIInv, NEW p \in Proc, NEW c \in CPU,
         GoToSleep(p, c)
  PROVE  SleepIInv'
<1> USE DEF SleepIInv
<1>1. TypeOK'
  BY DEF TypeOK, GoToSleep, at, goto, Places, InLk, InPt
<1>2. CpuInv'
  BY DEF TypeOK, GoToSleep, at, goto, CpuInv, LockInv, InPt
<1>3. LockInv'
  BY DEF TypeOK, GoToSleep, at, goto, CpuInv, LockInv, InLk, InPt
<1>4. HoldInv'
  BY DEF TypeOK, GoToSleep, at, goto, HoldInv
<1>5. SleepInv'
  BY DEF TypeOK, GoToSleep, at, goto, SleepInv, CpuInv, LockInv, HoldInv, InLk, InPt
<1> QED  BY <1>1, <1>2, <1>3, <1>4, <1>5

\* Tidy keeps the invariant.
LEMMA Step_Tidy ==
  ASSUME SleepIInv, NEW p \in Proc, NEW c \in CPU,
         Tidy(p, c)
  PROVE  SleepIInv'
<1> USE DEF SleepIInv
<1>1. TypeOK'
  BY DEF TypeOK, Tidy, at, goto, Places, InLk, InPt
<1>2. CpuInv'
  BY DEF TypeOK, Tidy, at, goto, CpuInv, LockInv, InPt
<1>3. LockInv'
  BY DEF TypeOK, Tidy, at, goto, CpuInv, LockInv, InLk, InPt
<1>4. HoldInv'
  BY DEF TypeOK, Tidy, at, goto, HoldInv
<1>5. SleepInv'
  BY DEF TypeOK, Tidy, at, goto, SleepInv, CpuInv, LockInv, HoldInv, InLk, InPt
<1> QED  BY <1>1, <1>2, <1>3, <1>4, <1>5

\* Clear keeps the invariant.
LEMMA Step_Clear ==
  ASSUME SleepIInv, NEW p \in Proc, NEW c \in CPU,
         Clear(p, c)
  PROVE  SleepIInv'
<1> USE DEF SleepIInv
<1>1. TypeOK'
  BY DEF TypeOK, Clear, at, goto, Places, InLk, InPt
<1>2. CpuInv'
  BY DEF TypeOK, Clear, at, goto, CpuInv, LockInv, InPt
<1>3. LockInv'
  BY DEF TypeOK, Clear, at, goto, CpuInv, LockInv, InLk, InPt
<1>4. HoldInv'
  BY DEF TypeOK, Clear, at, goto, HoldInv
<1>5. SleepInv'
  BY DEF TypeOK, Clear, at, goto, SleepInv, CpuInv, LockInv, HoldInv, InLk, InPt
<1> QED  BY <1>1, <1>2, <1>3, <1>4, <1>5

\* wakeup1 keeps the invariant.
LEMMA Step_wakeup1 ==
  ASSUME SleepIInv, NEW p \in Proc, NEW c \in CPU,
         wakeup1(p, c)
  PROVE  SleepIInv'
<1> USE DEF SleepIInv
<1>1. TypeOK'
  BY DEF TypeOK, wakeup1, at, goto, Places, InLk, InPt
<1>2. CpuInv'
  BY DEF TypeOK, wakeup1, at, goto, CpuInv, LockInv, InPt
<1>3. LockInv'
  BY DEF TypeOK, wakeup1, at, goto, CpuInv, LockInv, InLk, InPt
<1>4. HoldInv'
  BY DEF TypeOK, wakeup1, at, goto, HoldInv
<1>5. SleepInv'
  BY DEF TypeOK, wakeup1, at, goto, SleepInv, CpuInv, LockInv, HoldInv, InLk, InPt
<1> QED  BY <1>1, <1>2, <1>3, <1>4, <1>5

\* StopRunning keeps the invariant.
LEMMA Step_StopRunning ==
  ASSUME SleepIInv, NEW p \in Proc, NEW c \in CPU,
         StopRunning(p, c)
  PROVE  SleepIInv'
<1> USE DEF SleepIInv
<1>1. TypeOK'
  BY DEF TypeOK, StopRunning, at, goto, Places, InLk, InPt
<1>2. CpuInv'
  BY DEF TypeOK, StopRunning, at, goto, CpuInv, LockInv, InPt
<1>3. LockInv'
  BY DEF TypeOK, StopRunning, at, goto, CpuInv, LockInv, InLk, InPt
<1>4. HoldInv'
  BY DEF TypeOK, StopRunning, at, goto, HoldInv
<1>5. SleepInv'
  BY DEF TypeOK, StopRunning, at, goto, SleepInv, CpuInv, LockInv, HoldInv, InLk, InPt
<1> QED  BY <1>1, <1>2, <1>3, <1>4, <1>5

\* The switch to a process keeps the invariant.
LEMMA Step_Switch ==
  ASSUME SleepIInv, NEW p \in Proc, NEW c \in CPU,
         Switch(p, c)
  PROVE  SleepIInv'
<1> USE DEF SleepIInv
<1>1. TypeOK'
  BY DEF TypeOK, Switch, Places, InLk, InPt
<1>2. CpuInv'
  BY DEF TypeOK, Switch, CpuInv, LockInv, InPt
<1>3. LockInv'
  BY DEF TypeOK, Switch, CpuInv, LockInv, InLk, InPt
<1>4. HoldInv'
  BY DEF TypeOK, Switch, HoldInv
<1>5. SleepInv'
  BY DEF TypeOK, Switch, SleepInv, CpuInv, LockInv, HoldInv, InLk, InPt
<1> QED  BY <1>1, <1>2, <1>3, <1>4, <1>5

\* Enter keeps the invariant.
LEMMA Step_Enter ==
  ASSUME SleepIInv, NEW c \in CPU,
         Enter(c)
  PROVE  SleepIInv'
<1> USE DEF SleepIInv
<1>1. TypeOK'
  BY DEF TypeOK, Enter, Places, InLk, InPt
<1>2. CpuInv'
  BY DEF TypeOK, Enter, CpuInv, LockInv, InPt
<1>3. LockInv'
  BY DEF TypeOK, Enter, CpuInv, LockInv, InLk, InPt
<1>4. HoldInv'
  BY DEF TypeOK, Enter, HoldInv
<1>5. SleepInv'
  BY DEF TypeOK, Enter, SleepInv, CpuInv, LockInv, HoldInv, InLk, InPt
<1> QED  BY <1>1, <1>2, <1>3, <1>4, <1>5

\* Leave keeps the invariant.
LEMMA Step_Leave ==
  ASSUME SleepIInv, NEW c \in CPU,
         Leave(c)
  PROVE  SleepIInv'
<1> USE DEF SleepIInv
<1>1. TypeOK'
  BY DEF TypeOK, Leave, Places, InLk, InPt
<1>2. CpuInv'
  BY DEF TypeOK, Leave, CpuInv, LockInv, InPt
<1>3. LockInv'
  BY DEF TypeOK, Leave, CpuInv, LockInv, InLk, InPt
<1>4. HoldInv'
  BY DEF TypeOK, Leave, HoldInv
<1>5. SleepInv'
  BY DEF TypeOK, Leave, SleepInv, CpuInv, LockInv, HoldInv, InLk, InPt
<1> QED  BY <1>1, <1>2, <1>3, <1>4, <1>5

\* Every step keeps the invariant.
LEMMA NextInv == SleepIInv /\ [Next]_vars => SleepIInv'
<1> SUFFICES ASSUME SleepIInv, [Next]_vars PROVE SleepIInv'
  OBVIOUS
<1>1. CASE UNCHANGED vars
  BY <1>1 DEF vars, SleepIInv, TypeOK, CpuInv, LockInv, HoldInv, SleepInv
<1>2. ASSUME NEW c \in CPU, scheduler(c) PROVE SleepIInv'
  BY <1>2, Step_Enter, Step_Leave, Step_Switch DEF scheduler
<1>3. ASSUME NEW c \in CPU, NEW p \in Proc, acquiresleep(p, c) PROVE SleepIInv'
  BY <1>3, StepAcquireLk, Step_Take, Step_Wait, StepReleaseLk DEF acquiresleep
<1>4. ASSUME NEW c \in CPU, NEW p \in Proc, sleep(p, c) PROVE SleepIInv'
  BY <1>4, StepAcquirePt, StepReleaseLk, Step_GoToSleep, StepSched, Step_Tidy, StepReleasePt DEF sleep
<1>5. ASSUME NEW c \in CPU, NEW p \in Proc, holdingsleep(p, c) PROVE SleepIInv'
  BY <1>5, StepAcquireLk, StepReleaseLk DEF holdingsleep
<1>6. ASSUME NEW c \in CPU, NEW p \in Proc, releasesleep(p, c) PROVE SleepIInv'
  BY <1>6, StepAcquireLk, Step_Clear, StepAcquirePt, Step_wakeup1, StepReleasePt, StepReleaseLk
     DEF releasesleep
<1>7. ASSUME NEW c \in CPU, NEW p \in Proc, yield(p, c) PROVE SleepIInv'
  BY <1>7, StepAcquirePt, Step_StopRunning, StepSched, StepResume DEF yield
<1> QED
  BY <1>1, <1>2, <1>3, <1>4, <1>5, <1>6, <1>7, Step_Call DEF Next, Step

\* The invariant holds throughout: types, CPUs, lock holders, owner and sleepers of
\* sleeplock.c and proc.c stay as SleepIInv says, on any number of CPUs.
THEOREM SleepInvariant == Spec => []SleepIInv
  BY InitInv, NextInv, PTL DEF Spec

\* Every variable of the model has its type.
THEOREM SleepTypes == Spec => []TypeOK
<1>1. SleepIInv => TypeOK
  BY DEF SleepIInv
<1> QED  BY SleepInvariant, <1>1, PTL

\* A sleep lock excludes: acquiresleep returns to one process at a time.
THEOREM SleepLockExcludes == Spec => []MutualExclusion
<1>1. SleepIInv => MutualExclusion
  BY DEF SleepIInv, HoldInv, MutualExclusion
<1> QED  BY SleepInvariant, <1>1, PTL

\* sleep() and wakeup() of proc.c lose no wakeup.
THEOREM SleepersAreWoken == Spec => []NoLostWakeup
<1>1. SleepIInv => NoLostWakeup
  BY DEF SleepIInv, SleepInv, NoLostWakeup
<1> QED  BY SleepInvariant, <1>1, PTL

\* sched() and scheduler() never put a process on two CPUs.
THEOREM OneStackOneCPU == Spec => []OneCPU
<1>1. SleepIInv => OneCPU
  <2> SUFFICES ASSUME SleepIInv PROVE OneCPU
    OBVIOUS
  <2>1. \A c, d \in CPU : loop[c] = "scan" /\ cpu[d] # None => state[cpu[d]] = "RUNNING"
    BY DEF SleepIInv, TypeOK, CpuInv, LockInv, InPt
  <2> QED  BY <2>1 DEF SleepIInv, CpuInv, OneCPU
<1> QED  BY SleepInvariant, <1>1, PTL

\* None of the checks of acquire, release and sched panics.
THEOREM LocksNeverPanic == Spec => []NoPanic
<1>1. SleepIInv => NoPanic
  <2> SUFFICES ASSUME SleepIInv, NEW c \in CPU, cpu[c] # None
               PROVE  /\ pc[cpu[c]] \in InLk <=> lk = c
                      /\ pc[cpu[c]] \in InPt <=> ptable = c
                      /\ pc[cpu[c]] \in {"s_sw", "y_sw"} => state[cpu[c]] # "RUNNING"
    BY DEF NoPanic
  <2>1. loop[c] \notin {"scan", "back"}
    BY DEF SleepIInv, TypeOK
  <2> QED  BY <2>1 DEF SleepIInv, LockInv, CpuInv
<1> QED  BY SleepInvariant, <1>1, PTL

\* A step that changes neither who asks nor who owns is no step of Mutex.
LEMMA Stutter ==
  ASSUME \A q \in Proc : Asking(q)' <=> Asking(q), owner' = owner
  PROVE  UNCHANGED M!mvars
<1>1. {q \in Proc : Asking(q)}' = {q \in Proc : Asking(q)}
  OBVIOUS
<1> QED  BY <1>1 DEF M!mvars

\* Every step of the kernel is a step of Mutex or none: acquiresleep asks when it is
\* called and is granted when it sets locked; releasesleep frees when it clears it.
LEMMA StepImplements ==
  SleepIInv /\ [Next]_vars => [M!MNext]_(M!mvars)
<1> SUFFICES ASSUME SleepIInv, [Next]_vars PROVE [M!MNext]_(M!mvars)
  OBVIOUS
<1> USE DEF SleepIInv
<1>1. CASE UNCHANGED vars
  BY <1>1, Stutter DEF vars, Asking
<1>2. ASSUME NEW c \in CPU, scheduler(c) PROVE UNCHANGED M!mvars
  BY <1>2, Stutter DEF scheduler, Enter, Leave, Switch, Asking
<1>3. ASSUME NEW c \in CPU, NEW p \in Proc, Call(p, c) PROVE [M!MNext]_(M!mvars)
  <2>1. CASE at(p, c, "idle")
    <3>1. ~Asking(p) /\ Asking(p)' /\ owner # p /\ owner' = owner
      BY <1>3, <2>1 DEF Call, at, goto, Asking, TypeOK, HoldInv
    <3>2. \A q \in Proc \ {p} : Asking(q)' <=> Asking(q)
      BY <1>3, <2>1 DEF Call, at, goto, Asking, TypeOK
    <3>3. {q \in Proc : Asking(q)}' = {q \in Proc : Asking(q)} \cup {p}
      BY <3>1, <3>2
    <3> QED  BY <3>1, <3>3 DEF M!MNext, M!Ask
  <2>2. CASE at(p, c, "held")
    BY <1>3, <2>2, Stutter DEF Call, at, goto, Asking, TypeOK
  <2> QED  BY <1>3, <2>1, <2>2 DEF Call
<1>4. ASSUME NEW c \in CPU, NEW p \in Proc, Take(p, c) PROVE M!MNext
  <2>1. Asking(p) /\ ~Asking(p)' /\ owner = None /\ owner' = p
    BY <1>4 DEF Take, at, goto, Asking, TypeOK, HoldInv
  <2>2. \A q \in Proc \ {p} : Asking(q)' <=> Asking(q)
    BY <1>4 DEF Take, at, goto, Asking, TypeOK
  <2>3. {q \in Proc : Asking(q)}' = {q \in Proc : Asking(q)} \ {p}
    BY <2>1, <2>2
  <2> QED  BY <2>1, <2>3 DEF M!MNext, M!Grant
<1>5. ASSUME NEW c \in CPU, NEW p \in Proc, Clear(p, c) PROVE M!MNext
  <2>1. owner = p /\ owner' = None
    BY <1>5 DEF Clear, at, goto, TypeOK, HoldInv
  <2>2. \A q \in Proc : Asking(q)' <=> Asking(q)
    BY <1>5 DEF Clear, at, goto, Asking, TypeOK
  <2>3. {q \in Proc : Asking(q)}' = {q \in Proc : Asking(q)}
    BY <2>2
  <2> QED  BY <2>1, <2>3 DEF M!MNext, M!Free
<1>6. ASSUME NEW c \in CPU, NEW p \in Proc, acquiresleep(p, c), ~Take(p, c) PROVE UNCHANGED M!mvars
  BY <1>6, Stutter DEF acquiresleep, AcquireLk, Wait, ReleaseLk, at, goto, Asking, TypeOK, HoldInv
<1>7. ASSUME NEW c \in CPU, NEW p \in Proc, sleep(p, c) PROVE UNCHANGED M!mvars
  BY <1>7, Stutter DEF sleep, AcquirePt, ReleaseLk, GoToSleep, sched, Tidy, ReleasePt, at, goto,
     Asking, TypeOK, HoldInv
<1>8. ASSUME NEW c \in CPU, NEW p \in Proc, holdingsleep(p, c) PROVE UNCHANGED M!mvars
  BY <1>8, Stutter DEF holdingsleep, AcquireLk, ReleaseLk, at, goto, Asking, TypeOK, HoldInv
<1>9. ASSUME NEW c \in CPU, NEW p \in Proc, releasesleep(p, c), ~Clear(p, c) PROVE UNCHANGED M!mvars
  BY <1>9, Stutter DEF releasesleep, AcquireLk, AcquirePt, wakeup1, ReleasePt, ReleaseLk, at, goto,
     Asking, TypeOK, HoldInv
<1>10. ASSUME NEW c \in CPU, NEW p \in Proc, yield(p, c) PROVE UNCHANGED M!mvars
  BY <1>10, Stutter DEF yield, AcquirePt, StopRunning, sched, ReleasePt, at, goto,
     Asking, TypeOK, HoldInv
<1> QED
  BY <1>1, <1>2, <1>3, <1>4, <1>5, <1>6, <1>7, <1>8, <1>9, <1>10 DEF Next, Step

\* Sleep locks of sleeplock.c, with all of sleep, wakeup and scheduling below them,
\* implement the abstract lock of module Mutex.
THEOREM SleepLockImplementsMutex == Spec => ImplementsMutex
<1>1. Init => M!MInit
  BY DEF Init, M!MInit, Asking
<1>2. SleepIInv /\ [Next]_vars => [M!MNext]_(M!mvars)
  BY StepImplements
<1> QED  BY <1>1, <1>2, SleepInvariant, PTL DEF Spec, ImplementsMutex, M!MSpec
=============================================================================
