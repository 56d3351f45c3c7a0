----------------------------- MODULE PipeProofs -----------------------------
(***************************************************************************)
(* Proofs about Pipe, for any number of readers and writers, any PIPESIZE  *)
(* and any range of the counters.                                          *)
(***************************************************************************)
EXTENDS Pipe, TLAPS

USE PipeAssumption

\* At the start the invariant holds.
LEMMA PipeInit == Init => PipeIInv
<1> SUFFICES ASSUME Init PROVE PipeIInv
  OBVIOUS
<1> USE DEF Init, Proc
<1>1. PTypes
  BY DEF PTypes
<1>2. LockInv
  BY DEF LockInv
<1>3. SleepersHaveCause
  BY DEF SleepersHaveCause
<1>4. FreeInv
  BY DEF FreeInv
<1> QED  BY <1>1, <1>2, <1>3, <1>4 DEF PipeIInv

\* Call keeps the invariant.
LEMMA PipeCall ==
  ASSUME PipeIInv, NEW p \in Proc, NEW n \in 0..MaxN, Call(p, n)
  PROVE  PipeIInv'
<1> USE DEF PipeIInv, Proc
<1>1. PTypes'
  BY DEF PTypes, Call, Inside, Goto
<1>2. LockInv'
  BY DEF PTypes, LockInv, SleepersHaveCause, FreeInv, Call, Inside, Goto, Full, Empty
<1>3. SleepersHaveCause'
  BY DEF PTypes, LockInv, SleepersHaveCause, FreeInv, Call, Inside, Goto, Full, Empty
<1>4. FreeInv'
  BY DEF PTypes, LockInv, FreeInv, Call, Inside, Goto
<1> QED  BY <1>1, <1>2, <1>3, <1>4

\* Acquire keeps the invariant.
LEMMA PipeAcquire ==
  ASSUME PipeIInv, NEW p \in Proc, Acquire(p)
  PROVE  PipeIInv'
<1> USE DEF PipeIInv, Proc
<1>1. PTypes'
  BY DEF PTypes, Acquire, Inside, Goto
<1>2. LockInv'
  BY DEF PTypes, LockInv, SleepersHaveCause, FreeInv, Acquire, Inside, Goto, Full, Empty
<1>3. SleepersHaveCause'
  BY DEF PTypes, LockInv, SleepersHaveCause, FreeInv, Acquire, Inside, Goto, Full, Empty
<1>4. FreeInv'
  BY DEF PTypes, LockInv, FreeInv, Acquire, Inside, Goto
<1> QED  BY <1>1, <1>2, <1>3, <1>4

\* Put keeps the invariant.
LEMMA PipePut ==
  ASSUME PipeIInv, NEW p \in Proc, NEW b \in Byte, Put(p, b)
  PROVE  PipeIInv'
<1> USE DEF PipeIInv, Proc
<1>1. PTypes'
  BY DEF PTypes, Put, Inside, Goto
<1>2. LockInv'
  BY DEF PTypes, LockInv, SleepersHaveCause, FreeInv, Put, Inside, Goto, Full, Empty
<1>3. SleepersHaveCause'
  BY DEF PTypes, LockInv, SleepersHaveCause, FreeInv, Put, Inside, Goto, Full, Empty
<1>4. FreeInv'
  BY DEF PTypes, LockInv, FreeInv, Put, Inside, Goto
<1> QED  BY <1>1, <1>2, <1>3, <1>4

\* GiveUp keeps the invariant.
LEMMA PipeGiveUp ==
  ASSUME PipeIInv, NEW p \in Proc, GiveUp(p)
  PROVE  PipeIInv'
<1> USE DEF PipeIInv, Proc
<1>1. PTypes'
  BY DEF PTypes, GiveUp, Inside, Goto, Return
<1>2. LockInv'
  BY DEF PTypes, LockInv, SleepersHaveCause, FreeInv, GiveUp, Inside, Goto, Return, Full, Empty
<1>3. SleepersHaveCause'
  BY DEF PTypes, LockInv, SleepersHaveCause, FreeInv, GiveUp, Inside, Goto, Return, Full, Empty
<1>4. FreeInv'
  BY DEF PTypes, LockInv, FreeInv, GiveUp, Inside, Goto, Return
<1> QED  BY <1>1, <1>2, <1>3, <1>4

\* WaitForRoom keeps the invariant.
LEMMA PipeWaitForRoom ==
  ASSUME PipeIInv, NEW p \in Proc, WaitForRoom(p)
  PROVE  PipeIInv'
<1> USE DEF PipeIInv, Proc
<1>1. PTypes'
  BY DEF PTypes, WaitForRoom, Inside, Goto, Woken
<1>2. LockInv'
  BY DEF PTypes, LockInv, SleepersHaveCause, FreeInv, WaitForRoom, Inside, Goto, Woken, Full, Empty
<1>3. SleepersHaveCause'
  BY DEF PTypes, LockInv, SleepersHaveCause, FreeInv, WaitForRoom, Inside, Goto, Woken, Full, Empty
<1>4. FreeInv'
  BY DEF PTypes, LockInv, FreeInv, WaitForRoom, Inside, Goto, Woken
<1> QED  BY <1>1, <1>2, <1>3, <1>4

\* Written keeps the invariant.
LEMMA PipeWritten ==
  ASSUME PipeIInv, NEW p \in Proc, Written(p)
  PROVE  PipeIInv'
<1> USE DEF PipeIInv, Proc
<1>1. PTypes'
  BY DEF PTypes, Written, Inside, Goto, Return, Woken
<1>2. LockInv'
  BY DEF PTypes, LockInv, SleepersHaveCause, FreeInv, Written, Inside, Goto, Return, Woken, Full, Empty
<1>3. SleepersHaveCause'
  BY DEF PTypes, LockInv, SleepersHaveCause, FreeInv, Written, Inside, Goto, Return, Woken, Full, Empty
<1>4. FreeInv'
  BY DEF PTypes, LockInv, FreeInv, Written, Inside, Goto, Return, Woken
<1> QED  BY <1>1, <1>2, <1>3, <1>4

\* Killed keeps the invariant.
LEMMA PipeKilled ==
  ASSUME PipeIInv, NEW p \in Proc, Killed(p)
  PROVE  PipeIInv'
<1> USE DEF PipeIInv, Proc
<1>1. PTypes'
  BY DEF PTypes, Killed, Inside, Goto, Return
<1>2. LockInv'
  BY DEF PTypes, LockInv, SleepersHaveCause, FreeInv, Killed, Inside, Goto, Return, Full, Empty
<1>3. SleepersHaveCause'
  BY DEF PTypes, LockInv, SleepersHaveCause, FreeInv, Killed, Inside, Goto, Return, Full, Empty
<1>4. FreeInv'
  BY DEF PTypes, LockInv, FreeInv, Killed, Inside, Goto, Return
<1> QED  BY <1>1, <1>2, <1>3, <1>4

\* WaitForData keeps the invariant.
LEMMA PipeWaitForData ==
  ASSUME PipeIInv, NEW p \in Proc, WaitForData(p)
  PROVE  PipeIInv'
<1> USE DEF PipeIInv, Proc
<1>1. PTypes'
  BY DEF PTypes, WaitForData, Inside, Goto
<1>2. LockInv'
  BY DEF PTypes, LockInv, SleepersHaveCause, FreeInv, WaitForData, Inside, Goto, Full, Empty
<1>3. SleepersHaveCause'
  BY DEF PTypes, LockInv, SleepersHaveCause, FreeInv, WaitForData, Inside, Goto, Full, Empty
<1>4. FreeInv'
  BY DEF PTypes, LockInv, FreeInv, WaitForData, Inside, Goto
<1> QED  BY <1>1, <1>2, <1>3, <1>4

\* Ready keeps the invariant.
LEMMA PipeReady ==
  ASSUME PipeIInv, NEW p \in Proc, Ready(p)
  PROVE  PipeIInv'
<1> USE DEF PipeIInv, Proc
<1>1. PTypes'
  BY DEF PTypes, Ready, Inside, Goto
<1>2. LockInv'
  BY DEF PTypes, LockInv, SleepersHaveCause, FreeInv, Ready, Inside, Goto, Full, Empty
<1>3. SleepersHaveCause'
  BY DEF PTypes, LockInv, SleepersHaveCause, FreeInv, Ready, Inside, Goto, Full, Empty
<1>4. FreeInv'
  BY DEF PTypes, LockInv, FreeInv, Ready, Inside, Goto
<1> QED  BY <1>1, <1>2, <1>3, <1>4

\* Copy keeps the invariant.
LEMMA PipeCopy ==
  ASSUME PipeIInv, NEW p \in Proc, Copy(p)
  PROVE  PipeIInv'
<1> USE DEF PipeIInv, Proc
<1>1. PTypes'
  BY DEF PTypes, Copy, Inside, Goto
<1>2. LockInv'
  BY DEF PTypes, LockInv, SleepersHaveCause, FreeInv, Copy, Inside, Goto, Full, Empty
<1>3. SleepersHaveCause'
  BY DEF PTypes, LockInv, SleepersHaveCause, FreeInv, Copy, Inside, Goto, Full, Empty
<1>4. FreeInv'
  BY DEF PTypes, LockInv, FreeInv, Copy, Inside, Goto
<1> QED  BY <1>1, <1>2, <1>3, <1>4

\* Copied keeps the invariant.
LEMMA PipeCopied ==
  ASSUME PipeIInv, NEW p \in Proc, Copied(p)
  PROVE  PipeIInv'
<1> USE DEF PipeIInv, Proc
<1>1. PTypes'
  BY DEF PTypes, Copied, Inside, Goto, Return, Woken
<1>2. LockInv'
  BY DEF PTypes, LockInv, SleepersHaveCause, FreeInv, Copied, Inside, Goto, Return, Woken, Full, Empty
<1>3. SleepersHaveCause'
  BY DEF PTypes, LockInv, SleepersHaveCause, FreeInv, Copied, Inside, Goto, Return, Woken, Full, Empty
<1>4. FreeInv'
  BY DEF PTypes, LockInv, FreeInv, Copied, Inside, Goto, Return, Woken
<1> QED  BY <1>1, <1>2, <1>3, <1>4

\* fileclose keeps the invariant.
LEMMA Pipefileclose ==
  ASSUME PipeIInv, NEW p \in Proc, fileclose(p)
  PROVE  PipeIInv'
<1> USE DEF PipeIInv, Proc
<1>1. PTypes'
  BY DEF PTypes, fileclose, Inside, Goto
<1>2. LockInv'
  BY DEF PTypes, LockInv, SleepersHaveCause, FreeInv, fileclose, Inside, Goto, Full, Empty
<1>3. SleepersHaveCause'
  BY DEF PTypes, LockInv, SleepersHaveCause, FreeInv, fileclose, Inside, Goto, Full, Empty
<1>4. FreeInv'
  BY DEF PTypes, LockInv, FreeInv, fileclose, Inside, Goto
<1> QED  BY <1>1, <1>2, <1>3, <1>4

\* pipeclose keeps the invariant.
LEMMA Pipepipeclose ==
  ASSUME PipeIInv, NEW p \in Proc, pipeclose(p)
  PROVE  PipeIInv'
<1> USE DEF PipeIInv, Proc
<1>1. PTypes'
  BY DEF PTypes, pipeclose, Inside, Goto, Woken
<1>2. LockInv'
  BY DEF PTypes, LockInv, SleepersHaveCause, FreeInv, pipeclose, Inside, Goto, Woken, Full, Empty
<1>3. SleepersHaveCause'
  BY DEF PTypes, LockInv, SleepersHaveCause, FreeInv, pipeclose, Inside, Goto, Woken, Full, Empty
<1>4. FreeInv'
  BY DEF PTypes, LockInv, FreeInv, pipeclose, Inside, Goto, Woken
<1> QED  BY <1>1, <1>2, <1>3, <1>4

\* kill keeps the invariant.
LEMMA Pipekill ==
  ASSUME PipeIInv, NEW p \in Proc, kill(p)
  PROVE  PipeIInv'
<1> USE DEF PipeIInv, Proc
<1>1. PTypes'
  BY DEF PTypes, kill, Inside, Goto
<1>2. LockInv'
  BY DEF PTypes, LockInv, SleepersHaveCause, FreeInv, kill, Inside, Goto, Full, Empty
<1>3. SleepersHaveCause'
  BY DEF PTypes, LockInv, SleepersHaveCause, FreeInv, kill, Inside, Goto, Full, Empty
<1>4. FreeInv'
  BY DEF PTypes, LockInv, FreeInv, kill, Inside, Goto
<1> QED  BY <1>1, <1>2, <1>3, <1>4

\* pipealloc keeps the invariant.
LEMMA Pipepipealloc ==
  ASSUME PipeIInv, pipealloc
  PROVE  PipeIInv'
<1> USE DEF PipeIInv, Proc
<1>1. PTypes'
  BY DEF PTypes, pipealloc
<1>2. LockInv'
  BY DEF PTypes, LockInv, SleepersHaveCause, FreeInv, pipealloc, Full, Empty
<1>3. SleepersHaveCause'
  BY DEF PTypes, LockInv, SleepersHaveCause, FreeInv, pipealloc, Full, Empty
<1>4. FreeInv'
  BY DEF PTypes, LockInv, FreeInv, pipealloc
<1> QED  BY <1>1, <1>2, <1>3, <1>4

\* SleepW keeps the invariant.
LEMMA PipeSleepW ==
  ASSUME PipeIInv, NEW p \in Proc, SleepOn(p, "w_sleep", "nwrite", "w_loop")
  PROVE  PipeIInv'
<1> USE DEF PipeIInv, Proc
<1>1. PTypes'
  BY DEF PTypes, SleepOn, Inside, Goto
<1>2. LockInv'
  BY DEF PTypes, LockInv, SleepersHaveCause, FreeInv, SleepOn, Inside, Goto, Full, Empty
<1>3. SleepersHaveCause'
  BY DEF PTypes, LockInv, SleepersHaveCause, FreeInv, SleepOn, Inside, Goto, Full, Empty
<1>4. FreeInv'
  BY DEF PTypes, LockInv, FreeInv, SleepOn, Inside, Goto
<1> QED  BY <1>1, <1>2, <1>3, <1>4

\* SleepR keeps the invariant.
LEMMA PipeSleepR ==
  ASSUME PipeIInv, NEW p \in Proc, SleepOn(p, "r_sleep", "nread", "r_wait")
  PROVE  PipeIInv'
<1> USE DEF PipeIInv, Proc
<1>1. PTypes'
  BY DEF PTypes, SleepOn, Inside, Goto
<1>2. LockInv'
  BY DEF PTypes, LockInv, SleepersHaveCause, FreeInv, SleepOn, Inside, Goto, Full, Empty
<1>3. SleepersHaveCause'
  BY DEF PTypes, LockInv, SleepersHaveCause, FreeInv, SleepOn, Inside, Goto, Full, Empty
<1>4. FreeInv'
  BY DEF PTypes, LockInv, FreeInv, SleepOn, Inside, Goto
<1> QED  BY <1>1, <1>2, <1>3, <1>4

\* Every step, and a stuttering step, keeps the invariant.
LEMMA PipeNext == PipeIInv /\ [Next]_vars => PipeIInv'
<1> SUFFICES ASSUME PipeIInv, [Next]_vars PROVE PipeIInv'
  OBVIOUS
<1>1. ASSUME NEW p \in Proc, Step(p) PROVE PipeIInv'
  BY <1>1, PipeAcquire, PipePut, PipeGiveUp, PipeWaitForRoom, PipeWritten, PipeSleepW,
     PipeKilled, PipeWaitForData, PipeSleepR, PipeReady, PipeCopy, PipeCopied, Pipepipeclose
     DEF Step, pipewrite, piperead
<1>2. ASSUME NEW p \in Proc, fileclose(p) \/ \E n \in 0..MaxN : Call(p, n) PROVE PipeIInv'
  BY <1>2, Pipefileclose, PipeCall
<1>3. ASSUME NEW p \in Killable, kill(p) PROVE PipeIInv'
  BY <1>3, Pipekill DEF Proc
<1>4. CASE UNCHANGED vars
  BY <1>4 DEF vars, PipeIInv, PTypes, LockInv, SleepersHaveCause, FreeInv, Full, Empty, Proc
<1> QED  BY <1>1, <1>2, <1>3, <1>4, Pipepipealloc DEF Next

\* The invariant holds in every state of pipe.c.
THEOREM PipeInvariant == Spec => []PipeIInv
  BY PipeInit, PipeNext, PTL DEF Spec

\* No wakeup is lost between piperead and pipewrite, whatever the number of processes,
\* the size of the pipe and the order of their steps.
THEOREM PipeSleepers == Spec => []SleepersHaveCause
<1>1. PipeIInv => SleepersHaveCause
  BY DEF PipeIInv
<1> QED  BY <1>1, PipeInvariant, PTL

\* pipeclose frees the page once both ends are closed, and nobody uses it afterwards.
THEOREM PipeFreedOnce == Spec => []NoUseAfterFree
<1>1. ASSUME PipeIInv PROVE NoUseAfterFree
  <2> SUFFICES ASSUME freed PROVE NoUseAfterFree
    BY DEF NoUseAfterFree
  <2>1. ~readopen /\ ~writeopen
    BY <1>1 DEF PipeIInv, FreeInv, PTypes
  <2>2. refs = {}
    BY <1>1, <2>1 DEF PipeIInv, FreeInv, PTypes, Proc
  <2>3. \A p \in Proc : pc[p] = "user"
    BY <1>1, <2>1, <2>2 DEF PipeIInv, FreeInv, PTypes, Proc
  <2>4. lock = None
    BY <1>1, <2>3 DEF PipeIInv, LockInv, PTypes, Proc
  <2> QED  BY <2>1, <2>2, <2>3, <2>4 DEF NoUseAfterFree
<1> QED  BY <1>1, PipeInvariant, PTL

=============================================================================
