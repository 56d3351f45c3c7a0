-------------------------------- MODULE Pipe --------------------------------
(***************************************************************************)
(* Pipes (pipe.c): pipealloc, pipewrite, piperead and pipeclose on one     *)
(* pipe, with several readers and writers.                                 *)
(*                                                                         *)
(* A process that is inside a call holds p->lock except while it sleeps or *)
(* waits for the lock.  sleep() gives up the lock and sleeps in one step   *)
(* (module SleepLock).  nread and nwrite are C unsigned ints: they wrap, at*)
(* 2^32 in the code and at Wrap here.                                      *)
(*                                                                         *)
(* Each process refers to one end through its file table; the last one to  *)
(* let go of an end calls pipeclose (fileclose in file.c).  A killed       *)
(* process leaves its call and then exits, letting go as well.             *)
(***************************************************************************)
EXTENDS Naturals, FiniteSets, Sequences

CONSTANTS
  Readers, Writers,   \* processes at the two ends
  Byte,
  PIPESIZE,
  Wrap,               \* 2^32, the range of an unsigned int
  MaxN,               \* bound: the largest n of a read or write
  Killable,           \* processes that may be killed
  None

ASSUME PipeAssumption ==
  /\ PIPESIZE \in Nat \ {0}
  /\ Wrap \in Nat /\ Wrap % PIPESIZE = 0 /\ Wrap > PIPESIZE
  /\ MaxN \in Nat
  /\ Readers \cap Writers = {} /\ None \notin Readers \cup Writers
  /\ Killable \subseteq Readers \cup Writers

VARIABLES
  data, nread, nwrite, readopen, writeopen,   \* struct pipe
  lock,                                       \* who holds p->lock
  freed,                                      \* kfree((char*)p) was done
  refs,                                       \* processes that have their end open
  pc, todo,                                   \* where each process is; n - i
  asleep,                                     \* what each process sleeps on
  killed,
  out                                         \* the byte that piperead copied last

vars == <<data, nread, nwrite, readopen, writeopen, lock, freed, refs, pc, todo, asleep, killed, out>>

Proc == Readers \cup Writers

\* What pipealloc sets up; data is whatever the page held.
Init ==
  /\ nread = 0 /\ nwrite = 0
  /\ readopen = TRUE /\ writeopen = TRUE
  /\ lock = None /\ freed = FALSE
  /\ data \in [0..PIPESIZE - 1 -> Byte]
  /\ refs = Proc
  /\ pc = [p \in Proc |-> "user"]
  /\ todo = [p \in Proc |-> 0]
  /\ asleep = [p \in Proc |-> "no"]
  /\ killed = [p \in Proc |-> FALSE]
  /\ out \in Byte

-----------------------------------------------------------------------------
Count == (nwrite + Wrap - nread) % Wrap       \* nwrite - nread
Full_unwrapped == nwrite = nread + PIPESIZE
Full  == nwrite = (nread + PIPESIZE) % Wrap
Empty == nread = nwrite

\* wakeup(c).
Woken_none(c) == asleep
Woken(c) == [q \in Proc |-> IF asleep[q] = c THEN "no" ELSE asleep[q]]
Goto(p, l) == pc' = [pc EXCEPT ![p] = l]
Inside(p, l) == pc[p] = l /\ lock = p

\* read() and write() of n bytes; trap() turns a killed process away.
Call(p, n) ==
  /\ pc[p] = "user" /\ p \in refs /\ ~killed[p]
  /\ todo' = [todo EXCEPT ![p] = n]
  /\ Goto(p, IF p \in Readers THEN "r_wait" ELSE "w_loop")
  /\ UNCHANGED <<data, nread, nwrite, readopen, writeopen, lock, freed, refs, asleep, killed, out>>

\* acquire(&p->lock), on entry and at the end of sleep().
Acquire(p) ==
  /\ pc[p] \in {"r_wait", "w_loop", "close"}
  /\ lock = None /\ asleep[p] = "no"
  /\ lock' = p
  /\ UNCHANGED <<data, nread, nwrite, readopen, writeopen, freed, refs, pc, todo, asleep, killed, out>>

\* sleep(c, &p->lock) at l; the caller goes on at m once it has the lock again.
SleepOn_spins(p, l, c, m) ==
  /\ Inside(p, l)
  /\ Goto(p, m)
  /\ UNCHANGED <<data, nread, nwrite, readopen, writeopen, lock, freed, refs, todo, asleep, killed, out>>
SleepOn(p, l, c, m) ==
  /\ Inside(p, l)
  /\ asleep' = [asleep EXCEPT ![p] = c]
  /\ lock' = None
  /\ Goto(p, m)
  /\ UNCHANGED <<data, nread, nwrite, readopen, writeopen, freed, refs, todo, killed, out>>

Return(p) ==
  /\ lock' = None
  /\ Goto(p, "user")
  /\ todo' = [todo EXCEPT ![p] = 0]

-----------------------------------------------------------------------------
(***************************************************************************)
(* pipewrite: one step per turn of its loops.                              *)
(***************************************************************************)
Put(p, b) ==
  /\ Inside(p, "w_loop") /\ todo[p] > 0 /\ ~Full
  /\ data' = [data EXCEPT ![nwrite % PIPESIZE] = b]
  /\ nwrite' = (nwrite + 1) % Wrap
  /\ todo' = [todo EXCEPT ![p] = @ - 1]
  /\ UNCHANGED <<nread, readopen, writeopen, lock, freed, refs, pc, asleep, killed, out>>

\* Full, and nobody will read or the writer was killed: -1.
GiveUp(p) ==
  /\ Inside(p, "w_loop") /\ todo[p] > 0 /\ Full
  /\ ~readopen \/ killed[p]
  /\ Return(p)
  /\ UNCHANGED <<data, nread, nwrite, readopen, writeopen, freed, refs, asleep, killed, out>>

\* Full: wake the readers, then sleep.  killed was looked at before; kill() does not
\* take p->lock and may come between the two.
WaitForRoom(p) ==
  /\ Inside(p, "w_loop") /\ todo[p] > 0 /\ Full
  /\ readopen /\ ~killed[p]
  /\ asleep' = Woken("nread")
  /\ Goto(p, "w_sleep")
  /\ UNCHANGED <<data, nread, nwrite, readopen, writeopen, lock, freed, refs, todo, killed, out>>

Written(p) ==
  /\ Inside(p, "w_loop") /\ todo[p] = 0
  /\ asleep' = Woken("nread")
  /\ Return(p)
  /\ UNCHANGED <<data, nread, nwrite, readopen, writeopen, freed, refs, killed, out>>

pipewrite(p) ==
  (\E b \in Byte : Put(p, b)) \/ GiveUp(p) \/ WaitForRoom(p) \/ Written(p)
  \/ SleepOn(p, "w_sleep", "nwrite", "w_loop")

-----------------------------------------------------------------------------
(***************************************************************************)
(* piperead: wait while empty and open, then copy what is there.           *)
(***************************************************************************)
Killed(p) ==
  /\ Inside(p, "r_wait") /\ Empty /\ writeopen /\ killed[p]
  /\ Return(p)
  /\ UNCHANGED <<data, nread, nwrite, readopen, writeopen, freed, refs, asleep, killed, out>>

WaitForData(p) ==
  /\ Inside(p, "r_wait") /\ Empty /\ writeopen /\ ~killed[p]
  /\ Goto(p, "r_sleep")
  /\ UNCHANGED <<data, nread, nwrite, readopen, writeopen, lock, freed, refs, todo, asleep, killed, out>>

\* The wait is over; a woken reader has tested the condition again.
Ready(p) ==
  /\ Inside(p, "r_wait") /\ ~(Empty /\ writeopen)
  /\ Goto(p, "r_copy")
  /\ UNCHANGED <<data, nread, nwrite, readopen, writeopen, lock, freed, refs, todo, asleep, killed, out>>

Copy(p) ==
  /\ Inside(p, "r_copy") /\ todo[p] > 0 /\ ~Empty
  /\ out' = data[nread % PIPESIZE]
  /\ nread' = (nread + 1) % Wrap
  /\ todo' = [todo EXCEPT ![p] = @ - 1]
  /\ UNCHANGED <<data, nwrite, readopen, writeopen, lock, freed, refs, pc, asleep, killed>>

Copied(p) ==
  /\ Inside(p, "r_copy") /\ (todo[p] = 0 \/ Empty)
  /\ asleep' = Woken("nwrite")
  /\ Return(p)
  /\ UNCHANGED <<data, nread, nwrite, readopen, writeopen, freed, refs, killed, out>>

piperead(p) == Killed(p) \/ WaitForData(p) \/ SleepOn(p, "r_sleep", "nread", "r_wait")
               \/ Ready(p) \/ Copy(p) \/ Copied(p)

-----------------------------------------------------------------------------
(***************************************************************************)
(* Letting go of an end.                                                   *)
(***************************************************************************)
\* close() or exit(): fileclose drops a reference and the last one of an end goes
\* on to pipeclose.
fileclose(p) ==
  /\ pc[p] = "user" /\ p \in refs
  /\ refs' = refs \ {p}
  /\ LET end == IF p \in Readers THEN Readers ELSE Writers
     IN  Goto(p, IF refs \cap end = {p} THEN "close" ELSE "user")
  /\ UNCHANGED <<data, nread, nwrite, readopen, writeopen, lock, freed, todo, asleep, killed, out>>

pipeclose_always_frees(p) ==
  /\ Inside(p, "close")
  /\ readopen' = (readopen /\ p \notin Readers)
  /\ writeopen' = (writeopen /\ p \notin Writers)
  /\ asleep' = Woken(IF p \in Writers THEN "nread" ELSE "nwrite")
  /\ freed' = TRUE
  /\ lock' = None
  /\ Goto(p, "user")
  /\ UNCHANGED <<data, nread, nwrite, refs, todo, killed, out>>
pipeclose(p) ==
  /\ Inside(p, "close")
  /\ readopen' = (readopen /\ p \notin Readers)
  /\ writeopen' = (writeopen /\ p \notin Writers)
  /\ asleep' = Woken(IF p \in Writers THEN "nread" ELSE "nwrite")
  /\ freed' = (~readopen' /\ ~writeopen')
  /\ lock' = None
  /\ Goto(p, "user")
  /\ UNCHANGED <<data, nread, nwrite, refs, todo, killed, out>>

\* kill() wakes its target whatever it sleeps on.
kill(p) ==
  /\ p \in refs /\ ~killed[p]
  /\ killed' = [killed EXCEPT ![p] = TRUE]
  /\ asleep' = [asleep EXCEPT ![p] = "no"]
  /\ UNCHANGED <<data, nread, nwrite, readopen, writeopen, lock, freed, refs, pc, todo, out>>

\* The page of a freed pipe is used for the next pipe, with new processes.
pipealloc ==
  /\ freed
  /\ nread' = 0 /\ nwrite' = 0
  /\ readopen' = TRUE /\ writeopen' = TRUE
  /\ lock' = None /\ freed' = FALSE
  /\ refs' = Proc
  /\ killed' = [p \in Proc |-> FALSE]
  /\ UNCHANGED <<data, pc, todo, asleep, out>>

Step(p) == Acquire(p) \/ pipewrite(p) \/ piperead(p) \/ pipeclose(p)

Next ==
  \/ pipealloc
  \/ \E p \in Proc : Step(p) \/ fileclose(p) \/ \E n \in 0..MaxN : Call(p, n)
  \/ \E p \in Killable : kill(p)

Spec == Init /\ [][Next]_vars

\* A process that can go on does; programs close their ends or exit sooner or later.
Fairness == \A p \in Proc : SF_vars(Step(p)) /\ SF_vars(fileclose(p))

FairSpec == Spec /\ Fairness

-----------------------------------------------------------------------------
(***************************************************************************)
(* Properties.                                                             *)
(***************************************************************************)
\* Every field has its type; the counters stay at most PIPESIZE apart, wrap-around
\* included.
TypeOK ==
  /\ data \in [0..PIPESIZE - 1 -> Byte]
  /\ nread \in 0..Wrap - 1 /\ nwrite \in 0..Wrap - 1
  /\ Count <= PIPESIZE
  /\ readopen \in BOOLEAN /\ writeopen \in BOOLEAN /\ freed \in BOOLEAN
  /\ lock \in Proc \cup {None}
  /\ refs \subseteq Proc
  /\ pc \in [Proc -> {"user", "w_loop", "w_sleep", "r_wait", "r_sleep", "r_copy", "close"}]
  /\ todo \in [Proc -> 0..MaxN]
  /\ asleep \in [Proc -> {"no", "nread", "nwrite"}]
  /\ killed \in [Proc -> BOOLEAN]
  /\ out \in Byte

\* No wakeup is lost: a sleeping reader faces an empty pipe that can still be written,
\* or a writer that holds the lock and will wake it; and the same the other way round.
\* A writer that was killed is the exception: GiveUp wakes nobody.
SleepersHaveCause ==
  \A p \in Proc :
    /\ asleep[p] = "nread" => \/ Empty /\ writeopen
                              \/ lock \in Writers /\ pc[lock] = "w_loop"
                              \/ writeopen /\ \E w \in Writers : killed[w]
    /\ asleep[p] = "nwrite" => \/ Full /\ readopen
                               \/ lock \in Readers /\ pc[lock] = "r_copy"

\* The pipe is freed once both ends are closed, and then nobody is inside a call on
\* it or can start one.
NoUseAfterFree ==
  freed => ~readopen /\ ~writeopen /\ lock = None /\ refs = {} /\ \A p \in Proc : pc[p] = "user"

\* A pipe implements Channel: the bytes from nread to nwrite, in order, are what is inside.
\* Full is not taken for empty when the counters wrap, no byte is overwritten before it was
\* read, and none is dropped while an end is open.
C == INSTANCE Channel WITH
       Cap <- PIPESIZE,
       q <- [k \in 1..Count |-> data[(nread + k - 1) % PIPESIZE]],
       out <- out,
       ends <- {e \in {"read", "write"} : IF e = "read" THEN readopen ELSE writeopen}
ImplementsChannel == C!CSpec

\* Every read, write and close of a process that is not killed returns, if programs let go
\* of their ends at last.
CallsReturn == \A p \in Proc : pc[p] # "user" ~> pc[p] = "user" \/ killed[p]

\* The comment in kill(): "Wake process from sleep if necessary."  A killed process is
\* not asleep.
KilledAwake == \A p \in Proc : killed[p] => asleep[p] = "no"

(***************************************************************************)
(* The inductive invariant behind the safety properties.                   *)
(***************************************************************************)
\* Types, as far as the argument needs them.
PTypes ==
  /\ readopen \in BOOLEAN /\ writeopen \in BOOLEAN /\ freed \in BOOLEAN
  /\ lock \in Proc \cup {None}
  /\ refs \subseteq Proc
  /\ pc \in [Proc -> {"user", "w_loop", "w_sleep", "r_wait", "r_sleep", "r_copy", "close"}]
  /\ todo \in [Proc -> Nat]
  /\ asleep \in [Proc -> {"no", "nread", "nwrite"}]
  /\ killed \in [Proc -> BOOLEAN]

\* Who may hold the lock, and what a process that is about to sleep has seen.
LockInv ==
  /\ lock # None => pc[lock] # "user" /\ asleep[lock] = "no"
  /\ \A p \in Proc :
       /\ pc[p] \in {"w_sleep", "r_sleep", "r_copy"} => lock = p
       /\ pc[p] \in {"w_loop", "w_sleep"} => p \in Writers
       /\ pc[p] \in {"r_wait", "r_sleep", "r_copy"} => p \in Readers
       /\ pc[p] = "w_sleep" => Full /\ readopen /\ \A q \in Proc : asleep[q] # "nread"
       /\ pc[p] = "r_sleep" => Empty /\ writeopen
       /\ asleep[p] = "nread" => pc[p] = "r_wait"
       /\ asleep[p] = "nwrite" => pc[p] = "w_loop"

\* Who keeps the pipe alive: an end stays open while somebody refers to it or is
\* about to close it, and only those who refer to it are inside calls.
FreeInv ==
  /\ \A p \in Proc : pc[p] \in {"w_loop", "w_sleep", "r_wait", "r_sleep", "r_copy"} => p \in refs
  /\ \A p \in Proc : pc[p] = "close" => p \notin refs
  /\ \A p \in Readers : p \in refs \/ pc[p] = "close" => readopen
  /\ \A p \in Writers : p \in refs \/ pc[p] = "close" => writeopen
  /\ \A p, q \in Readers : pc[p] = "close" => q \notin refs /\ (pc[q] = "close" => p = q)
  /\ \A p, q \in Writers : pc[p] = "close" => q \notin refs /\ (pc[q] = "close" => p = q)
  /\ freed <=> ~readopen /\ ~writeopen

PipeIInv == PTypes /\ LockInv /\ SleepersHaveCause /\ FreeInv
=============================================================================
