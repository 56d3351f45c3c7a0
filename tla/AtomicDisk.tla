----------------------------- MODULE AtomicDisk -----------------------------
(***************************************************************************)
(* What the logging layer (log.c) promises to the file-system calls above  *)
(* it: the disk behaves as if a whole group of system calls reached it in  *)
(* one indivisible step, and a crash throws away whole system calls only.  *)
(***************************************************************************)
CONSTANTS Proc,     \* processes that run file-system calls
          Block,    \* home blocks of the file system
          Data      \* what a block can hold

VARIABLES durable,  \* the contents a crash would leave behind
          view,     \* the contents that running system calls see
          active    \* processes between begin_op() and end_op()

vars == <<durable, view, active>>

Init ==
  /\ durable \in [Block -> Data]
  /\ view = durable
  /\ active = {}

Begin(p) ==
  /\ p \notin active
  /\ active' = active \cup {p}
  /\ UNCHANGED <<durable, view>>

Write(p, b, v) ==
  /\ p \in active
  /\ view' = [view EXCEPT ![b] = v]
  /\ UNCHANGED <<durable, active>>

End(p) ==
  /\ p \in active
  /\ active' = active \ {p}
  /\ UNCHANGED <<durable, view>>

\* The only step that changes what a crash leaves: everything at once, and
\* only while no system call is half done.
Commit ==
  /\ active = {}
  /\ durable' = view
  /\ UNCHANGED <<view, active>>

Crash ==
  /\ view' = durable
  /\ active' = {}
  /\ UNCHANGED durable

Next ==
  \/ \E p \in Proc : Begin(p) \/ End(p)
  \/ \E p \in Proc, b \in Block, v \in Data : Write(p, b, v)
  \/ Commit
  \/ Crash

Spec == Init /\ [][Next]_vars
=============================================================================
