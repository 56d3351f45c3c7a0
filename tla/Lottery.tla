------------------------------ MODULE Lottery -------------------------------
(***************************************************************************)
(* The lottery scheduler of proc.c with its bookkeeping: tickets, ticks,   *)
(* and settickets.  The draw uses the code's own generator                 *)
(*     seed = (8121 * seed + 28411) % 134456                               *)
(* and its own test "count >= r", so what is checked here is the share     *)
(* that this generator really hands out.  The sums of tickets are C ints:  *)
(* they wrap, past 2^31 - 1 in the code and past IntMax here, as the       *)
(* machine's addition does.                                                *)
(*                                                                         *)
(* One CPU; slots in table order.  A process comes into being through      *)
(* allocproc and fork, and goes through wait or join; between, it runs,    *)
(* yields and sleeps.  Module Proc has the rest of its life.               *)
(***************************************************************************)
EXTENDS Integers, FiniteSets, FiniteSetsExt

CONSTANTS
  NSLOT,          \* number of slots
  IntMax,         \* 2^31 - 1, the largest int
  Workloads,      \* what programs do, a set of records of type Workload
  Slack, Gap      \* how far off its share, in draws, and how long without a turn a
                  \* process may be

Slot == 1..NSLOT
Workload == [tickets : [Slot -> 0..IntMax],    \* of the processes present at the start; 0 = no process
             settickets : SUBSET (0..IntMax),  \* arguments of settickets
             sleepers : SUBSET Slot,           \* slots whose process may sleep
             comings : SUBSET {"wait", "join"},\* whether processes fork, exit and go through wait or join
             draws : Nat]                      \* bound on the number of draws

ASSUME LotteryAssumption ==
  NSLOT \in Nat \ {0} /\ IntMax \in Nat \ {0} /\ Slack \in Nat /\ Gap \in Nat /\ Workloads \subseteq Workload

VARIABLES
  load,           \* the workload of this behaviour
  seed,
  runnable,       \* slots that are RUNNABLE
  running,        \* the RUNNING slot, None, or Trapped when the kernel took a divide fault
  used,           \* slots that are not UNUSED
  zombies,        \* slots that are ZOMBIE
  tickets, ticks,
  own,            \* ticks of the process now in the slot (not in the code)
  since,          \* draws each RUNNABLE process has lost in a row (not in the code)
  draws           \* draws so far (not in the code)

vars == <<load, seed, runnable, running, used, zombies, tickets, ticks, own, since, draws>>

None == 0
Trapped == NSLOT + 1
Modulus == 134456

Init ==
  /\ load \in Workloads
  /\ seed = 1234
  /\ used = {s \in Slot : load.tickets[s] > 0}
  /\ runnable = used
  /\ running = None
  /\ zombies = {}
  /\ tickets = load.tickets
  /\ ticks = [s \in Slot |-> 0]
  /\ own = [s \in Slot |-> 0]
  /\ since = [s \in Slot |-> 0]
  /\ draws = 0

-----------------------------------------------------------------------------
NextSeed_stuck(s) == s
NextSeed(s) == (8121 * s + 28411) % Modulus

Total(S) ==
  LET sum[n \in 0..NSLOT] == IF n = 0 THEN 0 ELSE sum[n - 1] + (IF n \in S THEN tickets[n] ELSE 0)
  IN  sum[NSLOT]

\* x as an int, and the running count over the slots S.
AsInt(x) == ((x + IntMax + 1) % (2 * (IntMax + 1))) - (IntMax + 1)
Count(S) == AsInt(Total(S))

\* The number drawn: 0 .. count, that is count + 1 values for count tickets.  C's
\* remainder has the sign of the seed, whatever the sign of count + 1.
Divisor == AsInt(Count(runnable) + 1)
Drawn(s) == IF Count(runnable) = 0 THEN 0 ELSE s % (IF Divisor < 0 THEN -Divisor ELSE Divisor)

\* The second scan takes the first RUNNABLE slot at which the running count of
\* tickets reaches r.
Winners_above(r) == {s \in runnable : Count({t \in runnable : t <= s}) > r}
Winners_last(r) == {s \in runnable : Count({t \in runnable : t < s}) >= r}
Winners(r) == {s \in runnable : Count({t \in runnable : t <= s}) >= r}

\* A turn of the scheduler's loop that finds a process and switches to it.
scheduler ==
  LET w == Min(Winners(Drawn(seed')))
  IN  /\ running = None /\ Divisor # 0
      /\ draws < load.draws
      /\ seed' = NextSeed(seed)
      /\ Winners(Drawn(seed')) # {}
      /\ running' = w
      /\ runnable' = runnable \ {w}
      /\ ticks' = [ticks EXCEPT ![w] = @ + 1]
      /\ own' = [own EXCEPT ![w] = @ + 1]
      /\ since' = [s \in Slot |-> IF s \in runnable \ {w} THEN since[s] + 1 ELSE 0]
      /\ draws' = draws + 1
      /\ UNCHANGED <<load, used, zombies, tickets>>

\* A turn that finds none: the generator moves on all the same.
idle ==
  /\ running = None /\ Divisor # 0
  /\ draws < load.draws
  /\ seed' = NextSeed(seed)
  /\ Winners(Drawn(seed')) = {}
  /\ draws' = draws + 1
  /\ UNCHANGED <<load, runnable, running, used, zombies, tickets, ticks, own, since>>

\* The tickets add up to -1: seed % (count + 1) divides by zero and the kernel stops.
trap ==
  /\ running = None /\ Divisor = 0
  /\ draws < load.draws
  /\ seed' = NextSeed(seed)
  /\ running' = Trapped
  /\ UNCHANGED <<load, runnable, used, zombies, tickets, ticks, own, since, draws>>

yield ==
  /\ running \in Slot
  /\ runnable' = runnable \cup {running}
  /\ running' = None
  /\ UNCHANGED <<load, seed, used, zombies, tickets, ticks, own, since, draws>>

sleep ==
  /\ running \in load.sleepers
  /\ running' = None
  /\ UNCHANGED <<load, seed, runnable, used, zombies, tickets, ticks, own, since, draws>>

wakeup(s) ==
  /\ running # Trapped
  /\ s \in used \ (zombies \cup runnable \cup {running})
  /\ runnable' = runnable \cup {s}
  /\ UNCHANGED <<load, seed, running, used, zombies, tickets, ticks, own, since, draws>>

\* settickets rejects negative numbers only.
sys_settickets(n) ==
  /\ running \in Slot
  /\ tickets' = [tickets EXCEPT ![running] = n]
  /\ UNCHANGED <<load, seed, runnable, running, used, zombies, ticks, own, since, draws>>

\* allocproc gives one ticket, fork then copies the parent's; neither sets ticks.
fork ==
  /\ load.comings # {}
  /\ running \in Slot
  /\ Slot \ used # {}
  /\ LET n == Min(Slot \ used)
     IN  /\ used' = used \cup {n}
         /\ runnable' = runnable \cup {n}
         /\ tickets' = [tickets EXCEPT ![n] = tickets[running]]
         /\ own' = [own EXCEPT ![n] = 0]
  /\ UNCHANGED <<load, seed, running, zombies, ticks, since, draws>>

exit ==
  /\ load.comings # {}
  /\ running \in Slot
  /\ zombies' = zombies \cup {running}
  /\ running' = None
  /\ UNCHANGED <<load, seed, runnable, used, tickets, ticks, own, since, draws>>

wait_keeps_ticks(z) ==
  /\ "wait" \in load.comings /\ running \in Slot
  /\ z \in zombies
  /\ used' = used \ {z}
  /\ zombies' = zombies \ {z}
  /\ tickets' = [tickets EXCEPT ![z] = 0]
  /\ UNCHANGED <<load, seed, runnable, running, ticks, own, since, draws>>
wait(z) ==
  /\ "wait" \in load.comings /\ running \in Slot
  /\ z \in zombies
  /\ used' = used \ {z}
  /\ zombies' = zombies \ {z}
  /\ tickets' = [tickets EXCEPT ![z] = 0]
  /\ ticks' = [ticks EXCEPT ![z] = 0]
  /\ UNCHANGED <<load, seed, runnable, running, own, since, draws>>

join(z) ==
  /\ "join" \in load.comings
  /\ running \in Slot
  /\ z \in zombies
  /\ used' = used \ {z}
  /\ zombies' = zombies \ {z}
  /\ UNCHANGED <<load, seed, runnable, running, tickets, ticks, own, since, draws>>

Next ==
  \/ scheduler \/ idle \/ trap \/ yield \/ sleep \/ fork \/ exit
  \/ \E s \in Slot : wakeup(s) \/ wait(s) \/ join(s)
  \/ \E n \in load.settickets : sys_settickets(n)

Spec == Init /\ [][Next]_vars

-----------------------------------------------------------------------------
(***************************************************************************)
(* Properties.                                                             *)
(***************************************************************************)
\* The fields have their types, seed among them: it stays below the modulus, so that
\* 8121 * seed + 28411 stays inside a C int.  RUNNABLE, RUNNING and ZOMBIE exclude
\* one another.
TypeOK ==
  /\ load \in Workloads /\ seed \in 0..Modulus - 1
  /\ used \subseteq Slot /\ zombies \subseteq used
  /\ runnable \subseteq used \ zombies
  /\ running \in (used \ (runnable \cup zombies)) \cup {None, Trapped}
  /\ tickets \in [Slot -> 0..IntMax] /\ ticks \in [Slot -> Nat] /\ own \in [Slot -> Nat]
  /\ since \in [Slot -> Nat]
  /\ draws \in 0..load.draws

\* A draw never comes out empty, or faults, while somebody is RUNNABLE, as long as the
\* tickets of the RUNNABLE processes add up to an int, all of them zero included: the CPU
\* does not idle with work to do.  Past IntMax the count of the code wraps, and the draw
\* may find nobody (a negative count) or divide by zero.
SomebodyRuns == [][idle \/ trap => runnable = {} \/ Total(runnable) > IntMax]_vars

\* A workload of a fixed set of processes that are always ready.
Steady == load.comings = {} /\ load.sleepers = {} /\ load.settickets = {}

\* After D draws of a steady workload a process with t of T tickets has run D * t / T
\* times, give or take Slack draws: the promise of a lottery, kept by this generator over
\* its whole period.
FairShare ==
  Steady => \A s \in used :
    LET d == ticks[s] * Total(used) - draws * tickets[s]
    IN  d <= Slack * Total(used) /\ -d <= Slack * Total(used)

\* Nobody starves in a steady workload: no RUNNABLE process loses more than Gap draws in a row.
NobodyStarves == Steady => \A s \in runnable : since[s] <= Gap

\* pstat.h: ticks is "the number of ticks each process has accumulated", not those of a
\* process that had the slot before, as long as all of them go through wait (join leaves ticks).
TicksAreOwn == TypeOK /\ ("join" \notin load.comings => \A s \in used : ticks[s] = own[s])
=============================================================================
