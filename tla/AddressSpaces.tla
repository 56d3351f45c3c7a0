--------------------------- MODULE AddressSpaces ----------------------------
(***************************************************************************)
(* What virtual memory promises to programs: every process has pages of    *)
(* its own, which only its own stores, sbrk, exec and mprotect change; fork*)
(* copies them, contents and protection.                                   *)
(***************************************************************************)
EXTENDS Naturals, Sequences

CONSTANTS
  Proc,
  Value        \* contents of a page; 0 is what a new page holds, 1 a program as exec loads it

VARIABLE image   \* per process, its pages in order; <<>> for none

APage == [val : Value, w : BOOLEAN, u : BOOLEAN]
AInit == \E p \in Proc, x \in APage : image = [q \in Proc |-> IF q = p THEN <<x>> ELSE <<>>]

Fresh(v) == [val |-> v, w |-> TRUE, u |-> TRUE]
Of(n, v) == [i \in 1..n |-> Fresh(v)]
Guard == [Fresh(0) EXCEPT !.u = FALSE]

\* What the pages x of a process may become by its own doing.
Grow(x, y)    == x # <<>> /\ Len(y) > Len(x) /\ y = x \o Of(Len(y) - Len(x), 0)
Shrink(x, y)  == Len(y) < Len(x) /\ y = SubSeq(x, 1, Len(y))    \* exit too: to nothing
Store(x, y)   == \E i \in DOMAIN x, v \in Value : x[i].w /\ x[i].u /\ y = [x EXCEPT ![i].val = v]
Protect(x, y) == /\ Len(y) = Len(x)
                 /\ \E b \in BOOLEAN : \A i \in DOMAIN x : y[i] \in {x[i], [x[i] EXCEPT !.w = b]}
\* A program, the page that guards the stack, the stack.
Exec(x, y)    == x # <<>> /\ Len(y) > 2 /\ y = Of(Len(y) - 2, 1) \o <<Guard, Fresh(0)>>

ANext == \E p \in Proc :
  /\ \A q \in Proc \ {p} : image'[q] = image[q]
  /\ LET x == image[p]
         y == image'[p]
     IN  \/ Grow(x, y) \/ Shrink(x, y) \/ Store(x, y) \/ Protect(x, y) \/ Exec(x, y)
         \/ x = <<>> /\ \E q \in Proc : y = image[q]              \* fork by q

ASpec == AInit /\ [][ANext]_image
=============================================================================
