------------------------------- MODULE Malloc -------------------------------
(***************************************************************************)
(* malloc and free of the user library (ulib.c): a circular list of free   *)
(* blocks in the order of their addresses, searched first-fit from freep.  *)
(* Addresses and block sizes count headers; base is at 0, below the heap.  *)
(* The calls come from one thread: nothing in the library locks the list.  *)
(***************************************************************************)
EXTENDS Naturals, Sequences, FiniteSets, FiniteSetsExt, Functions, TLC

CONSTANTS
  HSIZE,       \* sizeof(Header)
  NALLOC,      \* the least number of units morecore asks for (4096)
  HeapMax,     \* bound: where sbrk fails
  Requests     \* bound: the sizes asked for, in bytes, small enough not to wrap

VARIABLES
  heap,        \* the free blocks: address -> [ptr, size]; base once malloc has set it up
  freep,
  used,        \* the blocks handed out: address -> size
  brk,         \* end of the heap
  foreign      \* units the program got from sbrk itself

mvars == <<heap, freep, used, brk, foreign>>

Base == 0
NULL == HeapMax + 1

MallocInit ==
  heap = <<>> /\ freep = NULL /\ used = <<>> /\ brk = 1 /\ foreign = {}

\* The blocks in the order of a walk that starts at f.
Walk(h, f) ==
  LET at[k \in 0..Cardinality(DOMAIN h)] == IF k = 0 THEN f ELSE h[at[k - 1]].ptr IN at

-----------------------------------------------------------------------------
\* Where free's loop stops: between p and its successor, or at the list's ends.
Between(h, p, bp) ==
  \/ bp > p /\ bp < h[p].ptr
  \/ p >= h[p].ptr /\ (bp > p \/ bp < h[p].ptr)
FreePlace(h, f, bp) ==
  LET w == Walk(h, f) IN w[Min({k \in DOMAIN w : Between(h, w[k], bp)})]

\* free of a block of n units at bp: [h, f] is the list and freep afterwards.
JoinUp(h, p, bp, n) ==
  IF bp + n = h[p].ptr
    THEN (bp :> [ptr |-> h[h[p].ptr].ptr, size |-> n + h[h[p].ptr].size])
           @@ Restrict(h, DOMAIN h \ {h[p].ptr})
    ELSE (bp :> [ptr |-> h[p].ptr, size |-> n]) @@ h
JoinDown_never(h, p, bp) == [h EXCEPT ![p].ptr = bp]
JoinDown(h, p, bp) ==
  IF p + h[p].size = bp
    THEN Restrict([h EXCEPT ![p] = [ptr |-> h[bp].ptr, size |-> @.size + h[bp].size]], DOMAIN h \ {bp})
    ELSE [h EXCEPT ![p].ptr = bp]
Freed(h, f, bp, n) ==
  LET p == FreePlace(h, f, bp) IN [h |-> JoinDown(JoinUp(h, p, bp, n), p, bp), f |-> p]

free(a) ==
  /\ a \in DOMAIN used
  /\ LET r == Freed(heap, freep, a, used[a]) IN heap' = r.h /\ freep' = r.f
  /\ used' = Restrict(used, DOMAIN used \ {a})
  /\ UNCHANGED <<brk, foreign>>

-----------------------------------------------------------------------------
Nunits(nbytes) == (nbytes + HSIZE - 1) \div HSIZE + 1

\* The first block of n units or more after f, and the one before it.
Fits(h, f, n) == {k \in 1..Cardinality(DOMAIN h) : h[Walk(h, f)[k]].size >= n}
\* The block is taken whole, or its upper end.
Carved(h, f, n) ==
  LET w == Walk(h, f)
      k == Min(Fits(h, f, n))
      p == w[k]
      prev == w[k - 1]
  IN  IF h[p].size = n
        THEN [h |-> Restrict([h EXCEPT ![prev].ptr = h[p].ptr], DOMAIN h \ {p}), f |-> prev, a |-> p]
        ELSE [h |-> [h EXCEPT ![p].size = @ - n], f |-> prev, a |-> p + h[p].size - n]

\* The list with base in it, as the first call makes it.
H0 == IF freep = NULL THEN Base :> [ptr |-> Base, size |-> 0] ELSE heap
F0 == IF freep = NULL THEN Base ELSE freep

Hand(r, n) ==
  /\ heap' = r.h /\ freep' = r.f
  /\ used' = (r.a :> n) @@ used

malloc(nbytes) ==
  LET n == Nunits(nbytes)
      nu == Max({n, NALLOC})             \* what morecore asks sbrk for
      more == Freed(H0, F0, brk, nu)
  IN
  /\ \/ /\ Fits(H0, F0, n) # {}
        /\ Hand(Carved(H0, F0, n), n)
        /\ UNCHANGED brk
     \/ /\ Fits(H0, F0, n) = {} /\ brk + nu <= HeapMax
        /\ Hand(Carved(more.h, more.f, n), n)
        /\ brk' = brk + nu
     \/ /\ Fits(H0, F0, n) = {} /\ brk + nu > HeapMax     \* malloc returns 0
        /\ heap' = H0 /\ freep' = F0
        /\ UNCHANGED <<used, brk>>
  /\ UNCHANGED foreign

\* The program calls sbrk itself: the next piece of heap does not adjoin the last.
OtherSbrk ==
  /\ brk < HeapMax /\ foreign = {}
  /\ brk' = brk + 1
  /\ foreign' = foreign \cup {brk}
  /\ UNCHANGED <<heap, freep, used>>

MallocNext == (\E b \in Requests : malloc(b)) \/ (\E a \in DOMAIN used : free(a)) \/ OtherSbrk

-----------------------------------------------------------------------------
Units(a, n) == a..a + n - 1
FreeBlocks == DOMAIN heap \ {Base}

\* After any calls of malloc and free, in any order: every unit of the heap belongs to one
\* block, free or handed out (so no two blocks overlap and none is lost); the free list is
\* one ring through all free blocks in the order of their addresses; no two free blocks
\* adjoin, so that freed memory can serve larger requests.
HeapInv ==
  /\ UNION {Units(a, heap[a].size) : a \in FreeBlocks} \cup UNION {Units(a, used[a]) : a \in DOMAIN used}
       = (1..brk - 1) \ foreign
  /\ MapThenSumSet(LAMBDA e : e[2], {<<a, heap[a].size>> : a \in FreeBlocks} \cup {<<a, used[a]>> : a \in DOMAIN used})
       = brk - 1 - Cardinality(foreign)
  /\ freep # NULL =>
       /\ {Walk(heap, freep)[k] : k \in 1..Cardinality(DOMAIN heap)} = DOMAIN heap
       /\ Cardinality({a \in DOMAIN heap : heap[a].ptr <= a}) = 1
  /\ \A a, b \in FreeBlocks : a + heap[a].size # b
=============================================================================
