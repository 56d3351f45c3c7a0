--------------------------------- MODULE Vm ---------------------------------
(***************************************************************************)
(* Virtual memory: the page allocator (kalloc.c), page directories and     *)
(* tables (walkpgdir to munprotect in vm.c), and the calls that change an  *)
(* address space: growproc and fork (proc.c), wait's half of exit, exec    *)
(* (exec.c), mprotect and munprotect.  Threads are left out.               *)
(*                                                                         *)
(* Sizes are in units of which PGSIZE make a page.  A directory has NPDE   *)
(* entries for user memory and one that stands for the kernel's; tables,   *)
(* directories and kernel stacks are pages themselves.  kalloc takes any   *)
(* free page; here it is the least.  Every kalloc of a call is a step that *)
(* may find no page, and others interleave; freeing is one step.  User     *)
(* memory of a process is used by the process alone, so the rest of a call *)
(* is one.                                                                 *)
(***************************************************************************)
EXTENDS Naturals, Sequences, FiniteSets, FiniteSetsExt, Functions, TLC

CONSTANTS
  Proc, First,   \* process slots, and the process that runs at the start
  Memories,      \* how many pages kinit2 finds below PHYSTOP: one of these
  NPDE, NPTE, PGSIZE,
  Sizes,         \* bound: what programs pass to sbrk; the sizes of program files
  MaxCalls       \* bound: the calls and stores of all programs together

Page == 1..Max(Memories)
NPg == NPDE * NPTE
KERNBASE == NPg * PGSIZE
Value == 0..3    \* of a page: zeros, a program, what a store leaves, kfree's junk

ASSUME VmAssumption ==
  /\ Memories \subseteq Nat \ (0..4) /\ Memories # {} /\ IsFiniteSet(Memories)
  /\ NPDE \in Nat \ {0} /\ NPTE \in Nat \ {0} /\ PGSIZE \in Nat \ {0}
  /\ Sizes \subseteq Nat \ {0} /\ MaxCalls \in Nat /\ First \in Proc

VARIABLES
  mem,           \* the number of pages; free pages, directories, tables, contents of pages
  pgdir, sz,     \* of each process
  kstack,
  s,             \* where each process is in its call
  calls          \* made so far

vars == <<mem, pgdir, sz, kstack, s, calls>>

NoPte == [pa |-> 0, w |-> FALSE, u |-> FALSE]
NoTable == [j \in 0..NPTE - 1 |-> NoPte]
Zero == 0
Prog == 1
Stored == 2
Junk == 3       \* also where a page is no user's page

User == [pc |-> "user", d |-> 0, a |-> 0, old |-> 0, new |-> 0, pg |-> 0, np |-> First]
At(p, l) == s[p].pc = l
Back(p) == s' = [s EXCEPT ![p] = User]

-----------------------------------------------------------------------------
(***************************************************************************)
(* Pages and tables.  These operators take the memory and return it        *)
(* changed.                                                                *)
(***************************************************************************)
PGROUNDDOWN(n) == n \div PGSIZE
PGROUNDUP(n) == (n + PGSIZE - 1) \div PGSIZE

kalloc(m) == Min(m.free)
kfree(m, S) == [m EXCEPT !.free = @ \cup S, !.val = [p \in Page |-> IF p \in S THEN Junk ELSE @[p]]]
Take(m, v) == [m EXCEPT !.free = @ \ {kalloc(m)}, !.val[kalloc(m)] = v]

\* The entry of page i of directory d; NoPte where walkpgdir finds no table.
walkpgdir(m, d, i) ==
  LET t == m.dir[d][i \div NPTE] IN IF t = 0 THEN NoPte ELSE m.tab[t][i % NPTE]
Present(m, d) == {i \in 0..NPg - 1 : walkpgdir(m, d, i).pa # 0}

\* walkpgdir with alloc: a page for the table of i, if it has none.
HasTable(m, d, i) == m.dir[d][i \div NPTE] # 0
WithTable(m, d, i) ==
  IF HasTable(m, d, i) THEN m
  ELSE [Take(m, Junk) EXCEPT !.dir[d][i \div NPTE] = kalloc(m), !.tab = (kalloc(m) :> NoTable) @@ @]
SetPte(m, d, i, e) == [m EXCEPT !.tab[m.dir[d][i \div NPTE]][i % NPTE] = e]

\* The pages that deallocuvm(pgdir, oldsz, newsz) takes away.
Cut_down(m, d, oldsz, newsz) == {i \in Present(m, d) : i >= PGROUNDDOWN(newsz) /\ i * PGSIZE < oldsz}
Cut(m, d, oldsz, newsz) == {i \in Present(m, d) : i >= PGROUNDUP(newsz) /\ i * PGSIZE < oldsz}
deallocuvm(m, d, oldsz, newsz) ==
  LET cut == Cut(m, d, oldsz, newsz)
      gone(t) == {j \in 0..NPTE - 1 : \E k \in 0..NPDE - 1 : m.dir[d][k] = t /\ k * NPTE + j \in cut}
  IN  [kfree(m, {walkpgdir(m, d, i).pa : i \in cut}) EXCEPT
         !.tab = [t \in DOMAIN @ |-> [j \in 0..NPTE - 1 |-> IF j \in gone(t) THEN NoPte ELSE @[t][j]]]]

Tables(m, d) == {m.dir[d][k] : k \in 0..NPDE} \ {0}
freevm(m, d) ==
  LET m1 == deallocuvm(m, d, KERNBASE, 0)
  IN  [kfree(m1, Tables(m, d) \cup {d}) EXCEPT
         !.dir = Restrict(@, DOMAIN @ \ {d}), !.tab = Restrict(@, DOMAIN @ \ Tables(m, d))]

\* The two halves of setupkvm: an empty directory; its entry for the kernel's tables.
NewDir(m) == [Take(m, Junk) EXCEPT !.dir = (kalloc(m) :> [k \in 0..NPDE |-> 0]) @@ @]
KernelMap(m, d) == [Take(m, Junk) EXCEPT !.dir[d][NPDE] = kalloc(m)]

\* userinit and inituvm: the first process has one page.
Init ==
  \E n \in Memories :
  LET m0 == [top |-> n, free |-> 1..n, dir |-> <<>>, tab |-> <<>>, val |-> [p \in Page |-> Junk]]
      m1 == Take(KernelMap(NewDir(Take(m0, Junk)), 2), Prog)
  IN
  /\ calls = 0
  /\ mem = SetPte(WithTable(m1, 2, 0), 2, 0, [pa |-> 4, w |-> TRUE, u |-> TRUE])
  /\ kstack = [p \in Proc |-> IF p = First THEN 1 ELSE 0]
  /\ pgdir = [p \in Proc |-> IF p = First THEN 2 ELSE 0]
  /\ sz = [p \in Proc |-> IF p = First THEN PGSIZE ELSE 0]
  /\ s = [p \in Proc |-> IF p = First THEN User ELSE [User EXCEPT !.pc = "unused"]]

-----------------------------------------------------------------------------
(***************************************************************************)
(* sbrk.                                                                   *)
(***************************************************************************)
\* A program runs while its code, page 0, is there; without it, it faults and exits.
Runs(p) == At(p, "user") /\ 0 \in Present(mem, pgdir[p])

UserCall(p) == Runs(p) /\ calls < MaxCalls /\ calls' = calls + 1

\* growproc(n): allocuvm refuses sizes from KERNBASE on.
Grow(p, n) ==
  /\ UserCall(p)
  /\ s' = IF sz[p] + n >= KERNBASE THEN s
          ELSE [s EXCEPT ![p] = [User EXCEPT !.pc = "grow", !.d = pgdir[p], !.a = PGROUNDUP(sz[p]),
                                             !.old = sz[p], !.new = sz[p] + n]]
  /\ UNCHANGED <<mem, pgdir, sz, kstack>>

\* growproc(-n): deallocuvm; sz - n below 0 wraps and changes nothing.  For a new size of 0
\* growproc takes deallocuvm's result for a failure and leaves sz as it was.
Shrink(p, n) ==
  /\ UserCall(p)
  /\ n <= sz[p]
  /\ mem' = deallocuvm(mem, pgdir[p], sz[p], sz[p] - n)
  /\ sz' = [sz EXCEPT ![p] = IF @ = n THEN @ ELSE @ - n]
  /\ UNCHANGED <<pgdir, kstack, s>>

-----------------------------------------------------------------------------
(***************************************************************************)
(* setupkvm, allocuvm and copyuvm, for sbrk, exec and fork.  Each kalloc   *)
(* is a step: of setupkvm at "dir" and "kmap", and in the loops for a page *)
(* (pg, until it is mapped) and for its table.                             *)
(***************************************************************************)
Forking(p) == s[p].pc \in {"dir", "kmap", "copy"} /\ s[p].np # p

\* The call of p fails with memory m; fork gives its slot and the kernel stack back.
Fail(p, m) ==
  IF Forking(p)
    THEN /\ mem' = kfree(m, {kstack[s[p].np]})
         /\ kstack' = [kstack EXCEPT ![s[p].np] = 0]
         /\ s' = [s EXCEPT ![p] = User, ![s[p].np].pc = "unused"]
    ELSE mem' = m /\ Back(p) /\ UNCHANGED kstack

setupkvm(p) ==
  /\ At(p, "dir")
  /\ IF mem.free = {} THEN Fail(p, mem)
     ELSE /\ mem' = NewDir(mem)
          /\ s' = [s EXCEPT ![p].pc = "kmap", ![p].d = kalloc(mem)]
          /\ UNCHANGED kstack
  /\ UNCHANGED <<pgdir, sz, calls>>

\* Its mappages; without a page the directory goes as well.
mapkernel(p) ==
  /\ At(p, "kmap")
  /\ IF mem.free = {} THEN Fail(p, freevm(mem, s[p].d))
     ELSE /\ mem' = KernelMap(mem, s[p].d)
          /\ s' = [s EXCEPT ![p].pc = IF Forking(p) THEN "copy" ELSE "image"]
          /\ UNCHANGED kstack
  /\ UNCHANGED <<pgdir, sz, calls>>

Looping(p) == s[p].pc \in {"grow", "image", "stack", "copy"}
More(p) == Looping(p) /\ s[p].a * PGSIZE < s[p].new /\ s[p].new < KERNBASE
Done(p) == Looping(p) /\ s[p].a * PGSIZE >= s[p].new

\* What the error paths of the loops leave: allocuvm takes back its pages, exec and copyuvm
\* drop their directory, and the page that could not be mapped is freed.
Undone_leaks(p) ==
  LET d == s[p].d
      m == IF At(p, "copy") THEN mem ELSE deallocuvm(mem, d, s[p].new, s[p].old)
  IN  IF At(p, "grow") THEN m ELSE freevm(m, d)
Undone(p) ==
  LET d == s[p].d
      m == IF At(p, "copy") THEN mem ELSE deallocuvm(mem, d, s[p].new, s[p].old)
      n == kfree(m, {s[p].pg} \ {0})
  IN  IF At(p, "grow") THEN n ELSE freevm(n, d)

\* A page with content v for the next turn of the loop.
GetPage(p, v) ==
  /\ IF mem.free = {} THEN Fail(p, Undone(p))
     ELSE /\ mem' = Take(mem, v)
          /\ s' = [s EXCEPT ![p].pg = kalloc(mem)]
          /\ UNCHANGED kstack
  /\ UNCHANGED <<pgdir, sz, calls>>
allocuvm(p) == More(p) /\ ~At(p, "copy") /\ s[p].pg = 0 /\ GetPage(p, Zero)

\* copyuvm copies a page that is there, and its protection.
Old(p) == walkpgdir(mem, pgdir[p], s[p].a)
copyuvm(p) ==
  /\ More(p) /\ At(p, "copy") /\ s[p].pg = 0
  /\ IF Old(p).pa = 0
       THEN s' = [s EXCEPT ![p].pc = "panic"] /\ UNCHANGED <<mem, pgdir, sz, kstack, calls>>
       ELSE GetPage(p, mem.val[Old(p).pa])
perm_writable(p) == IF At(p, "copy") THEN [w |-> TRUE, u |-> Old(p).u] ELSE [w |-> TRUE, u |-> TRUE]
perm(p) == IF At(p, "copy") THEN [w |-> Old(p).w, u |-> Old(p).u] ELSE [w |-> TRUE, u |-> TRUE]

\* mappages of that page.
mappages(p) ==
  LET d == s[p].d
      i == s[p].a
  IN
  /\ s[p].pg # 0
  /\ CASE i \in Present(mem, d) -> s' = [s EXCEPT ![p].pc = "panic"] /\ UNCHANGED <<mem, kstack>>
       [] ~HasTable(mem, d, i) /\ mem.free = {} -> Fail(p, Undone(p))
       [] OTHER -> /\ mem' = SetPte(WithTable(mem, d, i), d, i, perm(p) @@ [pa |-> s[p].pg])
                   /\ s' = [s EXCEPT ![p].a = @ + 1, ![p].pg = 0]
                   /\ UNCHANGED kstack
  /\ UNCHANGED <<pgdir, sz, calls>>

\* The loop is over: the rest of growproc.
growproc(p) ==
  /\ At(p, "grow") /\ Done(p)
  /\ sz' = [sz EXCEPT ![p] = s[p].new]
  /\ Back(p)
  /\ UNCHANGED <<mem, pgdir, kstack, calls>>

-----------------------------------------------------------------------------
(***************************************************************************)
(* exec, for a file with one segment of n units at 0.                      *)
(***************************************************************************)
exec(p, n) ==
  /\ UserCall(p)
  /\ s' = [s EXCEPT ![p] = [User EXCEPT !.pc = "dir", !.new = n, !.np = p]]
  /\ UNCHANGED <<mem, pgdir, sz, kstack>>

\* loaduvm, then room for the guard page and the stack, or too large for that.
loaduvm(p) ==
  LET top == PGROUNDUP(s[p].new)
      own == {walkpgdir(mem, s[p].d, i).pa : i \in 0..top - 1}
  IN
  /\ At(p, "image") /\ Done(p)
  /\ IF (top + 2) * PGSIZE >= KERNBASE
       THEN mem' = freevm(mem, s[p].d) /\ Back(p)
       ELSE /\ mem' = [mem EXCEPT !.val = [q \in Page |-> IF q \in own THEN Prog ELSE @[q]]]
            /\ s' = [s EXCEPT ![p].pc = "stack", ![p].a = top, ![p].old = top * PGSIZE,
                              ![p].new = (top + 2) * PGSIZE]
  /\ UNCHANGED <<pgdir, sz, kstack, calls>>

\* A file that cannot be read or is too large, or arguments that do not fit the stack.
bad(p) ==
  /\ \/ At(p, "image") /\ s[p].a = 0 /\ s[p].pg = 0
     \/ s[p].pc \in {"image", "stack"} /\ Done(p)
  /\ mem' = freevm(mem, s[p].d)
  /\ Back(p)
  /\ UNCHANGED <<pgdir, sz, kstack, calls>>

clearpteu(m, d, i) == SetPte(m, d, i, [walkpgdir(m, d, i) EXCEPT !.u = FALSE])
\* "Commit to the user image."
Commit(p) ==
  /\ At(p, "stack") /\ Done(p)
  /\ mem' = freevm(clearpteu(mem, s[p].d, s[p].a - 2), pgdir[p])
  /\ pgdir' = [pgdir EXCEPT ![p] = s[p].d]
  /\ sz' = [sz EXCEPT ![p] = s[p].new]
  /\ Back(p)
  /\ UNCHANGED <<kstack, calls>>

-----------------------------------------------------------------------------
(***************************************************************************)
(* fork, exit, wait.                                                       *)
(***************************************************************************)
\* allocproc takes a slot and a page for the kernel stack; without one it lets the slot go.
\* Then copyuvm.
fork(p, q) ==
  /\ UserCall(p) /\ At(q, "unused")
  /\ IF mem.free = {} THEN UNCHANGED <<mem, kstack, s>>
     ELSE /\ mem' = Take(mem, Junk)
          /\ kstack' = [kstack EXCEPT ![q] = kalloc(mem)]
          /\ s' = [s EXCEPT ![p] = [User EXCEPT !.pc = "dir", !.new = sz[p], !.np = q],
                            ![q].pc = "embryo"]
  /\ UNCHANGED <<pgdir, sz>>

\* The rest of fork.
Forked(p) ==
  /\ At(p, "copy") /\ Done(p)
  /\ pgdir' = [pgdir EXCEPT ![s[p].np] = s[p].d]
  /\ sz' = [sz EXCEPT ![s[p].np] = sz[p]]
  /\ s' = [s EXCEPT ![p] = User, ![s[p].np] = User]
  /\ UNCHANGED <<mem, kstack, calls>>

\* By a call, or by a page fault.
exit(p) ==
  /\ At(p, "user")
  /\ s' = [s EXCEPT ![p].pc = "zombie"]
  /\ UNCHANGED <<mem, pgdir, sz, kstack, calls>>

\* The parent's wait() comes to the zombie q.  The code leaves pgdir and sz in the unused slot,
\* where nothing reads them before fork sets them; here they are 0.
wait(q) ==
  /\ At(q, "zombie")
  /\ mem' = freevm(kfree(mem, {kstack[q]}), pgdir[q])
  /\ kstack' = [kstack EXCEPT ![q] = 0]
  /\ pgdir' = [pgdir EXCEPT ![q] = 0]
  /\ sz' = [sz EXCEPT ![q] = 0]
  /\ s' = [s EXCEPT ![q].pc = "unused"]
  /\ UNCHANGED calls

-----------------------------------------------------------------------------
(***************************************************************************)
(* mprotect and munprotect; a store of a program.  The calls are made for  *)
(* ranges whose end does not wrap at 2^32: the code compares addr + len *  *)
(* PGSIZE in 32 bits, and a sum that wraps passes.                         *)
(***************************************************************************)
\* Pages i to i + n - 1, if they lie below sz; on = FALSE for mprotect.
mprotect(p, i, n, on) ==
  /\ UserCall(p)
  /\ (i + n) * PGSIZE <= sz[p]
  /\ mem' = [mem EXCEPT !.tab =
       [t \in DOMAIN @ |->
          [j \in 0..NPTE - 1 |->
             IF \E k \in 0..NPDE - 1 : mem.dir[pgdir[p]][k] = t /\ k * NPTE + j \in i..i + n - 1
               THEN [@[t][j] EXCEPT !.w = on] ELSE @[t][j]]]]
  /\ UNCHANGED <<pgdir, sz, kstack, s>>

\* What the hardware lets through.
Store(p, i) ==
  LET e == walkpgdir(mem, pgdir[p], i) IN
  /\ UserCall(p)
  /\ e.pa # 0 /\ e.w /\ e.u
  /\ mem' = [mem EXCEPT !.val[e.pa] = Stored]
  /\ UNCHANGED <<pgdir, sz, kstack, s>>

Next ==
  \E p \in Proc :
    \/ \E n \in Sizes : Grow(p, n) \/ Shrink(p, n) \/ exec(p, n)
    \/ setupkvm(p) \/ mapkernel(p) \/ allocuvm(p) \/ copyuvm(p) \/ mappages(p) \/ growproc(p)
    \/ loaduvm(p) \/ bad(p) \/ Commit(p)
    \/ \E q \in Proc : fork(p, q)
    \/ Forked(p) \/ exit(p) \/ wait(p)
    \/ \E i \in 0..NPg - 1, n \in 1..NPg, on \in BOOLEAN : mprotect(p, i, n, on)
    \/ \E i \in 0..NPg - 1 : Store(p, i)

Spec == Init /\ [][Next]_vars

-----------------------------------------------------------------------------
(***************************************************************************)
(* Properties.                                                             *)
(***************************************************************************)
\* Types of all that is not a page's use.
TypeOK ==
  /\ mem.free \subseteq Page /\ DOMAIN mem.dir \subseteq Page /\ DOMAIN mem.tab \subseteq Page
  /\ mem.val \in [Page -> Value]
  /\ pgdir \in [Proc -> Page \cup {0}] /\ sz \in [Proc -> 0..KERNBASE - 1]
  /\ kstack \in [Proc -> Page \cup {0}]

\* The directories in use: of processes and, not yet theirs, of fork and exec.
Dirs == {pgdir[p] : p \in Proc} \cup {s[p].d : p \in Proc}
\* Where pages are used: each entry of a directory or a table that points to one.
Slots == {e \in (DOMAIN mem.dir) \X (0..NPDE) : mem.dir[e[1]][e[2]] # 0}
Ptes == {e \in (DOMAIN mem.tab) \X (0..NPTE - 1) : mem.tab[e[1]][e[2]].pa # 0}
Stacks == {p \in Proc : kstack[p] # 0}
Held == {p \in Proc : s[p].pg # 0}

\* Every page is free or in use in one place: as a kernel stack, a directory, a table, a user's
\* page, or a page that a loop has taken and not mapped yet.  The uses are as many as the pages
\* and cover them, so none is used twice, is both free and used, or is lost.  No failure of
\* fork, exec or sbrk, at whichever of their kallocs no page is left, leaks or gives away a
\* page, and no two processes share one.
PagesInv ==
  /\ TypeOK
  /\ 1..mem.top = mem.free \cup DOMAIN mem.dir \cup {kstack[p] : p \in Stacks} \cup {s[p].pg : p \in Held}
              \cup {mem.dir[e[1]][e[2]] : e \in Slots} \cup {mem.tab[e[1]][e[2]].pa : e \in Ptes}
  /\ mem.top = Cardinality(mem.free) + Cardinality(DOMAIN mem.dir) + Cardinality(Stacks)
                + Cardinality(Held) + Cardinality(Slots) + Cardinality(Ptes)
  /\ DOMAIN mem.dir = Dirs \ {0}

\* What sz says is what is mapped: a process in user mode has exactly the pages below its
\* size, so that copyuvm and mappages find what they expect and neither panics ("remap",
\* "copyuvm: page not present").
SizeIsMapped ==
  \A p \in Proc : /\ ~At(p, "panic")
                  /\ Runs(p) => Present(mem, pgdir[p]) = 0..PGROUNDUP(sz[p]) - 1

\* Virtual memory implements AddressSpaces.
Image(p) ==
  IF s[p].pc \in {"unused", "embryo", "zombie"} \/ 0 \notin Present(mem, pgdir[p]) THEN <<>>
  ELSE [i \in 1..PGROUNDUP(sz[p]) |->
          LET e == walkpgdir(mem, pgdir[p], i - 1)
          IN  [val |-> IF e.pa = 0 THEN Junk ELSE mem.val[e.pa], w |-> e.w, u |-> e.u]]
A == INSTANCE AddressSpaces WITH image <- [p \in Proc |-> Image(p)]
ImplementsAddressSpaces == A!ASpec
=============================================================================
