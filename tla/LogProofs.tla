----------------------------- MODULE LogProofs -----------------------------
(***************************************************************************)
(* Proofs about Log.  The reservation argument: begin_op() hands every     *)
(* running call MAXOPBLOCKS tokens, each newly logged block costs the call *)
(* one, and the blocks in the log plus the unspent tokens never exceed     *)
(* LOGSIZE.                                                                *)
(***************************************************************************)
EXTENDS Log, FiniteSetTheorems, TLAPS

-----------------------------------------------------------------------------
(* Counting tokens *)

\* Sets of running calls are finite, and counting them adds and removes one.
LEMMA OpsFinite ==
  ASSUME NEW ops \in SUBSET Proc
  PROVE  IsFiniteSet(ops) /\ Cardinality(ops) \in Nat
  BY SetsAssumption, FS_Subset, FS_CardinalityType

\* The tokens of a set of calls are finitely many, MAXOPBLOCKS each at most.
LEMMA TokensBound ==
  ASSUME NEW ops \in SUBSET Proc, NEW w
  PROVE  /\ IsFiniteSet(TokenSet(ops, w))
         /\ Cardinality(TokenSet(ops, w)) \in Nat
         /\ Cardinality(TokenSet(ops, w)) <= Cardinality(ops) * MAXOPBLOCKS
  <1>1. IsFiniteSet(1..MAXOPBLOCKS) /\ Cardinality(1..MAXOPBLOCKS) = MAXOPBLOCKS
    BY FS_Interval, SizesAssumption
  <1>2. /\ IsFiniteSet(ops \X (1..MAXOPBLOCKS))
        /\ Cardinality(ops \X (1..MAXOPBLOCKS)) = Cardinality(ops) * MAXOPBLOCKS
    BY <1>1, OpsFinite, FS_Product
  <1>3. TokenSet(ops, w) \in SUBSET (ops \X (1..MAXOPBLOCKS))
    BY DEF TokenSet
  <1>4. QED
    BY <1>2, <1>3, FS_Subset, FS_CardinalityType

\* Fewer calls, or calls that have logged more, have fewer tokens.
LEMMA TokensShrink ==
  ASSUME NEW ops \in SUBSET Proc, NEW w, NEW ops2, NEW w2,
         TokenSet(ops2, w2) \subseteq TokenSet(ops, w)
  PROVE  Cardinality(TokenSet(ops2, w2)) <= Cardinality(TokenSet(ops, w))
  BY TokensBound, FS_Subset

\* A call that has logged no more than its budget keeps the difference between
\* the reservation and the budget.
LEMMA TokensLeft ==
  ASSUME NEW ops \in SUBSET Proc, NEW w, NEW p \in ops,
         Cardinality(w[p]) \in Nat, Cardinality(w[p]) <= OpBlocks
  PROVE  MAXOPBLOCKS - OpBlocks <= Cardinality(TokenSet(ops, w))
  <1> DEFINE I == (OpBlocks + 1)..MAXOPBLOCKS
  <1> DEFINE T == {p} \X I
  <1>1. IsFiniteSet(I) /\ Cardinality(I) = MAXOPBLOCKS - OpBlocks
    <2>1. OpBlocks + 1 \in Int /\ MAXOPBLOCKS \in Int
      BY SizesAssumption
    <2>2. /\ IsFiniteSet(I)
          /\ Cardinality(I) = IF OpBlocks + 1 > MAXOPBLOCKS THEN 0
                              ELSE MAXOPBLOCKS - (OpBlocks + 1) + 1
      BY <2>1, FS_Interval
    <2>3. QED BY <2>2, SizesAssumption
  <1>2. IsFiniteSet({p}) /\ Cardinality({p}) = 1
    BY FS_Singleton
  <1>3. Cardinality(T) = MAXOPBLOCKS - OpBlocks
    <2>1. Cardinality(T) = Cardinality({p}) * Cardinality(I)
      BY <1>1, <1>2, FS_Product
    <2>2. QED BY <2>1, <1>1, <1>2, SizesAssumption
  <1>4. T \in SUBSET TokenSet(ops, w)
    BY SizesAssumption DEF TokenSet
  <1>5. Cardinality(T) <= Cardinality(TokenSet(ops, w))
    <2>1. IsFiniteSet(TokenSet(ops, w))
      BY TokensBound
    <2> HIDE DEF T
    <2>2. QED BY <1>4, <2>1, FS_Subset
  <1>6. QED
    BY <1>3, <1>5

\* A call that starts gets MAXOPBLOCKS tokens at most.
LEMMA TokensStart ==
  ASSUME NEW ops \in SUBSET Proc, NEW w, NEW p \in Proc, NEW w2,
         \A q \in ops : q # p => w2[q] = w[q]
  PROVE  Cardinality(TokenSet(ops \cup {p}, w2)) <= (Cardinality(ops) + 1) * MAXOPBLOCKS
  <1>1. Cardinality(ops \cup {p}) <= Cardinality(ops) + 1 /\ Cardinality(ops \cup {p}) \in Nat
    BY FS_AddElement, OpsFinite
  <1>2. Cardinality(ops \cup {p}) * MAXOPBLOCKS <= (Cardinality(ops) + 1) * MAXOPBLOCKS
    BY <1>1, OpsFinite, SizesAssumption
  <1>3. QED
    BY <1>1, <1>2, TokensBound, OpsFinite, SizesAssumption

\* Logging a block the call had not logged costs one token.
LEMMA TokensSpend ==
  ASSUME NEW ops \in SUBSET Proc, NEW w, NEW p \in ops, NEW w2,
         \A q \in ops : q # p => w2[q] = w[q],
         Cardinality(w[p]) \in Nat, Cardinality(w[p]) < MAXOPBLOCKS,
         Cardinality(w2[p]) = Cardinality(w[p]) + 1
  PROVE  Cardinality(TokenSet(ops, w2)) = Cardinality(TokenSet(ops, w)) - 1
  <1> DEFINE t == <<p, Cardinality(w[p]) + 1>>
  <1>1. t \in TokenSet(ops, w)
    BY SizesAssumption DEF TokenSet
  <1>2. TokenSet(ops, w2) = TokenSet(ops, w) \ {t}
    <2>1. ASSUME NEW u \in TokenSet(ops, w2) PROVE u \in TokenSet(ops, w) \ {t}
      BY SizesAssumption DEF TokenSet
    <2>2. ASSUME NEW u \in TokenSet(ops, w) \ {t} PROVE u \in TokenSet(ops, w2)
      BY SizesAssumption DEF TokenSet
    <2>3. QED BY <2>1, <2>2
  <1>3. IsFiniteSet(TokenSet(ops, w))
    BY TokensBound
  <1>4. Cardinality(TokenSet(ops, w) \ {t}) = Cardinality(TokenSet(ops, w)) - 1
    <2> HIDE DEF t
    <2>1. QED BY <1>1, <1>3, FS_RemoveElement
  <1>5. QED
    BY <1>2, <1>4
-----------------------------------------------------------------------------
(* The invariant is inductive *)

LEMMA SpaceInit == BudgetFits /\ Init => SpaceIInv
  <1> SUFFICES ASSUME BudgetFits, Init PROVE SpaceIInv
    OBVIOUS
  <1> USE SizesAssumption, SetsAssumption
  <1>1. Ops = {}
    BY DEF Init, Ops, InOp
  <1>2. TypeOK
    <2>1. dlog \in [1..LOGSIZE -> Data]
      BY DEF Init
    <2>2. lh \in Seq(Block) /\ dhead \in Seq(Block)
      BY DEF Init
    <2>3. committing \in BOOLEAN
      BY Zenon DEF Init
    <2>4. /\ pc \in [Proc -> Pc] /\ held \in [Proc -> Block \cup {None}]
          /\ written \in [Proc -> SUBSET Block] /\ cache \in [Block -> Data \cup {None}]
      BY DEF Init, Pc
    <2>5. QED BY <2>1, <2>2, <2>3, <2>4 DEF Init, TypeOK, Stage
  <1>3. Cardinality(Ops) = 0 /\ Cardinality(Tokens) = 0
    <2>1. Tokens = {}
      BY <1>1 DEF Tokens, TokenSet
    <2>2. QED BY <1>1, <2>1, FS_EmptySet
  <1>4. CountInv
    BY <1>1, <1>3 DEF Init, CountInv
  <1>5. SpaceInv
    BY <1>3 DEF Init, SpaceInv, BudgetFits
  <1>6. BudgetInv
    BY <1>1 DEF BudgetInv
  <1>7. NoPanic /\ CommitAlone /\ SleepersHaveCause
    BY DEF Init, NoPanic, CommitAlone, SleepersHaveCause
  <1>8. QED
    BY <1>2, <1>4, <1>5, <1>6, <1>7 DEF SpaceIInv

\* A step that leaves the processes and the transaction alone keeps everything
\* but the types and the link between stage and committing.
LEMMA SpaceFrame ==
  ASSUME SpaceIInv, TypeOK',
         UNCHANGED <<pc, held, written, lh, outstanding, committing>>,
         (stage \in {"write_log", "write_head", "install", "erase", "finish"} <=> committing)',
         Booting' => Booting,
         Len(dhead') <= LOGSIZE /\ Len(dhead') <= NLog - 1
  PROVE  SpaceIInv'
  <1>1. Ops' = Ops /\ Tokens' = Tokens
    BY DEF Ops, Tokens
  <1>2. CountInv' /\ SpaceInv'
    BY <1>1 DEF SpaceIInv, CountInv, SpaceInv
  <1>3. BudgetInv'
    BY <1>1 DEF SpaceIInv, BudgetInv, Logged
  <1>4. NoPanic' /\ CommitAlone' /\ SleepersHaveCause'
    BY DEF SpaceIInv, NoPanic, CommitAlone, SleepersHaveCause, NoRoom
  <1>5. QED
    BY <1>2, <1>3, <1>4 DEF SpaceIInv

\* Steps of a process that change neither the set of running calls nor the
\* transaction: the head of begin_op(), bread(), the check of log_write().
LEMMA SpaceLocal ==
  ASSUME SpaceIInv, TypeOK', NEW p \in Proc, NEW x \in Pc,
         pc' = [pc EXCEPT ![p] = x],
         pc[p] # "commit", x \notin {"commit", "panic"},
         x \in InOp <=> pc[p] \in InOp,
         ~Booting,
         x = "asleep" => NoRoom,
         UNCHANGED <<stage, written, lh, outstanding, committing, dhead>>,
         \A q \in Proc : q # p => held'[q] = held[q],
         x \in {"check", "add"} =>
           /\ held'[p] \in Block
           /\ held'[p] \in written[p] \/ Cardinality(written[p]) < OpBlocks
  PROVE  SpaceIInv'
  <1> USE DEF SpaceIInv
  <1>0. /\ pc'[p] = x
        /\ \A q \in Proc : q # p => pc'[q] = pc[q]
    BY DEF TypeOK
  <1>1. Ops' = Ops /\ Tokens' = Tokens
    <2>1. Ops' = Ops
      BY <1>0 DEF Ops
    <2>2. QED BY <2>1 DEF Tokens
  <1>2. CountInv'
    BY <1>0, <1>1 DEF CountInv, Booting
  <1>3. SpaceInv'
    BY <1>1 DEF SpaceInv
  <1>4. BudgetInv'
    BY <1>0, <1>1 DEF BudgetInv, Logged, Ops
  <1>5. NoPanic'
    BY <1>0 DEF NoPanic
  <1>6. CommitAlone'
    BY <1>0 DEF CommitAlone
  <1>7. SleepersHaveCause'
    BY <1>0 DEF SleepersHaveCause, NoRoom
  <1>8. QED
    BY <1>2, <1>3, <1>4, <1>5, <1>6, <1>7

LEMMA StepStart ==
  ASSUME SpaceIInv, NEW p \in Proc, Start(p) PROVE SpaceIInv'
  <1>1. TypeOK'
    BY DEF SpaceIInv, TypeOK, Start, Pc, onDisk
  <1>2. QED
    BY <1>1, SpaceLocal DEF Start, Pc, InOp, onDisk

LEMMA StepModify ==
  ASSUME SpaceIInv, NEW p \in Proc, NEW b \in Block, NEW v \in Data, Modify(p, b, v)
  PROVE  SpaceIInv'
  <1>1. TypeOK'
    BY DEF SpaceIInv, TypeOK, Modify, Pc, onDisk
  <1>2. held' = [held EXCEPT ![p] = b] /\ held \in [Proc -> Block \cup {None}]
    BY DEF Modify, SpaceIInv, TypeOK
  <1>3. ~Booting
    BY DEF SpaceIInv, CountInv, Modify
  <1>4. QED
    BY <1>1, <1>2, <1>3, SpaceLocal DEF Modify, Pc, InOp, onDisk

LEMMA StepCheck ==
  ASSUME BudgetFits, SpaceIInv, NEW p \in Proc, log_write_check(p) PROVE SpaceIInv'
  <1> USE SizesAssumption, SetsAssumption
  <1>1. p \in Ops /\ Ops \in SUBSET Proc
    BY DEF log_write_check, Ops, InOp
  <1>2. Cardinality(written[p]) \in Nat /\ Cardinality(written[p]) <= OpBlocks
    BY <1>1, FS_CardinalityType DEF SpaceIInv, BudgetInv
  <1>3. Cardinality(Tokens) \in Nat /\ MAXOPBLOCKS - OpBlocks <= Cardinality(Tokens)
    BY <1>1, <1>2, TokensBound, TokensLeft DEF Tokens
  <1>4. Len(lh) \in Nat
    BY DEF SpaceIInv, TypeOK
  <1>5. ~TooBig
    BY <1>3, <1>4 DEF TooBig, SpaceIInv, SpaceInv, BudgetFits
  <1>6. ~(outstanding < 1)
    <2>1. Cardinality(Ops) \in Nat /\ Cardinality(Ops) # 0
      BY <1>1, OpsFinite, FS_EmptySet
    <2>2. QED BY <2>1 DEF SpaceIInv, CountInv
  <1>7. pc' = [pc EXCEPT ![p] = "add"]
    BY <1>5, <1>6 DEF log_write_check
  <1>8. TypeOK'
    BY <1>7 DEF SpaceIInv, TypeOK, log_write_check, Pc, onDisk
  <1>9. ~Booting
    BY DEF SpaceIInv, CountInv, log_write_check
  <1>10. held[p] \in Block /\ (held[p] \in written[p] \/ Cardinality(written[p]) < OpBlocks)
    BY <1>1 DEF SpaceIInv, BudgetInv, log_write_check
  <1>11. QED
    BY <1>7, <1>8, <1>9, <1>10, SpaceLocal DEF log_write_check, Pc, InOp, onDisk

LEMMA StepBegin ==
  ASSUME SpaceIInv, NEW p \in Proc, begin_op(p) PROVE SpaceIInv'
  <1> USE SizesAssumption, SetsAssumption
  <1>1. ~Booting /\ p \notin Ops /\ Ops \in SUBSET Proc
    BY DEF SpaceIInv, CountInv, begin_op, Ops, InOp
  <1>2. CASE NoRoom /\ pc' = [pc EXCEPT ![p] = "asleep"] /\ UNCHANGED <<written, outstanding>>
    <2>1. TypeOK'
      BY <1>2 DEF SpaceIInv, TypeOK, begin_op, Pc, onDisk
    <2>2. QED
      BY <1>1, <1>2, <2>1, SpaceLocal DEF begin_op, Pc, InOp, onDisk
  <1>3. CASE /\ ~NoRoom
             /\ outstanding' = outstanding + 1
             /\ pc' = [pc EXCEPT ![p] = "op"]
             /\ written' = [written EXCEPT ![p] = {}]
    <2> USE DEF SpaceIInv
    <2>0. UNCHANGED <<stage, tail, held, lh, committing, cache, dirty, disk, dlog, dhead>>
      BY DEF begin_op, onDisk
    <2>1. TypeOK'
      BY <1>3, <2>0 DEF TypeOK, Pc
    <2>2. /\ pc'[p] = "op" /\ written'[p] = {}
          /\ \A q \in Proc : q # p => pc'[q] = pc[q] /\ written'[q] = written[q]
      BY <1>3 DEF TypeOK
    <2>3. Ops' = Ops \cup {p}
      BY <2>2 DEF Ops, InOp
    <2>4. CountInv'
      <3>1. Cardinality(Ops') = Cardinality(Ops) + 1
        BY <1>1, <2>3, OpsFinite, FS_AddElement
      <3>2. outstanding' = Cardinality(Ops')
        BY <1>3, <3>1, OpsFinite, <1>1 DEF CountInv
      <3>3. QED
        BY <1>1, <1>3, <2>0, <2>2, <3>2 DEF CountInv, NoRoom, Booting
    <2>5. SpaceInv'
      <3>1. outstanding = Cardinality(Ops) /\ Cardinality(Ops) \in Nat
        BY <1>1, OpsFinite DEF CountInv
      <3>2. Cardinality(TokenSet(Ops \cup {p}, written')) <= (Cardinality(Ops) + 1) * MAXOPBLOCKS
        BY <1>1, <2>2, TokensStart
      <3>3. Tokens' = TokenSet(Ops \cup {p}, written')
        BY <2>3 DEF Tokens
      <3>4. Cardinality(Tokens') \in Nat
        BY <1>1, <3>3, TokensBound
      <3>5. Len(lh) \in Nat /\ Len(lh) + (Cardinality(Ops) + 1) * MAXOPBLOCKS <= LOGSIZE
        BY <1>3, <3>1 DEF NoRoom, TypeOK
      <3>6. (Cardinality(Ops) + 1) * MAXOPBLOCKS \in Nat
        BY <3>1
      <3>7. Len(lh) + Cardinality(Tokens') <= LOGSIZE
        BY <3>2, <3>3, <3>4, <3>5, <3>6
      <3>8. QED BY <2>0, <3>7 DEF SpaceInv
    <2>6. BudgetInv'
      <3>1. IsFiniteSet({}) /\ Cardinality({}) = 0
        BY FS_EmptySet
      <3> SUFFICES ASSUME NEW q \in Ops'
                   PROVE  /\ IsFiniteSet(written'[q]) /\ Cardinality(written'[q]) <= OpBlocks
                          /\ \A b \in written'[q] : Logged(b)'
                          /\ pc'[q] \in {"check", "add"} =>
                               /\ held'[q] \in Block
                               /\ held'[q] \in written'[q] \/ Cardinality(written'[q]) < OpBlocks
        BY DEF BudgetInv
      <3>2. CASE q = p
        BY <2>2, <3>1, <3>2
      <3>3. CASE q # p
        <4>1. q \in Ops /\ q \in Proc
          BY <2>3, <3>3, <1>1
        <4>2. QED BY <2>0, <2>2, <3>3, <4>1 DEF BudgetInv, Logged
      <3>4. QED BY <3>2, <3>3
    <2>7. NoPanic' /\ CommitAlone'
      BY <1>3, <2>0, <2>2 DEF NoPanic, CommitAlone, NoRoom
    <2>8. SleepersHaveCause'
      BY <1>3, <2>2 DEF SleepersHaveCause
    <2>9. QED
      BY <2>1, <2>4, <2>5, <2>6, <2>7, <2>8
  <1>4. QED
    BY <1>2, <1>3 DEF begin_op

LEMMA StepAdd ==
  ASSUME BudgetFits, SpaceIInv, NEW p \in Proc, log_write_add(p) PROVE SpaceIInv'
  <1> USE SizesAssumption, SetsAssumption DEF SpaceIInv
  <1> DEFINE b == held[p]
  <1>0. UNCHANGED <<stage, tail, outstanding, committing, cache, disk, dlog, dhead>>
    BY DEF log_write_add, onDisk
  <1>1. p \in Ops /\ Ops \in SUBSET Proc /\ ~Booting /\ ~committing
    BY DEF log_write_add, Ops, InOp, CountInv
  <1>2. b \in Block /\ (b \in written[p] \/ Cardinality(written[p]) < OpBlocks)
    BY <1>1 DEF BudgetInv, log_write_add
  <1>3. /\ pc'[p] = "op" /\ held'[p] = None /\ written'[p] = written[p] \cup {b}
        /\ \A q \in Proc : q # p => pc'[q] = pc[q] /\ held'[q] = held[q] /\ written'[q] = written[q]
    BY DEF log_write_add, TypeOK
  <1>4. Ops' = Ops
    BY <1>1, <1>3 DEF Ops, InOp
  <1>5. Len(lh) \in Nat /\ lh' \in Seq(Block)
    BY <1>2 DEF log_write_add, TypeOK
  <1>6. TypeOK'
    BY <1>0, <1>2, <1>5 DEF log_write_add, TypeOK, Pc
  <1>7. \A c \in Block : Logged(c) => Logged(c)'
    <2>1. CASE Logged(b)
      BY <2>1 DEF log_write_add, Logged
    <2>2. CASE ~Logged(b)
      <3>1. lh' = Append(lh, b) /\ lh \in Seq(Block)
        BY <2>2 DEF log_write_add, TypeOK
      <3>2. Len(lh') = Len(lh) + 1 /\ \A i \in 1..Len(lh) : lh'[i] = lh[i]
        BY <1>2, <3>1
      <3>3. QED BY <1>5, <3>2 DEF Logged
    <2>3. QED BY <2>1, <2>2
  <1>8. \E i \in 1..Len(lh') : lh'[i] = b
    <2>1. CASE Logged(b)
      BY <2>1 DEF log_write_add, Logged
    <2>2. CASE ~Logged(b)
      <3>1. lh' = Append(lh, b) /\ lh \in Seq(Block)
        BY <2>2 DEF log_write_add, TypeOK
      <3>2. Len(lh') = Len(lh) + 1 /\ lh'[Len(lh) + 1] = b
        BY <1>2, <3>1
      <3>3. QED BY <1>5, <3>2
    <2>3. QED BY <2>1, <2>2
  <1>9. IsFiniteSet(written[p]) /\ Cardinality(written[p]) \in Nat /\ Cardinality(written[p]) <= OpBlocks
    BY <1>1, FS_CardinalityType DEF BudgetInv
  <1>10. /\ IsFiniteSet(written'[p])
         /\ Cardinality(written'[p]) = IF b \in written[p] THEN Cardinality(written[p])
                                       ELSE Cardinality(written[p]) + 1
    <2>1. /\ IsFiniteSet(written[p] \cup {b})
          /\ Cardinality(written[p] \cup {b}) = IF b \in written[p] THEN Cardinality(written[p])
                                                 ELSE Cardinality(written[p]) + 1
      <3> HIDE DEF b
      <3>1. QED BY <1>9, FS_AddElement
    <2>2. QED BY <1>3, <2>1
  <1>11. Cardinality(written'[p]) \in Nat /\ Cardinality(written'[p]) <= OpBlocks
    BY <1>2, <1>9, <1>10
  <1>12. /\ Cardinality(Tokens) \in Nat /\ Cardinality(Tokens') \in Nat
         /\ MAXOPBLOCKS - OpBlocks <= Cardinality(Tokens')
    <2>1. Tokens' = TokenSet(Ops, written')
      BY <1>4 DEF Tokens
    <2>2. QED BY <1>1, <1>11, <2>1, TokensBound, TokensLeft DEF Tokens
  <1>13. Len(lh') + Cardinality(Tokens') <= LOGSIZE /\ Len(lh') \in Nat /\ Len(lh') >= Len(lh)
    <2>1. CASE b \in written[p]
      <3>1. Logged(b)
        BY <1>1, <2>1 DEF BudgetInv
      <3>2. lh' = lh
        BY <3>1 DEF log_write_add
      <3>3. written'[p] = written[p]
        BY <1>3, <2>1
      <3>4. written' = written
        BY <1>3, <3>3 DEF log_write_add, TypeOK
      <3>5. QED BY <1>4, <1>5, <3>2, <3>4 DEF SpaceInv, Tokens
    <2>2. CASE b \notin written[p]
      <3>1. Cardinality(written[p]) < MAXOPBLOCKS /\ Cardinality(written'[p]) = Cardinality(written[p]) + 1
        BY <1>2, <1>9, <1>10, <2>2
      <3>2. \A q \in Ops : q # p => written'[q] = written[q]
        BY <1>1, <1>3
      <3>3. Cardinality(TokenSet(Ops, written')) = Cardinality(TokenSet(Ops, written)) - 1
        BY <1>1, <1>9, <3>1, <3>2, TokensSpend
      <3>4. Cardinality(Tokens') = Cardinality(Tokens) - 1
        BY <1>4, <3>3 DEF Tokens
      <3>5. Len(lh') = Len(lh) \/ Len(lh') = Len(lh) + 1
        BY <1>2 DEF log_write_add, TypeOK
      <3>6. QED BY <1>5, <1>12, <3>4, <3>5 DEF SpaceInv
    <2>3. QED BY <2>1, <2>2
  <1>14. SpaceInv'
    BY <1>0, <1>12, <1>13 DEF SpaceInv, BudgetFits
  <1>15. BudgetInv'
    <2> SUFFICES ASSUME NEW q \in Ops'
                 PROVE  /\ IsFiniteSet(written'[q]) /\ Cardinality(written'[q]) <= OpBlocks
                        /\ \A c \in written'[q] : Logged(c)'
                        /\ pc'[q] \in {"check", "add"} =>
                             /\ held'[q] \in Block
                             /\ held'[q] \in written'[q] \/ Cardinality(written'[q]) < OpBlocks
      BY DEF BudgetInv
    <2>1. q \in Ops /\ q \in Proc /\ written[q] \subseteq Block
      BY <1>1, <1>4 DEF TypeOK
    <2>2. \A c \in written[q] : Logged(c)'
      BY <1>7, <2>1 DEF BudgetInv
    <2>3. CASE q = p
      <3>1. \A c \in written'[p] : Logged(c)'
        BY <1>3, <1>8, <2>2, <2>3 DEF Logged
      <3>2. QED BY <1>3, <1>10, <1>11, <2>3, <3>1
    <2>4. CASE q # p
      BY <1>3, <2>1, <2>2, <2>4 DEF BudgetInv
    <2>5. QED BY <2>3, <2>4
  <1>16. CountInv'
    BY <1>0, <1>1, <1>3, <1>4 DEF CountInv, Booting
  <1>17. NoPanic' /\ CommitAlone'
    BY <1>0, <1>1, <1>3 DEF NoPanic, CommitAlone
  <1>18. SleepersHaveCause'
    <2>1. outstanding \in Int /\ outstanding' = outstanding
      BY <1>0 DEF TypeOK
    <2>2. (\E q \in Proc : pc'[q] = "asleep") => \E q \in Proc : pc[q] = "asleep"
      BY <1>3
    <2>3. (outstanding + 1) * MAXOPBLOCKS \in Int
      BY <2>1
    <2>4. QED BY <1>0, <1>5, <1>13, <2>1, <2>2, <2>3 DEF SleepersHaveCause, NoRoom
  <1>19. QED
    BY <1>6, <1>14, <1>15, <1>16, <1>17, <1>18

LEMMA StepEnd ==
  ASSUME SpaceIInv, NEW p \in Proc, end_op(p) PROVE SpaceIInv'
  <1> USE SizesAssumption, SetsAssumption DEF SpaceIInv
  <1>0. UNCHANGED <<held, written, lh, cache, dirty, disk, dlog, dhead>> /\ outstanding' = outstanding - 1
    BY DEF end_op, onDisk
  <1>1. p \in Ops /\ Ops \in SUBSET Proc /\ ~Booting /\ ~committing
    BY DEF end_op, Ops, InOp, CountInv
  <1>2. \A q \in Proc : pc[q] # "commit" /\ pc[q] # "panic"
    BY <1>1 DEF CountInv, NoPanic
  <1>3. outstanding = Cardinality(Ops) /\ outstanding \in Nat
    BY <1>1, OpsFinite DEF CountInv
  \* what both ways out share
  <1>4. ASSUME Ops' = Ops \ {p}, TypeOK', stage' # "run" => stage' \in Stage \ {"read_head", "r_install", "r_erase"},
               stage' \in {"write_log", "write_head", "install", "erase", "finish"} <=> committing',
               committing' => Ops' = {}, committing' => pc'[p] = "commit", ~committing' => pc'[p] = "idle",
               \A q \in Proc : q # p => \/ pc'[q] = pc[q]
                                        \/ pc[q] = "asleep" /\ pc'[q] = "begin",
               SleepersHaveCause'
        PROVE  SpaceIInv'
    <2>1. Cardinality(Ops') = Cardinality(Ops) - 1
      BY <1>1, <1>4, OpsFinite, FS_RemoveElement
    <2>2. ~Booting'
      BY <1>4 DEF Booting, Stage
    <2>3. CountInv'
      BY <1>0, <1>2, <1>3, <1>4, <2>1, <2>2 DEF CountInv
    <2>4. SpaceInv'
      <3>1. TokenSet(Ops', written') \subseteq TokenSet(Ops, written)
        BY <1>0, <1>4 DEF TokenSet
      <3>2. /\ Cardinality(Tokens') <= Cardinality(Tokens)
            /\ Cardinality(Tokens) \in Nat /\ Cardinality(Tokens') \in Nat
        BY <1>1, <1>4, <3>1, TokensShrink, TokensBound DEF Tokens
      <3>3. Len(lh) \in Nat
        BY DEF TypeOK
      <3>4. QED BY <1>0, <3>2, <3>3 DEF SpaceInv
    <2>5. BudgetInv'
      <3> SUFFICES ASSUME NEW q \in Ops'
                   PROVE  /\ IsFiniteSet(written'[q]) /\ Cardinality(written'[q]) <= OpBlocks
                          /\ \A c \in written'[q] : Logged(c)'
                          /\ pc'[q] \in {"check", "add"} =>
                               /\ held'[q] \in Block
                               /\ held'[q] \in written'[q] \/ Cardinality(written'[q]) < OpBlocks
        BY DEF BudgetInv
      <3>1. q \in Ops /\ q # p /\ q \in Proc
        BY <1>1, <1>4
      <3>2. pc'[q] \in {"check", "add"} => pc'[q] = pc[q]
        BY <1>4, <3>1
      <3>3. QED BY <1>0, <3>1, <3>2 DEF BudgetInv, Logged
    <2>6. NoPanic' /\ CommitAlone'
      <3>1. NoPanic'
        BY <1>2, <1>4 DEF NoPanic
      <3>2. CommitAlone'
        BY <1>2, <1>4 DEF CommitAlone, Ops
      <3>3. QED BY <3>1, <3>2
    <2>7. QED
      BY <1>4, <2>3, <2>4, <2>5, <2>6
  <1>5. CASE /\ outstanding = 1 /\ committing' = TRUE
             /\ pc' = [pc EXCEPT ![p] = "commit"]
             /\ stage' = (IF lh = <<>> THEN "finish" ELSE "write_log")
             /\ tail' = 0
    <2>1. pc'[p] = "commit" /\ \A q \in Proc : q # p => pc'[q] = pc[q]
      BY <1>5 DEF TypeOK
    <2>2. TypeOK'
      <3>1. stage' \in Stage /\ tail' \in Nat /\ outstanding' \in Int
        BY <1>0, <1>3, <1>5 DEF Stage
      <3>2. committing' \in BOOLEAN
        BY <1>5, Zenon
      <3>3. pc' \in [Proc -> Pc]
        BY <1>5 DEF TypeOK, Pc
      <3>4. QED BY <1>0, <3>1, <3>2, <3>3 DEF TypeOK
    <2>3. Ops' = Ops \ {p}
      BY <2>1 DEF Ops, InOp
    <2>4. Ops' = {}
      <3>1. IsFiniteSet(Ops) /\ Cardinality(Ops) = 1
        BY <1>1, <1>3, <1>5, OpsFinite
      <3>2. IsFiniteSet(Ops \ {p}) /\ Cardinality(Ops \ {p}) = Cardinality(Ops) - 1
        BY <1>1, <3>1, FS_RemoveElement
      <3>3. QED BY <2>3, <3>1, <3>2, FS_EmptySet
    <2>5. SleepersHaveCause'
      BY <1>5 DEF SleepersHaveCause, NoRoom
    <2>6. /\ stage' # "run" => stage' \in Stage \ {"read_head", "r_install", "r_erase"}
          /\ stage' \in {"write_log", "write_head", "install", "erase", "finish"} <=> committing'
      BY <1>5 DEF Stage
    <2>7. QED
      BY <1>4, <1>5, <2>1, <2>2, <2>3, <2>4, <2>5, <2>6
  <1>6. CASE /\ outstanding # 1
             /\ pc' = [Woken(pc) EXCEPT ![p] = "idle"]
             /\ UNCHANGED <<stage, tail, committing>>
    <2>1. /\ pc'[p] = "idle"
          /\ \A q \in Proc : q # p => pc'[q] = IF pc[q] = "asleep" THEN "begin" ELSE pc[q]
      BY <1>6 DEF Woken
    <2>2. TypeOK'
      <3>1. pc' \in [Proc -> Pc]
        BY <1>6 DEF TypeOK, Pc, Woken
      <3>2. QED BY <1>0, <1>3, <1>6, <3>1 DEF TypeOK
    <2>3. Ops' = Ops \ {p}
      BY <2>1 DEF Ops, InOp
    <2>4. SleepersHaveCause'
      BY <2>1 DEF SleepersHaveCause
    <2>5. ~(stage \in {"write_log", "write_head", "install", "erase", "finish"}) /\ stage \in Stage
      BY <1>1 DEF CountInv, TypeOK
    <2>6. QED
      BY <1>1, <1>4, <1>6, <2>1, <2>2, <2>3, <2>4, <2>5 DEF Stage, Booting
  <1>7. QED
    BY <1>1, <1>5, <1>6 DEF end_op

\* The log header is emptied, or filled from disk, while nothing runs.
LEMMA SpaceNoOps ==
  ASSUME SpaceIInv, TypeOK', \A p \in Proc : pc[p] \notin InOp,
         UNCHANGED <<pc, held, written, outstanding, committing>>,
         (stage \in {"write_log", "write_head", "install", "erase", "finish"} <=> committing)',
         Booting' => Booting,
         committing \/ Booting,
         Len(lh') <= LOGSIZE /\ Len(lh') <= NLog - 1,
         Len(dhead') <= LOGSIZE /\ Len(dhead') <= NLog - 1
  PROVE  SpaceIInv'
  <1> USE SizesAssumption DEF SpaceIInv
  <1>1. Ops = {} /\ Ops' = {}
    BY DEF Ops
  <1>2. Cardinality(Tokens') = 0
    <2>1. Tokens' = {}
      BY <1>1 DEF Tokens, TokenSet
    <2>2. QED BY <2>1, FS_EmptySet
  <1>3. CountInv'
    BY <1>1 DEF CountInv
  <1>4. Len(lh') \in Nat
    BY DEF TypeOK
  <1>5. SpaceInv'
    BY <1>2, <1>4 DEF SpaceInv
  <1>6. BudgetInv'
    BY <1>1 DEF BudgetInv
  <1>7. NoPanic' /\ CommitAlone'
    BY DEF NoPanic, CommitAlone
  <1>8. SleepersHaveCause'
    BY DEF SleepersHaveCause, NoRoom, CountInv
  <1>9. QED
    BY <1>3, <1>5, <1>6, <1>7, <1>8

LEMMA StepInstall ==
  ASSUME SpaceIInv, InstallBlock PROVE SpaceIInv'
  <1>1. tail + 1 \in 1..Len(lh) /\ tail + 1 \in Nat
    BY DEF InstallBlock, SpaceIInv, TypeOK
  <1>2. Len(lh) <= LOGSIZE
    <2>1. Ops \in SUBSET Proc
      BY DEF Ops
    <2>2. Cardinality(Tokens) \in Nat
      BY <2>1, TokensBound DEF Tokens
    <2>3. Len(lh) \in Nat
      BY DEF SpaceIInv, TypeOK
    <2>4. QED BY <2>2, <2>3, SizesAssumption DEF SpaceIInv, SpaceInv
  <1>3. lh[tail + 1] \in Block /\ dlog[tail + 1] \in Data
    <2>1. lh[tail + 1] \in Block
      BY <1>1 DEF SpaceIInv, TypeOK
    <2>2. tail + 1 \in 1..LOGSIZE
      BY <1>1, <1>2, SizesAssumption DEF SpaceIInv, TypeOK
    <2>3. QED BY <2>1, <2>2 DEF SpaceIInv, TypeOK
  <1>4. TypeOK'
    BY <1>1, <1>3 DEF InstallBlock, SpaceIInv, TypeOK
  <1>5. QED
    BY <1>4, SpaceFrame DEF InstallBlock, Booting, SpaceIInv, CountInv, SpaceInv

LEMMA StepCommit ==
  ASSUME SpaceIInv, CommitStep PROVE SpaceIInv'
  <1> USE SizesAssumption
  <1>0. Len(lh) \in Nat /\ Len(lh) <= LOGSIZE /\ Len(lh) <= NLog - 1
    <2>1. Ops \in SUBSET Proc
      BY DEF Ops
    <2>2. Cardinality(Tokens) \in Nat
      BY <2>1, TokensBound DEF Tokens
    <2>3. QED BY <2>2 DEF SpaceIInv, SpaceInv, TypeOK
  <1>1. CASE write_log
    <2>1. TypeOK'
      <3>1. CASE tail < Len(lh)
        <4>1. tail + 1 \in 1..Len(lh)
          BY <3>1 DEF SpaceIInv, TypeOK
        <4>2. Contents(lh[tail + 1]) \in Data
          BY <4>1 DEF SpaceIInv, TypeOK, Contents
        <4>3. QED BY <1>1, <3>1, <4>1, <4>2 DEF write_log, volatile, SpaceIInv, TypeOK
      <3>2. CASE tail >= Len(lh)
        BY <1>0, <1>1, <3>2 DEF write_log, volatile, SpaceIInv, TypeOK, Stage
      <3>3. QED BY <1>0, <3>1, <3>2 DEF SpaceIInv, TypeOK
    <2>2. stage' \in {"write_log", "write_head"} /\ stage = "write_log"
      BY <1>1 DEF write_log
    <2>3. QED
      BY <1>1, <2>1, <2>2, SpaceFrame DEF write_log, volatile, Booting, SpaceIInv, CountInv, SpaceInv
  <1>2. CASE write_head
    <2>1. TypeOK'
      BY <1>2 DEF write_head, volatile, SpaceIInv, TypeOK, Stage
    <2>2. QED
      BY <1>0, <1>2, <2>1, SpaceFrame DEF write_head, volatile, Booting, SpaceIInv, CountInv, SpaceInv
  <1>3. CASE install_trans
    <2>1. CASE InstallBlock
      BY <2>1, StepInstall
    <2>2. CASE InstallDone("erase")
      <3>1. TypeOK'
        BY <2>2 DEF InstallDone, volatile, onDisk, SpaceIInv, TypeOK, Stage
      <3>2. QED
        BY <1>3, <2>2, <3>1, SpaceFrame
        DEF install_trans, InstallDone, volatile, onDisk, Booting, SpaceIInv, CountInv, SpaceInv
    <2>3. QED BY <1>3, <2>1, <2>2 DEF install_trans
  <1>4. CASE erase_head
    <2>1. TypeOK'
      <3>1. <<>> \in Seq(Block)
        OBVIOUS
      <3>2. QED BY <1>4, <3>1 DEF erase_head, EraseTo, SpaceIInv, TypeOK, Stage
    <2>2. committing /\ \A p \in Proc : pc[p] \notin InOp
      BY <1>4 DEF erase_head, SpaceIInv, CountInv, Ops
    <2>3. Len(lh') = 0 /\ Len(dhead') = 0
      BY <1>4 DEF erase_head, EraseTo
    <2>4. QED
      BY <1>4, <2>1, <2>2, <2>3, SpaceNoOps
      DEF erase_head, EraseTo, Booting, SpaceIInv, CountInv
  <1>5. QED
    BY <1>1, <1>2, <1>3, <1>4 DEF CommitStep

LEMMA StepBoot ==
  ASSUME SpaceIInv, BootStep PROVE SpaceIInv'
  <1> USE SizesAssumption
  <1>0. Booting /\ ~committing /\ \A p \in Proc : pc[p] \notin InOp
    BY DEF BootStep, read_head, recover_install, recover_erase, Booting, SpaceIInv, CountInv, InOp
  <1>1. CASE read_head
    <2>1. TypeOK'
      BY <1>1 DEF read_head, onDisk, SpaceIInv, TypeOK, Stage
    <2>2. QED
      BY <1>0, <1>1, <2>1, SpaceNoOps
      DEF read_head, onDisk, Booting, SpaceIInv, CountInv, SpaceInv
  <1>2. CASE recover_install
    <2>1. CASE InstallBlock
      BY <2>1, StepInstall
    <2>2. CASE InstallDone("r_erase")
      <3>1. TypeOK'
        BY <2>2 DEF InstallDone, volatile, onDisk, SpaceIInv, TypeOK, Stage
      <3>2. QED
        BY <1>0, <1>2, <2>2, <3>1, SpaceFrame
        DEF recover_install, InstallDone, volatile, onDisk, Booting, SpaceIInv, CountInv, SpaceInv
    <2>3. QED BY <1>2, <2>1, <2>2 DEF recover_install
  <1>3. CASE recover_erase
    <2>1. TypeOK'
      <3>1. <<>> \in Seq(Block)
        OBVIOUS
      <3>2. QED BY <1>3, <3>1 DEF recover_erase, EraseTo, SpaceIInv, TypeOK, Stage
    <2>2. Len(lh') = 0 /\ Len(dhead') = 0
      BY <1>3 DEF recover_erase, EraseTo
    <2>3. QED
      BY <1>0, <1>3, <2>1, <2>2, SpaceNoOps
      DEF recover_erase, EraseTo, Booting, SpaceIInv, CountInv
  <1>4. QED
    BY <1>1, <1>2, <1>3 DEF BootStep

LEMMA StepEndCommit ==
  ASSUME SpaceIInv, NEW p \in Proc, end_commit(p) PROVE SpaceIInv'
  <1> USE SizesAssumption DEF SpaceIInv
  <1>0. /\ UNCHANGED <<tail, held, written, lh, outstanding, cache, dirty, disk, dlog, dhead>>
        /\ stage' = "run" /\ committing' = FALSE
    BY DEF end_commit, onDisk
  <1>1. committing /\ Ops = {} /\ \A q \in Proc : pc[q] = "commit" => q = p
    BY DEF end_commit, CountInv, CommitAlone
  <1>2. /\ pc'[p] = "idle"
        /\ \A q \in Proc : q # p => pc'[q] = IF pc[q] = "asleep" THEN "begin" ELSE pc[q]
    BY DEF end_commit, Woken
  <1>3. Ops' = {}
    BY <1>1, <1>2 DEF Ops, InOp
  <1>4. Tokens' = Tokens
    BY <1>0, <1>1, <1>3 DEF Tokens
  <1>5. TypeOK'
    <2>1. pc' \in [Proc -> Pc]
      BY DEF end_commit, Woken, TypeOK, Pc
    <2>2. committing' \in BOOLEAN
      BY <1>0, Zenon
    <2>3. QED BY <1>0, <2>1, <2>2 DEF TypeOK, Stage
  <1>6. CountInv'
    BY <1>0, <1>1, <1>2, <1>3 DEF CountInv, Booting
  <1>7. SpaceInv'
    BY <1>0, <1>4 DEF SpaceInv
  <1>8. BudgetInv'
    BY <1>3 DEF BudgetInv
  <1>9. NoPanic' /\ CommitAlone' /\ SleepersHaveCause'
    BY <1>0, <1>2 DEF NoPanic, CommitAlone, SleepersHaveCause
  <1>10. QED
    BY <1>5, <1>6, <1>7, <1>8, <1>9

LEMMA StepEvict ==
  ASSUME SpaceIInv, NEW b \in Block, Evict(b) PROVE SpaceIInv'
  <1>1. TypeOK'
    BY DEF Evict, onDisk, SpaceIInv, TypeOK
  <1>2. QED
    BY <1>1, SpaceFrame DEF Evict, onDisk, Booting, SpaceIInv, CountInv, SpaceInv

LEMMA StepCrash ==
  ASSUME SpaceIInv, Crash PROVE SpaceIInv'
  <1> USE SizesAssumption, SetsAssumption DEF SpaceIInv
  <1>1. Ops' = {}
    BY DEF Crash, Ops, InOp
  <1>2. Cardinality(Ops') = 0 /\ Cardinality(Tokens') = 0
    <2>1. Tokens' = {}
      BY <1>1 DEF Tokens, TokenSet
    <2>2. QED BY <1>1, <2>1, FS_EmptySet
  <1>3. TypeOK'
    <2>1. lh' \in Seq(Block)
      BY DEF Crash
    <2>2. committing' \in BOOLEAN
      BY Zenon DEF Crash
    <2>3. /\ pc' \in [Proc -> Pc] /\ held' \in [Proc -> Block \cup {None}]
          /\ written' \in [Proc -> SUBSET Block] /\ cache' \in [Block -> Data \cup {None}]
      BY DEF Crash, Pc
    <2>4. QED BY <2>1, <2>2, <2>3 DEF Crash, onDisk, TypeOK, Stage
  <1>4. CountInv'
    BY <1>1, <1>2 DEF Crash, CountInv, Booting
  <1>5. SpaceInv'
    BY <1>2 DEF Crash, onDisk, SpaceInv
  <1>6. BudgetInv'
    BY <1>1 DEF BudgetInv
  <1>7. NoPanic' /\ CommitAlone' /\ SleepersHaveCause'
    BY DEF Crash, NoPanic, CommitAlone, SleepersHaveCause
  <1>8. QED
    BY <1>3, <1>4, <1>5, <1>6, <1>7

LEMMA SpaceNext ==
  ASSUME BudgetFits, SpaceIInv, [Next]_vars PROVE SpaceIInv'
  <1>1. ASSUME NEW p \in Proc, ProcStep(p) PROVE SpaceIInv'
    BY <1>1, StepStart, StepBegin, StepEnd, StepEndCommit, StepModify, StepCheck, StepAdd
    DEF ProcStep
  <1>2. CASE UNCHANGED vars
    <2>1. TypeOK'
      BY <1>2 DEF vars, volatile, onDisk, SpaceIInv, TypeOK
    <2>2. QED
      BY <1>2, <2>1, SpaceFrame DEF vars, volatile, onDisk, Booting, SpaceIInv, CountInv, SpaceInv
  <1>3. QED
    BY <1>1, <1>2, StepCommit, StepBoot, StepEvict, StepCrash DEF Next

\* The invariant behind the results below holds in every reachable state,
\* whatever crashes happen.
THEOREM SpaceInvariant == BudgetFits => (Spec => []SpaceIInv)
  <1> SUFFICES ASSUME BudgetFits PROVE Spec => []SpaceIInv
    OBVIOUS
  <1>1. Init => SpaceIInv
    BY SpaceInit
  <1>2. SpaceIInv /\ [Next]_vars => SpaceIInv'
    BY SpaceNext
  <1>3. QED
    BY <1>1, <1>2, PTL DEF Spec

\* The state of log.c keeps its types: in particular no disk write takes its
\* contents from outside the log blocks, and no empty buffer is logged.
THEOREM TypeCorrect == BudgetFits => (Spec => []TypeOK)
  <1>1. SpaceIInv => TypeOK
    BY DEF SpaceIInv
  <1>2. QED
    BY <1>1, SpaceInvariant, PTL

\* For any number of processes and any log size: if a call logs fewer blocks than
\* begin_op() reserves, none of the panics of log_write() and end_op() is reached.
THEOREM LogNeverPanics == BudgetFits => (Spec => []NoPanic)
  <1>1. SpaceIInv => NoPanic
    BY DEF SpaceIInv
  <1>2. QED
    BY <1>1, SpaceInvariant, PTL

\* Under the same condition the transaction always fits the on-disk log area, so
\* commit() never writes past it, although log_write() checks without the lock.
THEOREM LogStaysInArea == BudgetFits => (Spec => []FitsLogArea)
  <1>1. SpaceIInv => FitsLogArea
    BY DEF SpaceIInv, SpaceInv, FitsLogArea
  <1>2. QED
    BY <1>1, SpaceInvariant, PTL

\* A commit never runs beside a file-system call, nor beside another commit.
THEOREM CommitRunsAlone == BudgetFits => (Spec => []CommitAlone)
  <1>1. SpaceIInv => CommitAlone
    BY DEF SpaceIInv
  <1>2. QED
    BY <1>1, SpaceInvariant, PTL

\* begin_op() never leaves a process asleep when the log has room for it.
THEOREM NoMissedRoom == BudgetFits => (Spec => []SleepersHaveCause)
  <1>1. SpaceIInv => SleepersHaveCause
    BY DEF SpaceIInv
  <1>2. QED
    BY <1>1, SpaceInvariant, PTL
=============================================================================
