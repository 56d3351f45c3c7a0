----------------------------- MODULE BlockStore -----------------------------
(***************************************************************************)
(* What the buffer cache promises its clients: every disk block has one    *)
(* content, and one client at a time may look at it or change it.          *)
(***************************************************************************)
CONSTANTS Client, Block, Value, None

VARIABLES mem, user

BInit == mem \in [Block -> Value] /\ user = [k \in Block |-> None]

Get(c, k) == user[k] = None /\ user' = [user EXCEPT ![k] = c] /\ UNCHANGED mem
Set(c, k) == user[k] = c /\ (\E v \in Value : mem' = [mem EXCEPT ![k] = v]) /\ UNCHANGED user
Put(c, k) == user[k] = c /\ user' = [user EXCEPT ![k] = None] /\ UNCHANGED mem

BNext == \E c \in Client, k \in Block : Get(c, k) \/ Set(c, k) \/ Put(c, k)

BSpec == BInit /\ [][BNext]_<<mem, user>>
=============================================================================
