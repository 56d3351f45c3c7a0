------------------------------ MODULE Channel -------------------------------
(***************************************************************************)
(* What a pipe promises: bytes come out in the order they went in, none is *)
(* lost or made up, and no more than Cap of them are inside.  Bytes that   *)
(* are inside when both ends are closed are gone, and only those: the next *)
(* pipe starts empty.                                                      *)
(***************************************************************************)
EXTENDS Naturals, Sequences

CONSTANTS Byte, Cap

VARIABLES
  q,       \* the bytes inside, oldest first
  out,     \* the byte delivered last
  ends     \* the ends that are open, of End

cvars == <<q, out, ends>>

End == {"read", "write"}

CInit == q = <<>> /\ out \in Byte /\ ends = End

Put(b) == /\ "write" \in ends /\ Len(q) < Cap
          /\ q' = Append(q, b)
          /\ UNCHANGED <<out, ends>>

Get == /\ "read" \in ends /\ q # <<>>
       /\ out' = Head(q) /\ q' = Tail(q)
       /\ UNCHANGED ends

Close(e) == e \in ends /\ ends' = ends \ {e} /\ UNCHANGED <<q, out>>

\* Both ends were closed and the pipe is made anew.
Renew == ends = {} /\ ends' = End /\ q' = <<>> /\ UNCHANGED out

CNext == Get \/ Renew \/ (\E b \in Byte : Put(b)) \/ (\E e \in End : Close(e))

CSpec == CInit /\ [][CNext]_cvars
=============================================================================
