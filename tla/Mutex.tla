------------------------------- MODULE Mutex --------------------------------
(***************************************************************************)
(* What a sleep lock promises: processes ask for it, one of them at a time *)
(* has it, and it is given up only by the one that has it.                 *)
(***************************************************************************)
CONSTANTS Proc, Nobody

VARIABLES asking, holder

mvars == <<asking, holder>>

MInit == asking = {} /\ holder = Nobody

Ask(p) ==
  /\ p \notin asking /\ holder # p
  /\ asking' = asking \cup {p}
  /\ UNCHANGED holder

Grant(p) ==
  /\ holder = Nobody /\ p \in asking
  /\ holder' = p
  /\ asking' = asking \ {p}

Free(p) ==
  /\ holder = p
  /\ holder' = Nobody
  /\ UNCHANGED asking

MNext == \E p \in Proc : Ask(p) \/ Grant(p) \/ Free(p)

MSpec == MInit /\ [][MNext]_mvars
=============================================================================
