----------------------------- MODULE MCLottery ------------------------------
(***************************************************************************)
(* Instances of Lottery for model checking.                                *)
(***************************************************************************)
EXTENDS Lottery

\* forkt.c: three children that call settickets(100), (200) and (300), for one
\* period of the generator.
Forkt == [tickets |-> <<100, 200, 300>>, settickets |-> {}, sleepers |-> {}, comings |-> {},
          draws |-> Modulus]

\* Two processes and a free slot: processes come and go, sleep and change their tickets,
\* up to the largest int, where two or three of them are more than an int holds.
Life(ways) == [tickets |-> <<1, 1, 0>>, settickets |-> {0, 1, 3, IntMax}, sleepers |-> {1, 2},
               comings |-> ways, draws |-> 3]

Loads == {Forkt, Life({"wait"}), Life({"wait", "join"})}
=============================================================================
