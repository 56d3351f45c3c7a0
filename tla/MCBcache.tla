------------------------------ MODULE MCBcache ------------------------------
(***************************************************************************)
(* Instances of Bcache for model checking.                                 *)
(***************************************************************************)
EXTENDS Bcache, TLC

CONSTANTS b1, b2
TwoBufs == <<b1, b2>>
=============================================================================
