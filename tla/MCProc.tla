------------------------------- MODULE MCProc -------------------------------
(***************************************************************************)
(* Instances of Proc for model checking.  The table is an array scanned in *)
(* order, so slots are not symmetric.                                      *)
(***************************************************************************)
EXTENDS Proc

\* Programs kill processes that they or others forked, and may do so late.
LivePids == 2..MaxPid

\* They may also pass 0.
AnyPid == {0} \cup LivePids
=============================================================================
