------------------------------- MODULE MCLog --------------------------------
(***************************************************************************)
(* Log for two processes, two home blocks and two contents.  They are only *)
(* compared for equality, but the run checks liveness, for which symmetry is*)
(* not sound.                                                              *)
(***************************************************************************)
EXTENDS Log
=============================================================================
