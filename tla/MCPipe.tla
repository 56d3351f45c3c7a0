------------------------------- MODULE MCPipe -------------------------------
(***************************************************************************)
(* Pipe for one reader and one writer on a ring of two bytes.  The runs check*)
(* liveness or name the two ends, so no symmetry is used.                  *)
(***************************************************************************)
EXTENDS Pipe
=============================================================================
