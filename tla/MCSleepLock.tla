---------------------------- MODULE MCSleepLock -----------------------------
(***************************************************************************)
(* SleepLock for two processes on two CPUs.  Processes are alike, and so are*)
(* CPUs, but the run checks liveness, for which symmetry is not sound.     *)
(***************************************************************************)
EXTENDS SleepLock
=============================================================================
