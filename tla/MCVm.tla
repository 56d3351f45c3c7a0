-------------------------------- MODULE MCVm --------------------------------
(* Instances of Vm for model checking. *)
EXTENDS Vm
=============================================================================
