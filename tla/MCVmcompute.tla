----------------------------- MODULE MCVmcompute -----------------------------
(* Threads that call two of the wrappers, so that one can be bound while   *)
(* the other is looked up, and the library may export either, both or none. *)
EXTENDS Vmcompute

===============================================================================
