------------------------------ MODULE SandboxLife ------------------------------
(***************************************************************************)
(* What spawn_and_wait promises about the host it runs on, whatever call   *)
(* fails: the sandbox layer is taken up in three stages (created,          *)
(* activated, prepared), a compute system lives on it only at the top, and *)
(* on the way down, which starts once and never turns, the layer is let go *)
(* stage by stage in the reverse order, and only when no compute system    *)
(* lives on it any more.                                                   *)
(***************************************************************************)
EXTENDS Naturals

VARIABLES
  depth,       \* 0: no layer ... 3: prepared
  occupied,    \* a compute system lives on the layer
  descending   \* the scope is being left

vars == <<depth, occupied, descending>>

Init == /\ depth = 0
        /\ ~occupied
        /\ ~descending

Climb == /\ ~descending
         /\ depth < 3
         /\ depth' = depth + 1
         /\ UNCHANGED <<occupied, descending>>

Occupy == /\ ~descending
          /\ depth = 3
          /\ ~occupied
          /\ occupied' = TRUE
          /\ UNCHANGED <<depth, descending>>

(* The compute system is terminated, or exits by itself. *)
Vacate == /\ occupied
          /\ occupied' = FALSE
          /\ UNCHANGED <<depth, descending>>

Turn == /\ ~descending
        /\ descending' = TRUE
        /\ UNCHANGED <<depth, occupied>>

Descend == /\ descending
           /\ ~occupied
           /\ depth > 0
           /\ depth' = depth - 1
           /\ UNCHANGED <<occupied, descending>>

Next == Climb \/ Occupy \/ Vacate \/ Turn \/ Descend

Spec == Init /\ [][Next]_vars

===============================================================================
