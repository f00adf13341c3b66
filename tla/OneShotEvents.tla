---------------------------- MODULE OneShotEvents ----------------------------
(***************************************************************************)
(* What callback_latch promises the one thread that waits on it: every     *)
(* awaited notification type is an event that is raised at most once and   *)
(* stays raised; a wait on an event ends only after the event was raised,  *)
(* and once it is raised the wait does end.  No mutex, no condition        *)
(* variable and no notifying thread is left at this level.                 *)
(***************************************************************************)

CONSTANTS Events,   \* the notification types that can be waited for
          NoEvent   \* the value of awaited while nobody waits: not an event

VARIABLES raised,   \* the events raised so far
          awaited   \* the event the thread waits for, or NoEvent

vars == <<raised, awaited>>

Init == /\ raised = {}
        /\ awaited = NoEvent

(* unlock(e) takes effect: the first notification of type e. *)
Raise(e) == /\ e \notin raised
            /\ raised' = raised \cup {e}
            /\ UNCHANGED awaited

(* await(e) is called. *)
Begin(e) == /\ awaited = NoEvent
            /\ awaited' = e
            /\ UNCHANGED raised

(* await returns. *)
Finish == /\ awaited \in raised
          /\ awaited' = NoEvent
          /\ UNCHANGED raised

Next == \/ \E e \in Events : Raise(e) \/ Begin(e)
        \/ Finish

SafeSpec == Init /\ [][Next]_vars

Spec == SafeSpec /\ WF_vars(Finish)

===============================================================================
