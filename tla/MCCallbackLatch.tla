--------------------------- MODULE MCCallbackLatch ---------------------------
(* Three service threads, so that a repeated notification can meet the     *)
(* first one in flight while a third thread holds the mutex, two awaited   *)
(* types, so that one can be notified while the other is awaited, and one  *)
(* type the latch ignores.                                                 *)
EXTENDS CallbackLatch

===============================================================================
