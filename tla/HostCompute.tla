----------------------------- MODULE HostCompute -----------------------------
(***************************************************************************)
(* The outside world as src/src/hostcompute_nspawn.cpp uses it through     *)
(* vmcompute.dll: one sandbox layer, one compute system, one process in    *)
(* it, and the notifications the Host Compute Service owes the callbacks   *)
(* registered with it.  Nothing of this is source of the repository: what  *)
(* is assumed of it is what the calling code needs for its waits to make   *)
(* sense, and everything else is left open.                                *)
(*   - an operation that returns "pending" ends later, with success or     *)
(*     failure, and its completion is notified once;                       *)
(*   - a notification posted before the callback is registered is kept for *)
(*     it (the code registers after HcsCreateComputeSystem and after       *)
(*     HcsCreateProcess, and waits for what those two calls started);      *)
(*   - posted notifications are delivered in any order, on any thread;     *)
(*   - the container may exit by itself, and the process with it;          *)
(*   - the connection to the service may break, after which nothing is     *)
(*     notified but the disconnection.                                     *)
(***************************************************************************)

VARIABLES
  layer,       \* the sandbox layer
  system,      \* the compute system
  process,     \* the process created in it
  registered,  \* the handles a callback is registered for
  posted,      \* notifications not delivered yet
  connected    \* whether the service still answers

vars == <<layer, system, process, registered, posted, connected>>

(* The callers' notification types, by their names in notification_type.   *)
AwaitedTypes == {"system_create_complete", "system_start_complete", "system_exit", "process_exit"}
IgnoredTypes == {"common_service_disconnect"}

(* The functions that do not need the service: a hash, and the layer driver. *)
LocalFunctions == {"NameToGuid", "CreateSandboxLayer", "ActivateLayer", "PrepareLayer",
                   "GetLayerMountPath", "UnprepareLayer", "DeactivateLayer", "DestroyLayer"}

Init == /\ layer = "absent"
        /\ system = "absent"
        /\ process = "absent"
        /\ registered = {}
        /\ posted = {}
        /\ connected = TRUE

TypeOK == /\ layer \in {"absent", "created", "active", "prepared"}
          /\ system \in {"absent", "creating", "created", "starting", "running",
                         "terminating", "failed", "exited"}
          /\ process \in {"absent", "running", "exited"}
          /\ registered \subseteq {"system", "process"}
          /\ posted \subseteq AwaitedTypes \cup IgnoredTypes
          /\ connected \in BOOLEAN

-------------------------------------------------------------------------------
(* Calls.  Serves(f) says whether a call of f can succeed now.             *)

Serves(f) == \/ f \in LocalFunctions
             \/ /\ connected
                /\ f = "HcsStartComputeSystem" => system = "created"
                /\ f = "HcsCreateProcess" => system = "running"
                /\ f = "HcsTerminateComputeSystem" => system = "running"

NoEffect == UNCHANGED vars

SetLayer(state) == /\ layer' = state
                   /\ UNCHANGED <<system, process, registered, posted, connected>>

SetSystem(state) == /\ system' = state
                    /\ UNCHANGED <<layer, process, registered, posted, connected>>

StartProcess == /\ process' = "running"
                /\ UNCHANGED <<layer, system, registered, posted, connected>>

Register(handle) == /\ registered' = registered \cup {handle}
                    /\ UNCHANGED <<layer, system, process, posted, connected>>

-------------------------------------------------------------------------------
(* What the service does by itself.                                        *)

Finish(from, to, type) == /\ connected
                          /\ system = from
                          /\ system' \in to
                          /\ posted' = posted \cup {type}
                          /\ UNCHANGED <<layer, process, registered, connected>>

FinishCreate == Finish("creating", {"created", "failed"}, "system_create_complete")

FinishStart == Finish("starting", {"running", "failed"}, "system_start_complete")

(* The container is gone, and whatever ran in it. *)
SystemStops(from) ==
  /\ connected
  /\ system = from
  /\ system' = "exited"
  /\ process' = IF process = "running" THEN "exited" ELSE process
  /\ posted' = posted \cup {"system_exit"}
                      \cup (IF process = "running" THEN {"process_exit"} ELSE {})
  /\ UNCHANGED <<layer, registered, connected>>

FinishTerminate == SystemStops("terminating")

SystemExits == SystemStops("running")

ProcessExits == /\ connected
                /\ process = "running"
                /\ process' = "exited"
                /\ posted' = posted \cup {"process_exit"}
                /\ UNCHANGED <<layer, system, registered, connected>>

Disconnect == /\ connected
              /\ connected' = FALSE
              /\ posted' = IF registered = {} THEN {} ELSE IgnoredTypes
              /\ UNCHANGED <<layer, system, process, registered>>

(* Type n goes to the callback registered for its handle. *)
Deliver(n) == /\ n \in posted
              /\ (IF n = "process_exit" THEN "process" ELSE "system") \in registered
              /\ posted' = posted \ {n}
              /\ UNCHANGED <<layer, system, process, registered, connected>>

(* A compute system that needs its layer. *)
Live == system \in {"creating", "created", "starting", "running", "terminating"}

===============================================================================
