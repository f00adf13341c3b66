----------------------------- MODULE SpawnAndWait -----------------------------
(***************************************************************************)
(* spawn_and_wait (src/src/hostcompute_nspawn.cpp): the thread that builds *)
(* a container, runs one process in it, waits for the process to exit, and *)
(* takes everything down again, composed with the latch it waits on        *)
(* (CallbackLatch) and with the service it calls (HostCompute).            *)
(*                                                                         *)
(* pc names the vmcompute function the thread calls next.  An exception or *)
(* the end of the function goes to "unwind", where the objects in scope    *)
(* are destroyed, the one declared last first: the deferred clean-ups run  *)
(* as destructors, and cs_latch is destroyed among them.                   *)
(*                                                                         *)
(* A vmcompute function f has three outcomes: it serves the call, it       *)
(* refuses it with an error code, or it is not exported by the DLL and the *)
(* wrapper in vmcompute.cpp throws.                                        *)
(***************************************************************************)
EXTENDS Naturals, FiniteSets

CONSTANTS
  Workers,        \* the service's threads that run container_callback
  Failing,        \* the functions that may refuse a call they could serve
  Unresolvable,   \* the functions the loaded vmcompute.dll may not export
  MayDisconnect   \* whether the connection to the service may break

VARIABLES
  \* the latch
  mutex, flag, phase, target, stage, note,
  \* the service
  layer, system, process, registered, posted, connected,
  \* the thread
  pc,        \* the function called next, or unwind, returned, crashed
  scope,     \* the objects with a destructor that have been constructed
  threw,     \* an exception left the forward part
  reported,  \* the clean-up calls for which an ERROR line was printed
  missing    \* the functions the DLL does not export

Latch == INSTANCE CallbackLatch
           WITH Awaited <- {"system_create_complete", "system_start_complete",
                            "system_exit", "process_exit"},
                Ignored <- {"common_service_disconnect"}

Host == INSTANCE HostCompute

latchVars == <<mutex, flag, phase, target, stage, note>>
hostVars  == <<layer, system, process, registered, posted, connected>>
ownVars   == <<pc, scope, threw, reported, missing>>
vars      == <<mutex, flag, phase, target, stage, note,
               layer, system, process, registered, posted, connected,
               pc, scope, threw, reported, missing>>

(* The calls made between latch.lock() and latch.await() or latch.cancel(). *)
LatchedCalls == {"HcsRegisterComputeSystemCallback", "HcsStartComputeSystem",
                 "HcsRegisterProcessCallback"}

ReleaseCalls == {"HcsTerminateComputeSystem", "UnprepareLayer", "DeactivateLayer", "DestroyLayer"}

Calls == LatchedCalls \cup {"NameToGuid", "CreateSandboxLayer", "ActivateLayer", "PrepareLayer",
                            "GetLayerMountPath", "HcsCreateComputeSystem",
                            "HcsEnumerateComputeSystems", "HcsCreateProcess"}

ASSUME SpawnAssumption == /\ Failing \subseteq Calls \cup ReleaseCalls
                          /\ Unresolvable \subseteq Calls \cup ReleaseCalls
                          /\ MayDisconnect \in BOOLEAN
                          /\ {Latch!Nobody, Latch!Spawner} \cap Workers = {}

Init == /\ Latch!Init
        /\ Host!Init
        /\ pc = "NameToGuid"
        /\ scope = {}
        /\ threw = FALSE
        /\ reported = {}
        /\ missing \in SUBSET Unresolvable

-------------------------------------------------------------------------------
(* Outcomes of a call, and the control flow of the forward part.           *)

Succeeds(f) == f \notin missing /\ Host!Serves(f)
Refused(f)  == f \notin missing /\ (f \in Failing \/ ~Host!Serves(f))
Unbound(f)  == f \in missing

Throw == /\ pc' = "unwind"
         /\ threw' = TRUE
         /\ UNCHANGED scope

Proceed(next, declared) == /\ pc' = next
                           /\ scope' = scope \cup declared
                           /\ UNCHANGED threw

(* The process ends on the spot: std::terminate, or undefined behaviour. *)
Crash == /\ pc' = "crashed"
         /\ UNCHANGED <<mutex, flag, phase, target, stage, note,
                        layer, system, process, registered, posted, connected,
                        scope, threw, reported, missing>>

(* A step that throws on any error and otherwise declares what undoes it. *)
Step(f, effect, next, declared) ==
  /\ pc = f
  /\ \/ Succeeds(f) /\ effect /\ Proceed(next, declared)
     \/ (Refused(f) \/ Unbound(f)) /\ Throw /\ Host!NoEffect
  /\ UNCHANGED <<latchVars, reported, missing>>

(* Loading layerchain.json, and the GUIDs of the layers it lists: the      *)
(* first use of vmcompute.dll.                                             *)
collect_acsendant_layers ==
  Step("NameToGuid", Host!NoEffect, "CreateSandboxLayer", {})

hcs_create_layer ==
  Step("CreateSandboxLayer", Host!SetLayer("created"), "ActivateLayer",
       {"deferred_destroy_layer"})

(* Mutant: the clean-up is not declared. *)
ActivateUndeferred ==
  Step("ActivateLayer", Host!SetLayer("active"), "PrepareLayer", {})

hcs_activate_layer ==
  Step("ActivateLayer", Host!SetLayer("active"), "PrepareLayer",
       {"deferred_deactivate_layer"})

hcs_prepare_layer ==
  Step("PrepareLayer", Host!SetLayer("prepared"), "GetLayerMountPath",
       {"deferred_unprepare_layer"})

hcs_get_layer_mount_path ==
  Step("GetLayerMountPath", Host!NoEffect, "HcsCreateComputeSystem", {})

(* The GUIDs in the container's configuration are asked for again and may  *)
(* fail.  Success constructs cs_latch and declares no clean-up of the      *)
(* compute system.                                                         *)
hcs_create_compute_system ==
  \/ Step("HcsCreateComputeSystem", Host!SetSystem("creating"),
          "HcsRegisterComputeSystemCallback", {"cs_latch"})
  \/ /\ pc = "HcsCreateComputeSystem"
     /\ Refused("NameToGuid")
     /\ Throw
     /\ UNCHANGED <<latchVars, hostVars, reported, missing>>

hcs_enumerate_compute_systems ==
  Step("HcsEnumerateComputeSystems", Host!NoEffect, "HcsCreateProcess", {})

hcs_create_process ==
  Step("HcsCreateProcess", Host!StartProcess, "HcsRegisterProcessCallback", {})

-------------------------------------------------------------------------------
(* The calls made under the latch.                                         *)

(* Mutant: the latch is declared after the clean-up that waits on it. *)
RankLatchLast == [deferred_destroy_layer |-> 1, deferred_deactivate_layer |-> 2,
                  deferred_unprepare_layer |-> 3, deferred_terminate_cs |-> 4, cs_latch |-> 5]

(* Declaration order in spawn_and_wait: later ones are destroyed earlier.  *)
Rank == [deferred_destroy_layer |-> 1, deferred_deactivate_layer |-> 2,
         deferred_unprepare_layer |-> 3, cs_latch |-> 4, deferred_terminate_cs |-> 5]

Innermost(d) == /\ pc = "unwind"
                /\ d \in scope
                /\ \A e \in scope : Rank[e] <= Rank[d]

Terminating == Innermost("deferred_terminate_cs")

(* latch.lock() before each of the four calls. *)
LockLatch == /\ pc \in LatchedCalls \/ Terminating
             /\ Latch!Lock
             /\ UNCHANGED <<hostVars, ownVars>>

(* Where spawn_and_wait goes on after each of the awaited calls, and what  *)
(* it declares there.                                                      *)
After == [HcsRegisterComputeSystemCallback |-> "HcsStartComputeSystem",
          HcsStartComputeSystem |-> "HcsEnumerateComputeSystems",
          HcsRegisterProcessCallback |-> "unwind"]

(* Mutant: nothing is declared that would terminate the started system. *)
DeclaresNothing(f) == {}

Declares(f) == IF f = "HcsStartComputeSystem" THEN {"deferred_terminate_cs"} ELSE {}

(* Mutant: no wait for the notification. *)
RequestUnawaited(f, type, effect) ==
  /\ pc = f
  /\ phase = "locked"
  /\ \/ Succeeds(f) /\ effect /\ Latch!Cancel /\ Proceed(After[f], Declares(f))
     \/ (Refused(f) \/ Unbound(f)) /\ Latch!Cancel /\ Throw /\ Host!NoEffect
  /\ UNCHANGED <<reported, missing>>

(* Mutant: the refused call does not give the mutex back. *)
RequestUncancelled(f, type, effect) ==
  /\ pc = f
  /\ phase = "locked"
  /\ \/ Succeeds(f) /\ effect /\ Latch!Await(type) /\ UNCHANGED <<pc, scope, threw>>
     \/ /\ Refused(f) \/ Unbound(f)
        /\ Throw
        /\ Host!NoEffect
        /\ phase' = "outside"
        /\ UNCHANGED <<mutex, flag, target, stage, note>>
  /\ UNCHANGED <<reported, missing>>

(* The call itself: accepted, the thread waits for type; refused, it       *)
(* cancels the latch and throws.  An unexported function throws before     *)
(* either, and the mutex stays locked by a thread that has forgotten it.   *)
Request(f, type, effect) ==
  /\ pc = f
  /\ phase = "locked"
  /\ \/ Succeeds(f) /\ effect /\ Latch!Await(type) /\ UNCHANGED <<pc, scope, threw>>
     \/ Refused(f) /\ Latch!Cancel /\ Throw /\ Host!NoEffect
     \/ /\ Unbound(f)
        /\ Throw
        /\ Host!NoEffect
        /\ phase' = "outside"
        /\ UNCHANGED <<mutex, flag, target, stage, note>>
  /\ UNCHANGED <<reported, missing>>

hcs_register_compute_system_callback ==
  Request("HcsRegisterComputeSystemCallback", "system_create_complete", Host!Register("system"))

hcs_start_compute_system ==
  Request("HcsStartComputeSystem", "system_start_complete", Host!SetSystem("starting"))

hcs_register_process_callback ==
  Request("HcsRegisterProcessCallback", "process_exit", Host!Register("process"))

(* A destructor may not throw: an unexported function ends the process.    *)
hcs_terminate_compute_system ==
  /\ Terminating
  /\ phase = "locked"
  /\ \/ /\ Succeeds("HcsTerminateComputeSystem")
        /\ Host!SetSystem("terminating")
        /\ Latch!Await("system_exit")
        /\ UNCHANGED ownVars
     \/ /\ Refused("HcsTerminateComputeSystem")
        /\ Latch!Cancel
        /\ scope' = scope \ {"deferred_terminate_cs"}
        /\ reported' = reported \cup {"HcsTerminateComputeSystem"}
        /\ UNCHANGED <<hostVars, pc, threw, missing>>
     \/ Unbound("HcsTerminateComputeSystem") /\ Crash

(* A thread that still owns the mutex locks it again: the runtime notices  *)
(* and throws out of the destructor, or, when this step is never taken,    *)
(* the thread waits for itself for ever.                                   *)
RelockOwnMutex == /\ Terminating
                  /\ phase = "outside"
                  /\ mutex = Latch!Spawner
                  /\ Crash

(* await returns, and with it the hcs_ function that called it.            *)
AwaitReturns ==
  /\ Latch!WaitEnds
  /\ \/ /\ pc \in LatchedCalls
        /\ Proceed(After[pc], Declares(pc))
     \/ /\ Terminating
        /\ scope' = scope \ {"deferred_terminate_cs"}
        /\ UNCHANGED <<pc, threw>>
  /\ UNCHANGED <<hostVars, reported, missing>>

(* The steps of await before it returns. *)
AwaitStep == /\ Latch!WaitGoesOn \/ Latch!Sleep \/ Latch!Reacquire
             /\ UNCHANGED <<hostVars, ownVars>>

SpuriousWakeup == /\ pc # "crashed"
                  /\ Latch!SpuriousWakeup
                  /\ UNCHANGED <<hostVars, ownVars>>

-------------------------------------------------------------------------------
(* The other destructors, and the end.                                     *)

(* cs_latch goes out of scope.  Destroying a mutex that is owned is        *)
(* undefined: the debug runtime aborts, the release runtime goes on.       *)
DestroyLatch ==
  /\ Innermost("cs_latch")
  /\ \/ /\ scope' = scope \ {"cs_latch"}
        /\ UNCHANGED <<latchVars, hostVars, pc, threw, reported, missing>>
     \/ mutex # Latch!Nobody /\ Crash

(* Mutant: a failed clean-up is not reported. *)
ReleaseSilently(f, declared, state) ==
  /\ Innermost(declared)
  /\ scope' = scope \ {declared}
  /\ \/ Succeeds(f) /\ Host!SetLayer(state)
     \/ Refused(f) /\ Host!NoEffect
  /\ UNCHANGED <<latchVars, pc, threw, reported, missing>>

(* One of the three layer clean-ups: an error code is printed and the next *)
(* destructor runs all the same.                                           *)
Release(f, declared, state) ==
  /\ Innermost(declared)
  /\ \/ /\ scope' = scope \ {declared}
        /\ \/ Succeeds(f) /\ Host!SetLayer(state) /\ UNCHANGED reported
           \/ Refused(f) /\ Host!NoEffect /\ reported' = reported \cup {f}
        /\ UNCHANGED <<latchVars, pc, threw, missing>>
     \/ Unbound(f) /\ Crash

hcs_unprepare_layer  == Release("UnprepareLayer", "deferred_unprepare_layer", "active")
hcs_deactivate_layer == Release("DeactivateLayer", "deferred_deactivate_layer", "created")
hcs_destroy_layer    == Release("DestroyLayer", "deferred_destroy_layer", "absent")

(* The scope is empty; hostcompute_nspawn hands back null, or the message  *)
(* of the exception it catches.                                            *)
Return == /\ pc = "unwind"
          /\ scope = {}
          /\ pc' = "returned"
          /\ UNCHANGED <<latchVars, hostVars, scope, threw, reported, missing>>

-------------------------------------------------------------------------------
(* The service's threads, while the process lives.                         *)

(* container_callback is entered on thread w: the status that comes with   *)
(* the notification is printed and has no other effect.                    *)
container_callback(w, n) ==
  /\ pc # "crashed"
  /\ Host!Deliver(n)
  /\ Latch!Callback(w, n)
  /\ UNCHANGED ownVars

UnlockStep(w) == /\ pc # "crashed"
                 /\ Latch!UnlockStep(w)
                 /\ UNCHANGED <<hostVars, ownVars>>

(* A thread inside unlock uses a latch that has been destroyed: undefined. *)
(* The process may die of it; or the old bytes still serve, which is the   *)
(* step above.                                                             *)
LatchAlive == "cs_latch" \in scope

TouchDestroyedLatch(w) == /\ pc # "crashed"
                          /\ stage[w] # "idle"
                          /\ ~LatchAlive
                          /\ Crash

HostStep == /\ pc # "crashed"
            /\ Host!FinishCreate \/ Host!FinishStart \/ Host!FinishTerminate
            /\ UNCHANGED <<latchVars, ownVars>>

HostMay == /\ pc # "crashed"
           /\ Host!SystemExits \/ Host!ProcessExits \/ (MayDisconnect /\ Host!Disconnect)
           /\ UNCHANGED <<latchVars, ownVars>>

-------------------------------------------------------------------------------
Forward == \/ collect_acsendant_layers
           \/ hcs_create_layer
           \/ hcs_activate_layer
           \/ hcs_prepare_layer
           \/ hcs_get_layer_mount_path
           \/ hcs_create_compute_system
           \/ hcs_register_compute_system_callback
           \/ hcs_start_compute_system
           \/ hcs_enumerate_compute_systems
           \/ hcs_create_process
           \/ hcs_register_process_callback

Unwind == \/ hcs_terminate_compute_system
          \/ DestroyLatch
          \/ hcs_unprepare_layer
          \/ hcs_deactivate_layer
          \/ hcs_destroy_layer
          \/ Return

(* The thread that runs spawn_and_wait. *)
ThreadStep == Forward \/ Unwind \/ LockLatch \/ AwaitReturns \/ AwaitStep

Deliveries == \E w \in Workers, n \in Host!AwaitedTypes \cup Host!IgnoredTypes :
                container_callback(w, n)

(* Nothing happens after the process has died. *)
Crashed == pc = "crashed" /\ UNCHANGED vars

(* The call is over and the service is quiet. *)
Over == pc = "returned" /\ UNCHANGED vars

Next == \/ ThreadStep
        \/ RelockOwnMutex
        \/ SpuriousWakeup
        \/ Deliveries
        \/ \E w \in Workers : UnlockStep(w) \/ TouchDestroyedLatch(w)
        \/ HostStep
        \/ HostMay
        \/ Crashed
        \/ Over

SafeSpec == Init /\ [][Next]_vars

(* The operating system runs every thread; the service finishes what it    *)
(* has accepted and delivers what it has posted.  A service thread that    *)
(* waits for the mutex gets it if it is free again and again: spurious     *)
(* wake-ups of the spawning thread do not starve it, hence SF.  Nothing    *)
(* obliges the process in the container to exit.                           *)
Fairness == /\ WF_vars(ThreadStep)
            /\ WF_vars(HostStep)
            /\ WF_vars(Deliveries)
            /\ \A w \in Workers : SF_vars(UnlockStep(w))

Spec == SafeSpec /\ Fairness

-------------------------------------------------------------------------------
ThreadTypeOK == /\ pc \in Calls \cup {"unwind", "returned", "crashed"}
                /\ scope \subseteq DOMAIN Rank
                /\ threw \in BOOLEAN
                /\ reported \subseteq ReleaseCalls
                /\ missing \subseteq Unresolvable

TypeOK == Latch!TypeOK /\ Host!TypeOK /\ ThreadTypeOK

(* Each of the three waits waits for what it says: the container has been  *)
(* created (or has failed) when it is started, its start has ended when    *)
(* the process is created, and spawn_and_wait that returns normally has    *)
(* outlived the process.                                                   *)
WaitsHaveEnded ==
  /\ pc = "HcsStartComputeSystem" => system # "creating"
  /\ pc \in {"HcsEnumerateComputeSystems", "HcsCreateProcess", "HcsRegisterProcessCallback"}
       => system \notin {"creating", "created", "starting"}
  /\ pc = "returned" /\ ~threw => process = "exited"

(* The layer is not taken from under a container that has been started,    *)
(* unless it was reported that the container could not be terminated.      *)
LayerOutlivesSystem ==
  system \in {"starting", "running", "terminating"} /\ layer # "prepared"
    => "HcsTerminateComputeSystem" \in reported

(* When the call is over, normally or by an exception, the sandbox layer   *)
(* is left on the host if and only if its destruction was reported to have *)
(* failed.                                                                 *)
LayerLeftIffReported ==
  pc = "returned" => (layer # "absent" <=> "DestroyLayer" \in reported)

(* The callbacks are never unregistered.  Still a notification enters      *)
(* unlock after the latch is gone only if the container could not be       *)
(* terminated, which was reported: every other notification the service    *)
(* owes has been waited for.                                               *)
LateCallbackReported ==
  \A w \in Workers : stage[w] = "setting" /\ ~LatchAlive
                      => "HcsTerminateComputeSystem" \in reported

(* Clean-ups are lost only with the process, and it dies only of a function *)
(* that the DLL lacks, at a clean-up or under the latch, or of a callback   *)
(* that is still inside unlock when nothing is left to wait for it: no call *)
(* that is refused, and no notification in whatever order, kills it.        *)
DeathHasCause ==
  pc = "crashed" => \/ missing \cap (LatchedCalls \cup ReleaseCalls) # {}
                    \/ /\ "deferred_terminate_cs" \notin scope
                       /\ \E w \in Workers : stage[w] # "idle"

(* spawn_and_wait comes to an end, rollback included, unless it waits for  *)
(* a process that runs for ever, for a notification of a service that is   *)
(* lost (common_service_disconnect ends no wait), or for a mutex that it   *)
(* has left locked itself (RollbackNeverSelfLocks).                        *)
EventuallyReturns ==
  \/ <>(pc \in {"returned", "crashed"})
  \/ <>[](pc = "HcsRegisterProcessCallback" /\ process = "running")
  \/ <>[](~connected /\ target \notin flag /\ target # Latch!NoType)
  \/ <>[](Terminating /\ phase = "outside" /\ mutex = Latch!Spawner)

(* Whatever is refused, the thread and the service's threads use the latch *)
(* as it is meant to be used: every lock() is followed by one await() or   *)
(* one cancel().                                                           *)
LatchProtocol == Latch!SafeSpec

(* As long as the container can be registered, started and terminated, the *)
(* host is taken up and let go in order (SandboxLife).                     *)
Life == INSTANCE SandboxLife
          WITH depth <- [absent |-> 0, created |-> 1, active |-> 2, prepared |-> 3][layer],
               occupied <- Host!Live,
               descending <- pc \in {"unwind", "returned", "crashed"}

KeepsHostClean == Life!Spec

-------------------------------------------------------------------------------
(* Claims of the repository that the code does not keep.                   *)

(* README.md, changelog of 1.1: "correct rollback behaviour on errors".    *)
(* When spawn_and_wait has failed and no failed clean-up was reported, no  *)
(* compute system it has created is left on the service.                   *)
RollbackTerminatesSystem ==
  pc = "returned" /\ threw /\ reported = {} => ~Host!Live

(* The same claim, for the rollback itself: it never locks a mutex that    *)
(* its own thread has left locked.                                         *)
RollbackNeverSelfLocks == Terminating /\ phase = "outside" => mutex # Latch!Spawner

(* container_callback is declared STATICLIB_NOEXCEPT and handed to the     *)
(* service with the address of cs_latch.  In a call that reports no failed *)
(* clean-up, a callback that is still running finds the latch alive.       *)
CallbackFindsLatchAlive ==
  \A w \in Workers : stage[w] # "idle" /\ reported = {} => LatchAlive

(* hostcompute_nspawn.cpp: "register callback and wait for container to    *)
(* start", and "Container started" is printed: after the wait for          *)
(* system_start_complete the container has started, whatever became of it  *)
(* since.                                                                  *)
StartedWhenWaited == pc = "HcsEnumerateComputeSystems" => system # "failed"

===============================================================================
