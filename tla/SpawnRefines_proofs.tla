-------------------------- MODULE SpawnRefines_proofs --------------------------
(***************************************************************************)
(* Proofs that spawn_and_wait implements what is promised of it: that it   *)
(* uses the latch as the latch is meant to be used (CallbackLatch), and    *)
(* that it takes the host up and lets it go in order (SandboxLife).  Each  *)
(* step of the program, of its service threads and of the service is shown *)
(* to be a step of the abstract specification or to leave its variables    *)
(* alone.                                                                  *)
(***************************************************************************)
EXTENDS SpawnAndWait_proofs

(* The steps of the latch, under the names it has here. *)
LatchStep == [Latch!Next]_(Latch!vars)

(* The calls that are not made under the latch, and all clean-ups but the  *)
(* termination, leave it alone; so does the death of the process.          *)
LEMMA OutsideLatch ==
  ASSUME \/ collect_acsendant_layers \/ hcs_create_layer \/ hcs_activate_layer
         \/ hcs_prepare_layer \/ hcs_get_layer_mount_path \/ hcs_create_compute_system
         \/ hcs_enumerate_compute_systems \/ hcs_create_process
         \/ DestroyLatch \/ hcs_unprepare_layer \/ hcs_deactivate_layer \/ hcs_destroy_layer
         \/ Return \/ Crash \/ HostStep \/ HostMay \/ UNCHANGED vars
  PROVE  UNCHANGED Latch!vars
  BY DEF collect_acsendant_layers, hcs_create_layer, hcs_activate_layer, hcs_prepare_layer,
     hcs_get_layer_mount_path, hcs_create_compute_system, hcs_enumerate_compute_systems,
     hcs_create_process, Step, DestroyLatch, hcs_unprepare_layer, hcs_deactivate_layer,
     hcs_destroy_layer, Release, Return, Crash, HostStep, HostMay, latchVars, vars, Latch!vars

(* A call made under the latch awaits or cancels, if it is not missing.    *)
LEMMA RequestOnLatch ==
  ASSUME missing \cap LatchedCalls = {}, Forward
  PROVE  LatchStep
  <1>1. CASE \/ hcs_register_compute_system_callback
             \/ hcs_start_compute_system
             \/ hcs_register_process_callback
    <2>1. Latch!Cancel \/ \E n \in {"system_create_complete", "system_start_complete",
                                    "system_exit", "process_exit"} : Latch!Await(n)
      BY <1>1 DEF hcs_register_compute_system_callback, hcs_start_compute_system,
         hcs_register_process_callback, Request, Unbound, LatchedCalls
    <2> QED BY <2>1 DEF LatchStep, Latch!Next, Latch!SpawnerStep
  <1>2. CASE \/ collect_acsendant_layers \/ hcs_create_layer \/ hcs_activate_layer
             \/ hcs_prepare_layer \/ hcs_get_layer_mount_path \/ hcs_create_compute_system
             \/ hcs_enumerate_compute_systems \/ hcs_create_process
    BY <1>2, OutsideLatch DEF LatchStep
  <1> QED BY <1>1, <1>2 DEF Forward

(* The termination awaits, cancels, or ends the process.                   *)
LEMMA TerminateOnLatch ==
  ASSUME hcs_terminate_compute_system
  PROVE  LatchStep
  <1>1. CASE Crash
    BY <1>1, OutsideLatch DEF LatchStep
  <1>2. CASE ~Crash
    <2>1. Latch!Cancel \/ Latch!Await("system_exit")
      BY <1>2 DEF hcs_terminate_compute_system
    <2> QED BY <2>1 DEF LatchStep, Latch!Next, Latch!SpawnerStep
  <1> QED BY <1>1, <1>2

(* The thread inside the latch, and the service's threads.                 *)
LEMMA InsideLatch ==
  ASSUME \/ LockLatch \/ AwaitReturns \/ AwaitStep \/ SpuriousWakeup \/ Deliveries
         \/ \E w \in Workers : UnlockStep(w)
  PROVE  LatchStep
  <1>1. CASE LockLatch \/ AwaitReturns \/ AwaitStep \/ SpuriousWakeup
    <2>1. Latch!SpawnerStep
      BY <1>1 DEF LockLatch, AwaitReturns, AwaitStep, SpuriousWakeup, Latch!SpawnerStep,
         Latch!WaitStep
    <2> QED BY <2>1 DEF LatchStep, Latch!Next
  <1>2. CASE Deliveries
    <2>1. \E w \in Workers, n \in Host!AwaitedTypes \cup Host!IgnoredTypes : Latch!Callback(w, n)
      BY <1>2 DEF Deliveries, container_callback
    <2>2. \E w \in Workers : Latch!WorkerStep(w)
      BY <2>1 DEF Latch!WorkerStep, Host!AwaitedTypes, Host!IgnoredTypes
    <2> QED BY <2>2 DEF LatchStep, Latch!Next
  <1>3. CASE \E w \in Workers : UnlockStep(w)
    <2>1. \E w \in Workers : Latch!WorkerStep(w)
      BY <1>3 DEF UnlockStep, Latch!WorkerStep
    <2> QED BY <2>1 DEF LatchStep, Latch!Next
  <1> QED BY <1>1, <1>2, <1>3

(* Every step of the program is a step of the latch or passes it by.       *)
LEMMA NextOnLatch ==
  ASSUME Unresolvable \cap LatchedCalls = {}, ThreadTypeOK, [Next]_vars
  PROVE  LatchStep
  <1>1. missing \cap LatchedCalls = {}
    BY DEF ThreadTypeOK
  <1>2. CASE Forward
    BY <1>1, <1>2, RequestOnLatch
  <1>3. CASE hcs_terminate_compute_system
    BY <1>3, TerminateOnLatch
  <1>4. CASE \/ LockLatch \/ AwaitReturns \/ AwaitStep \/ SpuriousWakeup \/ Deliveries
             \/ \E w \in Workers : UnlockStep(w)
    BY <1>4, InsideLatch
  <1>5. CASE \/ DestroyLatch \/ hcs_unprepare_layer \/ hcs_deactivate_layer \/ hcs_destroy_layer
             \/ Return \/ Crash \/ HostStep \/ HostMay \/ UNCHANGED vars
    BY <1>5, OutsideLatch DEF LatchStep
  <1>6. CASE RelockOwnMutex \/ \E w \in Workers : TouchDestroyedLatch(w)
    BY <1>6, <1>5 DEF RelockOwnMutex, TouchDestroyedLatch
  <1> QED
    BY <1>2, <1>3, <1>4, <1>5, <1>6 DEF Next, ThreadStep, Unwind, Crashed, Over

(* Whatever is refused, missing elsewhere or disconnected, the thread and  *)
(* the service's threads follow the protocol of the latch, provided that   *)
(* the three functions called under it can be resolved: a missing one      *)
(* throws between lock() and await() or cancel().                          *)
THEOREM LatchUsedAsMeant ==
  ASSUME Unresolvable \cap LatchedCalls = {}
  PROVE  SafeSpec => LatchProtocol
  <1>1. Init => Latch!Init
    BY DEF Init
  <1>2. IInv /\ [Next]_vars => [Latch!Next]_(Latch!vars)
    BY NextOnLatch DEF IInv, LatchStep
  <1> QED
    BY <1>1, <1>2, Invariant, PTL DEF SafeSpec, LatchProtocol, Latch!SafeSpec

(* With those three functions resolved, what is proved of the latch alone  *)
(* (CallbackLatch_proofs) holds of the latch inside the program.           *)
LatchProof ==
  INSTANCE CallbackLatch_proofs
    WITH Awaited <- {"system_create_complete", "system_start_complete",
                     "system_exit", "process_exit"},
         Ignored <- {"common_service_disconnect"}

(* The constants of the latch are as the latch assumes them. *)
LEMMA LatchConstants == LatchProof!LatchAssumption
  BY SpawnAssumption
  DEF LatchProof!LatchAssumption, LatchProof!NoType, LatchProof!Nobody, LatchProof!Spawner,
      Latch!Nobody, Latch!Spawner

(* The latch of the program and the latch of the proofs are one: the same  *)
(* actions on the same variables.                                          *)
LEMMA SameLatch ==
  /\ Latch!Init => LatchProof!Init
  /\ [Latch!Next]_(Latch!vars) => [LatchProof!Next]_(LatchProof!vars)
  /\ LatchProof!IInv => Latch!LockHandOff /\ Latch!NoLostWakeup /\ Latch!OneNotifier
  BY DEF Latch!Init, LatchProof!Init, Latch!vars, LatchProof!vars,
     Latch!Nobody, Latch!Spawner, Latch!NoType, LatchProof!Nobody, LatchProof!Spawner,
     LatchProof!NoType,
     Latch!Next, Latch!SpawnerStep, Latch!Lock, Latch!Cancel, Latch!Await, Latch!WaitStep,
     Latch!WaitEnds, Latch!WaitGoesOn, Latch!Sleep, Latch!Reacquire, Latch!SpuriousWakeup,
     Latch!WorkerStep, Latch!Callback, Latch!UnlockStep, Latch!SetFlag, Latch!TakeMutex,
     Latch!NotifyAll,
     LatchProof!Next, LatchProof!SpawnerStep, LatchProof!Lock, LatchProof!Cancel,
     LatchProof!Await, LatchProof!WaitStep, LatchProof!WaitEnds, LatchProof!WaitGoesOn,
     LatchProof!Sleep, LatchProof!Reacquire, LatchProof!SpuriousWakeup, LatchProof!WorkerStep,
     LatchProof!Callback, LatchProof!UnlockStep, LatchProof!SetFlag, LatchProof!TakeMutex,
     LatchProof!NotifyAll,
     LatchProof!IInv, LatchProof!LockHandOff, LatchProof!NoLostWakeup, LatchProof!OneNotifier,
     LatchProof!Notifier, Latch!LockHandOff, Latch!NoLostWakeup, Latch!OneNotifier, Latch!Notifier

(* The mutex is handed over, no wake-up is lost, and one thread notifies,  *)
(* in the program as in the latch by itself.                               *)
THEOREM LatchServes ==
  ASSUME Unresolvable \cap LatchedCalls = {}
  PROVE  SafeSpec => [](Latch!LockHandOff /\ Latch!NoLostWakeup /\ Latch!OneNotifier)
  <1>1. LatchProof!SafeSpec => []LatchProof!IInv
    BY LatchConstants, LatchProof!Invariant
  <1> QED
    BY <1>1, SameLatch, LatchUsedAsMeant, PTL
    DEF LatchProtocol, Latch!SafeSpec, LatchProof!SafeSpec

(* With those three functions resolved, the rollback never locks a mutex   *)
(* that its own thread has left locked: the claim fails only where one of  *)
(* them is missing (run self_lock).                                        *)
THEOREM NeverSelfLocks ==
  ASSUME Unresolvable \cap LatchedCalls = {}
  PROVE  SafeSpec => []RollbackNeverSelfLocks
  <1>1. Init => DInv
    BY InitIInv, SpawnAssumption
    DEF Init, DInv, MutexInv, DeathHasCause, Latch!Init, Latch!Nobody, Latch!Spawner
  <1>2. DInv => RollbackNeverSelfLocks
    BY DEF DInv, IInv, ThreadTypeOK, MutexInv, RollbackNeverSelfLocks
  <1> QED
    BY <1>1, <1>2, NextDInv, PTL DEF SafeSpec

-------------------------------------------------------------------------------
(* The host.  The promise of SandboxLife is kept while the service stays   *)
(* connected, no clean-up is refused, and the two calls between which a    *)
(* compute system has no clean-up are neither refused nor missing.         *)

UndeferredCalls == {"HcsRegisterComputeSystemCallback", "HcsStartComputeSystem"}

ServiceObeys == /\ Failing \cap (UndeferredCalls \cup ReleaseCalls) = {}
                /\ Unresolvable \cap UndeferredCalls = {}
                /\ ~MayDisconnect

(* The layer is exactly at the stage the clean-ups in scope undo.          *)
StageInv ==
  layer = IF "deferred_unprepare_layer" \in scope THEN "prepared"
          ELSE IF "deferred_deactivate_layer" \in scope THEN "active"
          ELSE IF "deferred_destroy_layer" \in scope THEN "created"
          ELSE "absent"

(* The service answers; a compute system is terminated only while that is  *)
(* awaited; and on the way down one that lives has its clean-up in scope.  *)
GuestInv ==
  /\ connected
  /\ system = "terminating" => Awaiting /\ target = "system_exit"
  /\ pc \notin Calls /\ Host!Live => "deferred_terminate_cs" \in scope

(* CInv with these two parts is inductive again.                           *)
LInv == CInv /\ StageInv /\ GuestInv

(* Which of the conditions of a call can refuse it, when the service obeys. *)
LEMMA Obeys ==
  ASSUME ServiceObeys, ThreadTypeOK, connected
  PROVE  /\ \A f \in ReleaseCalls \ {"HcsTerminateComputeSystem"} : ~Refused(f)
         /\ ~Refused("HcsRegisterComputeSystemCallback")
         /\ ~Unbound("HcsRegisterComputeSystemCallback")
         /\ ~Unbound("HcsStartComputeSystem")
         /\ Refused("HcsStartComputeSystem") => system # "created"
         /\ Refused("HcsTerminateComputeSystem") => system # "running"
  BY DEF ServiceObeys, UndeferredCalls, ReleaseCalls, ThreadTypeOK, Refused, Unbound,
         Host!Serves, Host!LocalFunctions

(* The calls that are not awaited.                                         *)
LEMMA ClimbLInv ==
  ASSUME LInv,
         \/ collect_acsendant_layers \/ hcs_create_layer \/ hcs_activate_layer
         \/ hcs_prepare_layer \/ hcs_get_layer_mount_path \/ hcs_create_compute_system
         \/ hcs_enumerate_compute_systems \/ hcs_create_process
  PROVE  StageInv' /\ GuestInv'
  <1> USE DEF LInv, CInv, IInv, collect_acsendant_layers, hcs_create_layer,
          hcs_activate_layer, hcs_prepare_layer, hcs_get_layer_mount_path,
          hcs_create_compute_system, hcs_enumerate_compute_systems, hcs_create_process, Step,
          Host!SetLayer, Host!SetSystem, Host!StartProcess, latchVars, hostVars, Proceed, Throw,
          Host!NoEffect, Host!vars
  <1>1. StageInv'
    BY DEF StageInv, ScopeInv
  <1>2. GuestInv'
    BY DEF GuestInv, Awaiting, Host!Live, ScopeInv, SystemInv, Calls, LatchedCalls
  <1> QED BY <1>1, <1>2

(* The calls under the latch: the first two are not left behind by a       *)
(* living compute system, and the third finds its clean-up declared.       *)
LEMMA RequestLInv ==
  ASSUME ServiceObeys, LInv,
         \/ hcs_register_compute_system_callback
         \/ hcs_start_compute_system
         \/ hcs_register_process_callback
  PROVE  StageInv' /\ GuestInv'
  <1>1. /\ ~Refused("HcsRegisterComputeSystemCallback")
        /\ ~Unbound("HcsRegisterComputeSystemCallback")
        /\ ~Unbound("HcsStartComputeSystem")
        /\ Refused("HcsStartComputeSystem") => system # "created"
    BY Obeys DEF LInv, GuestInv, CInv, IInv
  <1> USE <1>1 DEF LInv, CInv, IInv, hcs_register_compute_system_callback,
          hcs_start_compute_system, hcs_register_process_callback, Request, Latch!Await,
          Latch!Cancel, Host!Register, Host!SetSystem, Throw, Host!NoEffect, Host!vars
  <1>2. StageInv'
    BY DEF StageInv
  <1>3. GuestInv'
    BY DEF GuestInv, Awaiting, Host!Live, ScopeInv, SystemInv, Calls, LatchedCalls
  <1> QED BY <1>2, <1>3

(* The termination is refused only to a compute system that has stopped.   *)
LEMMA TerminateLInv ==
  ASSUME ServiceObeys, LInv, hcs_terminate_compute_system, ~Crash
  PROVE  StageInv' /\ GuestInv'
  <1>1. Refused("HcsTerminateComputeSystem") => system # "running"
    BY Obeys DEF LInv, GuestInv, CInv, IInv
  <1>2. "system_start_complete" \in flag
    BY DEF LInv, CInv, WaitedInv, hcs_terminate_compute_system, Terminating, Innermost
  <1>3. system \notin {"absent", "creating", "created", "starting"}
    BY <1>2 DEF LInv, CInv, IInv, HeardInv, Heard
  <1> USE DEF LInv, hcs_terminate_compute_system, Terminating, Innermost, Latch!Await,
          Latch!Cancel, Host!SetSystem, hostVars, ownVars
  <1>4. StageInv'
    BY DEF StageInv
  <1>5. GuestInv'
    BY <1>1, <1>3 DEF GuestInv, Awaiting, Host!Live, Calls, LatchedCalls
  <1> QED BY <1>4, <1>5

(* The end of the last wait is the end of the compute system.              *)
LEMMA AwaitReturnsLInv ==
  ASSUME LInv, AwaitReturns
  PROVE  StageInv' /\ GuestInv'
  <1>1. target = "system_exit" => system = "exited"
    BY DEF LInv, CInv, IInv, HeardInv, Heard, AwaitReturns, Latch!WaitEnds
  <1> USE DEF LInv, CInv, IInv, AwaitReturns, Latch!WaitEnds, After, Declares, Terminating,
          Innermost, LatchedCalls, hostVars, Proceed
  <1>2. StageInv'
    BY DEF StageInv
  <1>3. GuestInv'
    BY <1>1 DEF GuestInv, Awaiting, Host!Live, Calls, AwaitInv, ScopeInv
  <1> QED BY <1>2, <1>3

(* Who waits goes on waiting, whatever the service's threads do.           *)
LEMMA LatchLInv ==
  ASSUME LInv,
         \/ LockLatch \/ AwaitStep \/ SpuriousWakeup \/ Deliveries
         \/ \E w \in Workers : UnlockStep(w)
  PROVE  StageInv' /\ GuestInv'
  <1> USE DEF LInv, LockLatch, AwaitStep, SpuriousWakeup, Deliveries, container_callback,
          UnlockStep, Host!Deliver, Latch!Lock, Latch!WaitGoesOn, Latch!Sleep, Latch!Reacquire,
          Latch!SpuriousWakeup, Latch!Callback, Latch!UnlockStep, Latch!SetFlag,
          Latch!TakeMutex, Latch!NotifyAll, hostVars, ownVars
  <1>1. StageInv'
    BY DEF StageInv
  <1>2. GuestInv'
    BY DEF GuestInv, Awaiting, Host!Live
  <1> QED BY <1>1, <1>2

(* The service brings no compute system back to life.                      *)
LEMMA HostLInv ==
  ASSUME ServiceObeys, LInv, HostStep \/ HostMay
  PROVE  StageInv' /\ GuestInv'
  <1> USE DEF ServiceObeys, LInv, HostStep, HostMay, Host!FinishCreate, Host!FinishStart,
          Host!FinishTerminate, Host!Finish, Host!SystemExits, Host!SystemStops,
          Host!ProcessExits, latchVars, ownVars
  <1>1. StageInv'
    BY DEF StageInv
  <1>2. GuestInv'
    BY DEF GuestInv, Awaiting, Host!Live
  <1> QED BY <1>1, <1>2

(* The clean-ups of the layer are served, one stage each.                  *)
LEMMA UnwindLInv ==
  ASSUME ServiceObeys, LInv, ~Crash,
         \/ DestroyLatch \/ hcs_unprepare_layer \/ hcs_deactivate_layer
         \/ hcs_destroy_layer \/ Return
  PROVE  StageInv' /\ GuestInv'
  <1>1. \A f \in {"UnprepareLayer", "DeactivateLayer", "DestroyLayer"} : ~Refused(f)
    BY Obeys DEF LInv, GuestInv, CInv, IInv, ReleaseCalls
  <1> USE <1>1 DEF LInv, CInv, IInv, DestroyLatch, hcs_unprepare_layer, hcs_deactivate_layer,
          hcs_destroy_layer, Return, Release, Innermost, Rank, Host!SetLayer, hostVars, latchVars
  <1>2. StageInv'
    BY DEF StageInv, ScopeInv
  <1>3. GuestInv'
    BY DEF GuestInv, Awaiting, Host!Live, Calls, LatchedCalls
  <1> QED BY <1>2, <1>3

(* Every step keeps it.                                                    *)
LEMMA NextLInv == ServiceObeys /\ LInv /\ [Next]_vars => LInv'
  <1> SUFFICES ASSUME ServiceObeys, LInv, [Next]_vars PROVE StageInv' /\ GuestInv'
    BY NextCInv DEF LInv
  <1>1. CASE Forward
    BY <1>1, ClimbLInv, RequestLInv DEF Forward
  <1>2. CASE Crash /\ pc \notin Calls
    BY <1>2 DEF Crash, LInv, StageInv, GuestInv, Awaiting, Host!Live
  <1>3. CASE \/ hcs_terminate_compute_system \/ RelockOwnMutex \/ DestroyLatch
             \/ hcs_unprepare_layer \/ hcs_deactivate_layer \/ hcs_destroy_layer \/ Return
             \/ \E w \in Workers : TouchDestroyedLatch(w)
    BY <1>2, <1>3, TerminateLInv, UnwindLInv, DiesUnwinding
    DEF LInv, Return, Crash, RelockOwnMutex, TouchDestroyedLatch
  <1>4. CASE AwaitReturns
    BY <1>4, AwaitReturnsLInv
  <1>5. CASE \/ LockLatch \/ AwaitStep \/ SpuriousWakeup \/ Deliveries
             \/ \E w \in Workers : UnlockStep(w)
    BY <1>5, LatchLInv
  <1>6. CASE HostStep \/ HostMay
    BY <1>6, HostLInv
  <1>7. CASE UNCHANGED vars
    BY <1>7 DEF vars, LInv, StageInv, GuestInv, Awaiting, Host!Live
  <1> QED
    BY <1>1, <1>3, <1>4, <1>5, <1>6, <1>7 DEF Next, ThreadStep, Unwind, Crashed, Over

-------------------------------------------------------------------------------
(* Each step of the program is a step of SandboxLife or leaves its view    *)
(* of the host alone.                                                      *)

LifeStep == [Life!Next]_(Life!vars)

(* The steps that neither touch the layer, nor change whether a compute    *)
(* system lives, nor begin the way down.                                   *)
LEMMA Stutters ==
  ASSUME UNCHANGED layer, Host!Live' <=> Host!Live,
         pc' \in {"unwind", "returned", "crashed"} <=> pc \in {"unwind", "returned", "crashed"}
  PROVE  LifeStep
  BY DEF LifeStep, Life!vars, Host!Live

(* On the way up: a stage of the layer, the compute system, or the turn.   *)
LEMMA ForwardLife ==
  ASSUME LInv, Forward
  PROVE  LifeStep
  <1> USE DEF LInv, CInv, IInv
  <1>1. CASE pc' = "unwind"
    <2>1. UNCHANGED layer /\ UNCHANGED system /\ pc \notin {"unwind", "returned", "crashed"}
      BY <1>1 DEF Forward, collect_acsendant_layers, hcs_create_layer, hcs_activate_layer,
         hcs_prepare_layer, hcs_get_layer_mount_path, hcs_create_compute_system,
         hcs_enumerate_compute_systems, hcs_create_process,
         hcs_register_compute_system_callback, hcs_start_compute_system,
         hcs_register_process_callback, Step, Request, Proceed, Throw, Host!NoEffect,
         Host!vars, hostVars
    <2> QED BY <1>1, <2>1 DEF LifeStep, Life!Next, Life!Turn, Host!Live
  <1>2. CASE pc' # "unwind" /\ (hcs_create_layer \/ hcs_activate_layer \/ hcs_prepare_layer)
    BY <1>2 DEF hcs_create_layer, hcs_activate_layer, hcs_prepare_layer, Step, Proceed, Throw,
       Host!SetLayer, StageInv, ScopeInv, LifeStep, Life!Next, Life!Climb, Host!Live
  <1>3. CASE pc' # "unwind" /\ hcs_create_compute_system
    BY <1>3 DEF hcs_create_compute_system, Step, Proceed, Throw, Host!SetSystem, StageInv,
       ScopeInv, SystemInv, LifeStep, Life!Next, Life!Occupy, Host!Live
  <1>4. CASE pc' # "unwind" /\ hcs_start_compute_system
    <2>1. /\ UNCHANGED layer
          /\ system = "created" /\ system' = "starting"
          /\ pc = "HcsStartComputeSystem" /\ pc' = pc
      BY <1>4 DEF hcs_start_compute_system, Request, Throw, Host!SetSystem, Succeeds,
         Host!Serves, Host!LocalFunctions
    <2> QED BY <2>1, Stutters DEF Host!Live
  <1>5. CASE pc' # "unwind" /\ \/ collect_acsendant_layers \/ hcs_get_layer_mount_path
                               \/ hcs_enumerate_compute_systems \/ hcs_create_process
                               \/ hcs_register_compute_system_callback
                               \/ hcs_register_process_callback
    <2>1. /\ UNCHANGED layer /\ UNCHANGED system
          /\ pc \notin {"unwind", "returned", "crashed"}
          /\ pc' \notin {"unwind", "returned", "crashed"}
      BY <1>5 DEF collect_acsendant_layers, hcs_get_layer_mount_path,
         hcs_enumerate_compute_systems, hcs_create_process,
         hcs_register_compute_system_callback, hcs_register_process_callback, Step, Request,
         Proceed, Throw, Host!NoEffect, Host!vars, Host!StartProcess, Host!Register
    <2> QED BY <2>1, Stutters DEF Host!Live
  <1> QED BY <1>1, <1>2, <1>3, <1>4, <1>5 DEF Forward

(* On the way down: one stage, when no compute system lives.               *)
LEMMA ReleaseLife ==
  ASSUME ServiceObeys, LInv, ~Crash,
         hcs_unprepare_layer \/ hcs_deactivate_layer \/ hcs_destroy_layer
  PROVE  LifeStep
  <1>1. \A f \in {"UnprepareLayer", "DeactivateLayer", "DestroyLayer"} : ~Refused(f)
    BY Obeys DEF LInv, GuestInv, CInv, IInv, ReleaseCalls
  <1>2. pc = "unwind" /\ ~Host!Live
    BY DEF hcs_unprepare_layer, hcs_deactivate_layer, hcs_destroy_layer, Release, Innermost,
       Rank, LInv, GuestInv, Calls, LatchedCalls
  <1>3. \/ layer = "prepared" /\ layer' = "active"
        \/ layer = "active" /\ layer' = "created"
        \/ layer = "created" /\ layer' = "absent"
    BY <1>1 DEF hcs_unprepare_layer, hcs_deactivate_layer, hcs_destroy_layer, Release,
       Innermost, Rank, Host!SetLayer, LInv, StageInv
  <1>4. UNCHANGED pc /\ UNCHANGED system
    BY <1>1 DEF hcs_unprepare_layer, hcs_deactivate_layer, hcs_destroy_layer, Release,
       Host!SetLayer
  <1> QED
    BY <1>2, <1>3, <1>4 DEF LifeStep, Life!Next, Life!Descend, Host!Live

(* The termination takes effect later; every other step of the unwinding   *)
(* passes the host by, and so does the death of the process, on the way    *)
(* down as it is.                                                          *)
LEMMA UnwindLife ==
  ASSUME ServiceObeys, LInv, Unwind \/ RelockOwnMutex \/ \E w \in Workers : TouchDestroyedLatch(w)
  PROVE  LifeStep
  <1>1. CASE Crash
    <2>1. pc \notin Calls
      BY <1>1, DiesUnwinding DEF LInv, Unwind, Return, Crash
    <2>2. pc \in {"unwind", "returned", "crashed"}
      BY <2>1 DEF LInv, CInv, IInv, ThreadTypeOK
    <2> QED BY <1>1, <2>2, Stutters DEF Crash, Host!Live
  <1>2. CASE ~Crash /\ hcs_terminate_compute_system
    <2>1. pc = "unwind" /\ pc' = pc
      BY <1>2 DEF hcs_terminate_compute_system, Terminating, Innermost, ownVars
    <2>2. \/ UNCHANGED hostVars
          \/ Succeeds("HcsTerminateComputeSystem") /\ Host!SetSystem("terminating")
      BY <1>2 DEF hcs_terminate_compute_system, hostVars
    <2>3. /\ UNCHANGED layer
          /\ \/ UNCHANGED system
             \/ system = "running" /\ system' = "terminating"
      BY <2>2 DEF hostVars, Succeeds, Host!Serves, Host!LocalFunctions, Host!SetSystem
    <2> QED BY <2>1, <2>3, Stutters DEF Host!Live
  <1>3. CASE ~Crash /\ (DestroyLatch \/ Return)
    <2>1. /\ UNCHANGED layer /\ UNCHANGED system
          /\ pc = "unwind" /\ pc' \in {"unwind", "returned"}
      BY <1>3 DEF DestroyLatch, Return, Innermost, hostVars
    <2> QED BY <2>1, Stutters DEF Host!Live
  <1>4. CASE ~Crash /\ (hcs_unprepare_layer \/ hcs_deactivate_layer \/ hcs_destroy_layer)
    BY <1>4, ReleaseLife
  <1> QED
    BY <1>1, <1>2, <1>3, <1>4 DEF Unwind, RelockOwnMutex, TouchDestroyedLatch

(* The last forward wait that returns is the turn; the rest of the latch   *)
(* is not the host's.                                                      *)
LEMMA LatchLife ==
  ASSUME \/ LockLatch \/ AwaitReturns \/ AwaitStep \/ SpuriousWakeup \/ Deliveries
         \/ \E w \in Workers : UnlockStep(w)
  PROVE  LifeStep
  <1>1. UNCHANGED layer /\ UNCHANGED system
    BY DEF LockLatch, AwaitReturns, AwaitStep, SpuriousWakeup, Deliveries, container_callback,
       Host!Deliver, UnlockStep, hostVars
  <1>2. CASE UNCHANGED pc
    BY <1>1, <1>2, Stutters DEF Host!Live
  <1>3. CASE AwaitReturns /\ pc' # "unwind"
    <2>1. \/ pc \in LatchedCalls /\ pc' = After[pc]
          \/ pc' = pc
      BY <1>3 DEF AwaitReturns, Proceed
    <2> QED BY <1>1, <1>3, <2>1, Stutters DEF After, LatchedCalls, Host!Live
  <1>4. CASE AwaitReturns /\ pc' = "unwind"
    <2>1. pc \in LatchedCalls \/ pc' = pc
      BY <1>4 DEF AwaitReturns, Proceed
    <2> QED
      BY <1>1, <1>2, <1>4, <2>1 DEF LatchedCalls, LifeStep, Life!Next, Life!Turn, Host!Live
  <1> QED
    BY <1>2, <1>3, <1>4 DEF LockLatch, AwaitStep, SpuriousWakeup, Deliveries,
       container_callback, UnlockStep, ownVars

(* A compute system ends by itself or by its termination, or goes on.      *)
LEMMA HostLife ==
  ASSUME HostStep \/ HostMay
  PROVE  LifeStep
  <1>1. /\ UNCHANGED layer /\ UNCHANGED pc
        /\ (Host!Live' <=> Host!Live) \/ (Host!Live /\ ~Host!Live')
    BY DEF HostStep, HostMay, Host!FinishCreate, Host!FinishStart, Host!FinishTerminate,
       Host!Finish, Host!SystemExits, Host!SystemStops, Host!ProcessExits, Host!Disconnect,
       ownVars, Host!Live
  <1>2. CASE Host!Live' <=> Host!Live
    BY <1>1, <1>2, Stutters
  <1>3. CASE Host!Live /\ ~Host!Live'
    BY <1>1, <1>3 DEF LifeStep, Life!Next, Life!Vacate, Host!Live
  <1> QED BY <1>1, <1>2, <1>3

(* While the service obeys, whatever other call fails and wherever, the    *)
(* layer is taken up stage by stage, let go in the reverse order, and not  *)
(* before the compute system on it is gone.                                *)
THEOREM HostKeptClean ==
  ASSUME ServiceObeys
  PROVE  SafeSpec => KeepsHostClean
  <1>1. Init => LInv /\ Life!Init
    <2> SUFFICES ASSUME Init PROVE StageInv /\ GuestInv /\ Life!Init
      BY InitCInv DEF LInv
    <2> QED
      BY DEF Init, Host!Init, StageInv, GuestInv, Calls, LatchedCalls, Host!Live, Life!Init
  <1>2. LInv /\ [Next]_vars => LifeStep
    <2> SUFFICES ASSUME LInv, [Next]_vars PROVE LifeStep
      OBVIOUS
    <2>1. CASE UNCHANGED vars
      BY <2>1, Stutters DEF vars, Host!Live
    <2> QED
      BY <2>1, ForwardLife, UnwindLife, LatchLife, HostLife DEF Next, ThreadStep, Crashed, Over
  <1> QED
    BY <1>1, <1>2, NextLInv, PTL DEF SafeSpec, KeepsHostClean, Life!Spec, LifeStep

(* While the service obeys, a failed spawn_and_wait leaves no compute      *)
(* system behind: the claim fails only by one of the excepted calls.       *)
THEOREM RollbackTerminates ==
  ASSUME ServiceObeys
  PROVE  SafeSpec => []RollbackTerminatesSystem
  <1>1. Init => LInv
    BY InitCInv
    DEF LInv, Init, Host!Init, StageInv, GuestInv, Calls, LatchedCalls, Host!Live
  <1>2. LInv => RollbackTerminatesSystem
    BY DEF LInv, CInv, IInv, ScopeInv, GuestInv, Calls, LatchedCalls, RollbackTerminatesSystem
  <1> QED
    BY <1>1, <1>2, NextLInv, PTL DEF SafeSpec

===============================================================================
