-------------------------- MODULE SpawnAndWait_proofs --------------------------
(***************************************************************************)
(* Proofs about spawn_and_wait, for any number of service threads and any  *)
(* set of calls that may be refused or missing.  The inductive invariant   *)
(* ties together the thread's position, the objects in its scope, and what *)
(* the service and the layer driver have been asked for.                   *)
(***************************************************************************)
EXTENDS SpawnAndWait, TLAPS

(* The thread is inside await.                                             *)
Awaiting == phase \in {"checking", "blocking", "asleep", "woken"}

(* While the thread is in await, its target is the type the function it    *)
(* is in waits for.                                                        *)
AwaitInv ==
  Awaiting => \/ pc = "HcsRegisterComputeSystemCallback" /\ target = "system_create_complete"
              \/ pc = "HcsStartComputeSystem" /\ target = "system_start_complete"
              \/ pc = "HcsRegisterProcessCallback" /\ target = "process_exit"
              \/ /\ pc = "unwind"
                 /\ "deferred_terminate_cs" \in scope
                 /\ target = "system_exit"

(* The objects in scope are a prefix of those spawn_and_wait declares, and *)
(* on the way up exactly those declared before the position.               *)
ScopeInv ==
  /\ "deferred_terminate_cs" \in scope => "cs_latch" \in scope
  /\ "cs_latch" \in scope => "deferred_unprepare_layer" \in scope
  /\ "deferred_unprepare_layer" \in scope => "deferred_deactivate_layer" \in scope
  /\ "deferred_deactivate_layer" \in scope => "deferred_destroy_layer" \in scope
  /\ pc \in {"NameToGuid", "CreateSandboxLayer", "returned"} => scope = {}
  /\ pc = "ActivateLayer" => scope = {"deferred_destroy_layer"}
  /\ pc = "PrepareLayer" => scope = {"deferred_destroy_layer", "deferred_deactivate_layer"}
  /\ pc \in {"GetLayerMountPath", "HcsCreateComputeSystem"}
       => "deferred_unprepare_layer" \in scope /\ "cs_latch" \notin scope
  /\ pc \in {"HcsRegisterComputeSystemCallback", "HcsStartComputeSystem"}
       => "cs_latch" \in scope /\ "deferred_terminate_cs" \notin scope
  /\ pc \in {"HcsEnumerateComputeSystems", "HcsCreateProcess", "HcsRegisterProcessCallback"}
       => "deferred_terminate_cs" \in scope

(* The layer is at the stage its clean-ups in scope undo, and gone or      *)
(* reported when none is left; nothing is reported on the way up.          *)
LayerInv ==
  /\ pc \in Calls => reported = {}
  /\ "deferred_unprepare_layer" \in scope => layer = "prepared"
  /\ IF "deferred_destroy_layer" \in scope
       THEN layer # "absent" /\ "DestroyLayer" \notin reported
       ELSE layer # "absent" <=> "DestroyLayer" \in reported

(* A service thread inside unlock has a type in hand.                      *)
NoteInv == \A w \in Workers : stage[w] # "idle" => note[w] # Latch!NoType

(* What has been heard of an operation, or is on its way, has happened.    *)
Heard(n) == n \in flag \/ n \in posted \/ \E w \in Workers : note[w] = n

HeardInv ==
  /\ Heard("system_create_complete") => system \notin {"absent", "creating"}
  /\ Heard("system_start_complete") => system \notin {"absent", "creating", "created", "starting"}
  /\ Heard("system_exit") => system = "exited"
  /\ Heard("process_exit") => process = "exited"

(* How far the compute system and its process are at each position.        *)
SystemInv ==
  /\ pc \in {"NameToGuid", "CreateSandboxLayer", "ActivateLayer", "PrepareLayer",
             "GetLayerMountPath", "HcsCreateComputeSystem"} => system = "absent"
  /\ pc = "HcsRegisterComputeSystemCallback" => system \in {"creating", "created", "failed"}
  /\ pc = "HcsStartComputeSystem"
       => system \in IF Awaiting THEN {"starting", "running", "failed", "exited"}
                                 ELSE {"created", "failed"}
  /\ pc \in {"HcsEnumerateComputeSystems", "HcsCreateProcess", "HcsRegisterProcessCallback"}
       => system \in {"running", "failed", "exited"}
  /\ pc \in Calls \ {"HcsRegisterProcessCallback"} => process = "absent"
  /\ pc \in {"unwind", "returned"} /\ ~threw => process = "exited"

(* A started container that no clean-up in scope will terminate has been   *)
(* reported, or its start is still awaited.                                *)
FateInv ==
  system \in {"starting", "running", "terminating"} /\ "deferred_terminate_cs" \notin scope
    => "HcsTerminateComputeSystem" \in reported \/ pc = "HcsStartComputeSystem"

(* The inductive invariant: none of its parts is inductive alone.          *)
IInv == /\ Latch!TypeOK
        /\ Host!TypeOK
        /\ ThreadTypeOK
        /\ AwaitInv
        /\ ScopeInv
        /\ LayerInv
        /\ NoteInv
        /\ HeardInv
        /\ SystemInv
        /\ FateInv

-------------------------------------------------------------------------------
(* The calls that are not awaited: each throws, or takes the layer, the    *)
(* compute system or the process, and the scope, one stage up.             *)
LEMMA ClimbIInv ==
  ASSUME IInv,
         \/ collect_acsendant_layers \/ hcs_create_layer \/ hcs_activate_layer
         \/ hcs_prepare_layer \/ hcs_get_layer_mount_path
         \/ hcs_create_compute_system
         \/ hcs_enumerate_compute_systems \/ hcs_create_process
  PROVE IInv'
  <1> USE SpawnAssumption DEF IInv, collect_acsendant_layers, hcs_create_layer,
          hcs_activate_layer, hcs_prepare_layer, hcs_get_layer_mount_path,
          hcs_create_compute_system, hcs_enumerate_compute_systems,
          hcs_create_process, Step, Host!SetLayer, Host!SetSystem,
          Host!StartProcess, latchVars, hostVars, Succeeds, Refused, Unbound,
          Proceed, Throw, Host!NoEffect, Host!vars
  <1>1. Latch!TypeOK'
    BY DEF Latch!TypeOK
  <1>2. Host!TypeOK'
    BY DEF Host!TypeOK
  <1>3. ThreadTypeOK'
    BY DEF ThreadTypeOK, Calls, LatchedCalls, Rank
  <1>4. AwaitInv'
    BY DEF AwaitInv, Awaiting
  <1>5. ScopeInv'
    BY DEF ScopeInv
  <1>6. LayerInv'
    BY DEF LayerInv, ScopeInv, Calls, LatchedCalls
  <1>7. NoteInv'
    BY DEF NoteInv, Latch!TypeOK
  <1>8. HeardInv'
    BY DEF HeardInv, Heard, SystemInv, Calls, LatchedCalls
  <1>9. SystemInv'
    BY DEF SystemInv, Awaiting, AwaitInv, Calls, LatchedCalls
  <1>10. FateInv'
    BY DEF FateInv, SystemInv, Awaiting, ScopeInv
  <1> QED BY <1>1, <1>2, <1>3, <1>4, <1>5, <1>6, <1>7, <1>8, <1>9, <1>10

(* The three calls made under the latch: accepted, the thread is in await  *)
(* for their notification, which nobody has heard of yet.                  *)
LEMMA RequestIInv ==
  ASSUME IInv,
         \/ hcs_register_compute_system_callback
         \/ hcs_start_compute_system
         \/ hcs_register_process_callback
  PROVE IInv'
  <1> USE SpawnAssumption DEF IInv, hcs_register_compute_system_callback,
          hcs_start_compute_system, hcs_register_process_callback, Request,
          Latch!Await, Latch!Cancel, Host!Register, Host!Serves,
          Host!LocalFunctions, Host!SetSystem, Succeeds, Refused, Unbound,
          Proceed, Throw, Host!NoEffect, Host!vars
  <1>1. Latch!TypeOK'
    BY DEF Latch!TypeOK
  <1>2. Host!TypeOK'
    BY DEF Host!TypeOK
  <1>3. ThreadTypeOK'
    BY DEF ThreadTypeOK, Calls, LatchedCalls, Rank
  <1>4. AwaitInv'
    BY DEF AwaitInv, Awaiting
  <1>5. ScopeInv'
    BY DEF ScopeInv
  <1>6. LayerInv'
    BY DEF LayerInv, ScopeInv, Calls, LatchedCalls
  <1>7. NoteInv'
    BY DEF NoteInv, Latch!TypeOK
  <1>8. HeardInv'
    BY DEF HeardInv, Heard
  <1>9. SystemInv'
    BY DEF SystemInv, Awaiting, AwaitInv, Calls, LatchedCalls
  <1>10. FateInv'
    BY DEF FateInv, SystemInv, Awaiting, ScopeInv
  <1> QED BY <1>1, <1>2, <1>3, <1>4, <1>5, <1>6, <1>7, <1>8, <1>9, <1>10

(* The process dies.  It is on the way down and not inside await.          *)
LEMMA CrashIInv ==
  ASSUME IInv, Crash, ~Awaiting, pc # "HcsStartComputeSystem"
  PROVE IInv'
  <1> USE SpawnAssumption DEF IInv, Crash
  <1>1. Latch!TypeOK'
    BY DEF Latch!TypeOK
  <1>2. Host!TypeOK'
    BY DEF Host!TypeOK
  <1>3. ThreadTypeOK'
    BY DEF ThreadTypeOK, Calls, LatchedCalls, Rank
  <1>4. AwaitInv'
    BY DEF AwaitInv, Awaiting
  <1>5. ScopeInv'
    BY DEF ScopeInv
  <1>6. LayerInv'
    BY DEF LayerInv, ScopeInv, Calls, LatchedCalls
  <1>7. NoteInv'
    BY DEF NoteInv, Latch!TypeOK
  <1>8. HeardInv'
    BY DEF HeardInv, Heard
  <1>9. SystemInv'
    BY DEF SystemInv, Awaiting, AwaitInv, Calls, LatchedCalls
  <1>10. FateInv'
    BY DEF FateInv, SystemInv, Awaiting, ScopeInv
  <1> QED BY <1>1, <1>2, <1>3, <1>4, <1>5, <1>6, <1>7, <1>8, <1>9, <1>10

(* The termination of the compute system is accepted and awaited, or       *)
(* refused and reported.                                                   *)
LEMMA TerminateIInv ==
  ASSUME IInv, hcs_terminate_compute_system, ~Crash
  PROVE IInv'
  <1> USE SpawnAssumption DEF IInv, hcs_terminate_compute_system, Terminating,
          Innermost, Rank, Latch!Await, Latch!Cancel, Host!Serves,
          Host!LocalFunctions, Host!SetSystem, hostVars, ownVars, Succeeds,
          Refused, Unbound, Proceed, Throw, Host!NoEffect, Host!vars
  <1>1. Latch!TypeOK'
    BY DEF Latch!TypeOK
  <1>2. Host!TypeOK'
    BY DEF Host!TypeOK
  <1>3. ThreadTypeOK'
    BY DEF ThreadTypeOK, Calls, LatchedCalls, Rank, ReleaseCalls
  <1>4. AwaitInv'
    BY DEF AwaitInv, Awaiting
  <1>5. ScopeInv'
    BY DEF ScopeInv
  <1>6. LayerInv'
    BY DEF LayerInv, ScopeInv, Calls, LatchedCalls
  <1>7. NoteInv'
    BY DEF NoteInv, Latch!TypeOK
  <1>8. HeardInv'
    BY DEF HeardInv, Heard
  <1>9. SystemInv'
    BY DEF SystemInv, Awaiting, AwaitInv, Calls, LatchedCalls
  <1>10. FateInv'
    BY DEF FateInv, SystemInv, Awaiting, ScopeInv
  <1> QED BY <1>1, <1>2, <1>3, <1>4, <1>5, <1>6, <1>7, <1>8, <1>9, <1>10

(* await returns: its flag is set, so the operation has ended.             *)
LEMMA AwaitReturnsIInv ==
  ASSUME IInv, AwaitReturns
  PROVE IInv'
  <1> USE SpawnAssumption DEF IInv, AwaitReturns, Latch!WaitEnds, After,
          Declares, Terminating, Innermost, Rank, LatchedCalls, hostVars,
          Proceed
  <1>1. Latch!TypeOK'
    BY DEF Latch!TypeOK
  <1>2. Host!TypeOK'
    BY DEF Host!TypeOK
  <1>3. ThreadTypeOK'
    BY DEF ThreadTypeOK, Calls, LatchedCalls, Rank
  <1>4. AwaitInv'
    BY DEF AwaitInv, Awaiting
  <1>5. ScopeInv'
    BY DEF ScopeInv, AwaitInv, Awaiting
  <1>6. LayerInv'
    BY DEF LayerInv, ScopeInv, Calls, LatchedCalls
  <1>7. NoteInv'
    BY DEF NoteInv, Latch!TypeOK
  <1>8. HeardInv'
    BY DEF HeardInv, Heard
  <1>9. SystemInv'
    BY DEF SystemInv, Awaiting, AwaitInv, Calls, LatchedCalls, HeardInv, Heard
  <1>10. FateInv'
    BY DEF FateInv, SystemInv, Awaiting, ScopeInv, HeardInv, Heard, AwaitInv
  <1> QED BY <1>1, <1>2, <1>3, <1>4, <1>5, <1>6, <1>7, <1>8, <1>9, <1>10

(* Steps inside the latch move nothing but the latch: what they have heard *)
(* was heard before.                                                       *)
LEMMA LatchIInv ==
  ASSUME IInv,
         \/ LockLatch \/ AwaitStep \/ SpuriousWakeup
         \/ \E w \in Workers : UnlockStep(w)
  PROVE IInv'
  <1> USE SpawnAssumption DEF IInv, LockLatch, AwaitStep, SpuriousWakeup,
          UnlockStep, Latch!Lock, Latch!WaitGoesOn, Latch!Sleep,
          Latch!Reacquire, Latch!SpuriousWakeup, Latch!UnlockStep,
          Latch!SetFlag, Latch!TakeMutex, Latch!NotifyAll, hostVars, ownVars
  <1>1. Latch!TypeOK'
    BY DEF Latch!TypeOK, NoteInv
  <1>2. Host!TypeOK'
    BY DEF Host!TypeOK
  <1>3. ThreadTypeOK'
    BY DEF ThreadTypeOK, Calls, LatchedCalls, Rank
  <1>4. AwaitInv'
    BY DEF AwaitInv, Awaiting
  <1>5. ScopeInv'
    BY DEF ScopeInv
  <1>6. LayerInv'
    BY DEF LayerInv, ScopeInv, Calls, LatchedCalls
  <1>7. NoteInv'
    BY DEF NoteInv, Latch!TypeOK
  <1>8. HeardInv'
    BY DEF HeardInv, Heard, Latch!TypeOK, Latch!NoType
  <1>9. SystemInv'
    BY DEF SystemInv, Awaiting, AwaitInv, Calls, LatchedCalls
  <1>10. FateInv'
    BY DEF FateInv, SystemInv, Awaiting, ScopeInv
  <1> QED BY <1>1, <1>2, <1>3, <1>4, <1>5, <1>6, <1>7, <1>8, <1>9, <1>10

(* A delivery moves a notification from the service to a thread.           *)
LEMMA CallbackIInv ==
  ASSUME IInv, NEW w \in Workers,
         NEW n \in Host!AwaitedTypes \cup Host!IgnoredTypes,
         container_callback(w, n)
  PROVE IInv'
  <1> USE SpawnAssumption DEF IInv, container_callback, Host!Deliver,
          Latch!Callback, ownVars, Host!AwaitedTypes, Host!IgnoredTypes
  <1>1. Latch!TypeOK'
    BY DEF Latch!TypeOK
  <1>2. Host!TypeOK'
    BY DEF Host!TypeOK
  <1>3. ThreadTypeOK'
    BY DEF ThreadTypeOK, Calls, LatchedCalls, Rank
  <1>4. AwaitInv'
    BY DEF AwaitInv, Awaiting
  <1>5. ScopeInv'
    BY DEF ScopeInv
  <1>6. LayerInv'
    BY DEF LayerInv, ScopeInv, Calls, LatchedCalls
  <1>7. NoteInv'
    BY DEF NoteInv, Latch!TypeOK, Latch!NoType
  <1>8. HeardInv'
    BY DEF HeardInv, Heard, Latch!TypeOK, Latch!NoType
  <1>9. SystemInv'
    BY DEF SystemInv, Awaiting, AwaitInv, Calls, LatchedCalls
  <1>10. FateInv'
    BY DEF FateInv, SystemInv, Awaiting, ScopeInv
  <1> QED BY <1>1, <1>2, <1>3, <1>4, <1>5, <1>6, <1>7, <1>8, <1>9, <1>10

(* What the service does by itself: the compute system and the process     *)
(* only go on, and each notification is posted when it has become true.    *)
LEMMA HostIInv ==
  ASSUME IInv, HostStep \/ HostMay
  PROVE IInv'
  <1> USE SpawnAssumption DEF IInv, HostStep, HostMay, Host!FinishCreate,
          Host!FinishStart, Host!FinishTerminate, Host!Finish, Host!SystemExits,
          Host!SystemStops, Host!ProcessExits, Host!Disconnect,
          Host!AwaitedTypes, Host!IgnoredTypes, latchVars, ownVars
  <1>1. Latch!TypeOK'
    BY DEF Latch!TypeOK
  <1>2. Host!TypeOK'
    BY DEF Host!TypeOK
  <1>3. ThreadTypeOK'
    BY DEF ThreadTypeOK, Calls, LatchedCalls, Rank
  <1>4. AwaitInv'
    BY DEF AwaitInv, Awaiting
  <1>5. ScopeInv'
    BY DEF ScopeInv
  <1>6. LayerInv'
    BY DEF LayerInv, ScopeInv, Calls, LatchedCalls
  <1>7. NoteInv'
    BY DEF NoteInv, Latch!TypeOK
  <1>8. HeardInv'
    BY DEF HeardInv, Heard
  <1>9. SystemInv'
    BY DEF SystemInv, Awaiting, AwaitInv, Calls, LatchedCalls
  <1>10. FateInv'
    BY DEF FateInv, SystemInv, Awaiting, ScopeInv
  <1> QED BY <1>1, <1>2, <1>3, <1>4, <1>5, <1>6, <1>7, <1>8, <1>9, <1>10

(* The clean-ups of the layer and the end of the latch, innermost first.   *)
LEMMA UnwindIInv ==
  ASSUME IInv, ~Crash,
         \/ DestroyLatch \/ hcs_unprepare_layer \/ hcs_deactivate_layer
         \/ hcs_destroy_layer \/ Return
  PROVE IInv'
  <1> USE SpawnAssumption DEF IInv, DestroyLatch, hcs_unprepare_layer,
          hcs_deactivate_layer, hcs_destroy_layer, Return, Release, Innermost,
          Rank, Host!SetLayer, hostVars, latchVars, Succeeds, Refused, Unbound,
          Proceed, Throw, Host!NoEffect, Host!vars
  <1>1. Latch!TypeOK'
    BY DEF Latch!TypeOK
  <1>2. Host!TypeOK'
    BY DEF Host!TypeOK
  <1>3. ThreadTypeOK'
    BY DEF ThreadTypeOK, Calls, LatchedCalls, Rank, ReleaseCalls
  <1>4. AwaitInv'
    BY DEF AwaitInv, Awaiting, ScopeInv
  <1>5. ScopeInv'
    BY DEF ScopeInv
  <1>6. LayerInv'
    BY DEF LayerInv, ScopeInv, Calls, LatchedCalls
  <1>7. NoteInv'
    BY DEF NoteInv, Latch!TypeOK
  <1>8. HeardInv'
    BY DEF HeardInv, Heard
  <1>9. SystemInv'
    BY DEF SystemInv, Awaiting, AwaitInv, Calls, LatchedCalls
  <1>10. FateInv'
    BY DEF FateInv, SystemInv, Awaiting, ScopeInv
  <1> QED BY <1>1, <1>2, <1>3, <1>4, <1>5, <1>6, <1>7, <1>8, <1>9, <1>10

(* The invariant holds before the first call.                              *)
LEMMA InitIInv == Init => IInv
  BY SpawnAssumption
  DEF Init, Latch!Init, Host!Init, IInv, Latch!TypeOK, Host!TypeOK, ThreadTypeOK, Calls,
      LatchedCalls, Rank, AwaitInv, Awaiting, ScopeInv, LayerInv, NoteInv, HeardInv, Heard,
      SystemInv, FateInv, Latch!Nobody, Latch!NoType

(* A process that has died, or a call that is over, changes nothing.       *)
LEMMA StutterIInv == ASSUME IInv, UNCHANGED vars PROVE IInv'
  BY DEF vars, IInv, Latch!TypeOK, Host!TypeOK, ThreadTypeOK, AwaitInv, Awaiting, ScopeInv,
         LayerInv, NoteInv, HeardInv, Heard, SystemInv, FateInv

(* The steps that may kill the process are steps of the unwinding, outside *)
(* await, or need a latch that has been destroyed.                         *)
LEMMA CrashAllowed ==
  ASSUME IInv, Crash,
         \/ hcs_terminate_compute_system \/ RelockOwnMutex \/ DestroyLatch
         \/ hcs_unprepare_layer \/ hcs_deactivate_layer \/ hcs_destroy_layer
         \/ \E w \in Workers : TouchDestroyedLatch(w)
  PROVE  ~Awaiting /\ pc # "HcsStartComputeSystem"
  BY DEF IInv, AwaitInv, Awaiting, ScopeInv, hcs_terminate_compute_system, RelockOwnMutex,
         DestroyLatch, hcs_unprepare_layer, hcs_deactivate_layer, hcs_destroy_layer, Release,
         TouchDestroyedLatch, LatchAlive, Terminating, Innermost, Rank

(* Every step keeps the invariant.                                         *)
LEMMA NextIInv == IInv /\ [Next]_vars => IInv'
  <1> SUFFICES ASSUME IInv, [Next]_vars PROVE IInv'
    OBVIOUS
  <1>1. CASE Forward
    BY <1>1, ClimbIInv, RequestIInv DEF Forward
  <1>2. CASE Unwind
    BY <1>2, TerminateIInv, UnwindIInv, CrashIInv, CrashAllowed DEF Unwind, Return, Crash
  <1>3. CASE RelockOwnMutex
    BY <1>3, CrashIInv, CrashAllowed DEF RelockOwnMutex
  <1>4. CASE AwaitReturns
    BY <1>4, AwaitReturnsIInv
  <1>5. CASE LockLatch \/ AwaitStep \/ SpuriousWakeup \/ \E w \in Workers : UnlockStep(w)
    BY <1>5, LatchIInv
  <1>6. CASE Deliveries
    BY <1>6, CallbackIInv DEF Deliveries
  <1>7. ASSUME NEW w \in Workers, TouchDestroyedLatch(w) PROVE IInv'
    BY <1>7, CrashIInv, CrashAllowed DEF TouchDestroyedLatch
  <1>8. CASE HostStep \/ HostMay
    BY <1>8, HostIInv
  <1>9. CASE UNCHANGED vars
    BY <1>9, StutterIInv
  <1> QED
    BY <1>1, <1>2, <1>3, <1>4, <1>5, <1>6, <1>7, <1>8, <1>9 DEF Next, ThreadStep, Crashed, Over

(* The program and the service keep the invariant for ever.                *)
THEOREM Invariant == SafeSpec => []IInv
  BY InitIInv, NextIInv, PTL DEF SafeSpec

-------------------------------------------------------------------------------
(* Every variable keeps its type, whatever fails.                          *)
THEOREM TypeCorrect == SafeSpec => []TypeOK
  <1>1. IInv => TypeOK
    BY DEF IInv, TypeOK
  <1> QED BY <1>1, Invariant, PTL

(* Each of the three waits of spawn_and_wait has waited for what it says,  *)
(* whatever fails and however the service orders its notifications.        *)
THEOREM WaitsEnd == SafeSpec => []WaitsHaveEnded
  <1>1. IInv => WaitsHaveEnded
    BY DEF IInv, WaitsHaveEnded, SystemInv, ScopeInv, Awaiting
  <1> QED BY <1>1, Invariant, PTL

(* The layer is not taken from under a started container, unless its       *)
(* termination was reported to have failed.                                *)
THEOREM LayerOutlives == SafeSpec => []LayerOutlivesSystem
  <1>1. IInv => LayerOutlivesSystem
    BY DEF IInv, LayerOutlivesSystem, FateInv, LayerInv, ScopeInv
  <1> QED BY <1>1, Invariant, PTL

(* A call that is over has left the sandbox layer behind if and only if it *)
(* has reported that its destruction failed.                               *)
THEOREM LayerLeft == SafeSpec => []LayerLeftIffReported
  <1>1. IInv => LayerLeftIffReported
    BY DEF IInv, LayerLeftIffReported, LayerInv, ScopeInv
  <1> QED BY <1>1, Invariant, PTL

-------------------------------------------------------------------------------
(* Late callbacks.  The notifications the service still owes are followed  *)
(* from the registration to the flag.                                      *)

(* The positions before there is a compute system.                         *)
Preparing == {"NameToGuid", "CreateSandboxLayer", "ActivateLayer", "PrepareLayer",
              "GetLayerMountPath", "HcsCreateComputeSystem"}

Setting(w, n) == stage[w] = "setting" /\ note[w] = n

(* A notification is in one place: posted, with one thread that is about   *)
(* to set its flag, or set.                                                *)
OnceInv ==
  \A n \in Host!AwaitedTypes :
    /\ n \in flag => n \notin posted /\ \A w \in Workers : ~Setting(w, n)
    /\ n \in posted => \A w \in Workers : ~Setting(w, n)
    /\ \A v, w \in Workers : Setting(v, n) /\ Setting(w, n) => v = w

(* Only a registered callback is called, and until they are registered     *)
(* there is none.                                                          *)
RegisteredInv ==
  /\ \A w \in Workers : /\ note[w] = "process_exit" => "process" \in registered
                        /\ note[w] \notin {"process_exit", Latch!NoType}
                             => "system" \in registered
  /\ pc \in Preparing => registered = {}
  /\ pc = "HcsRegisterComputeSystemCallback" /\ ~Awaiting => registered = {}
  /\ pc \in Calls /\ ~(pc = "HcsRegisterProcessCallback" /\ Awaiting)
       => "process" \notin registered

(* What the thread has waited for at each position.                        *)
WaitedInv ==
  /\ pc = "HcsStartComputeSystem" => "system_create_complete" \in flag
  /\ "deferred_terminate_cs" \in scope
       => {"system_create_complete", "system_start_complete"} \subseteq flag
  /\ pc = "unwind" /\ "deferred_terminate_cs" \in scope /\ "process" \in registered
       => "process_exit" \in flag
  /\ pc \in Preparing \cup {"HcsRegisterComputeSystemCallback"}
       => ~Heard("system_start_complete")
  /\ pc = "HcsStartComputeSystem" /\ ~Awaiting => ~Heard("system_start_complete")

(* On the way down, once the compute system needs no termination any more  *)
(* and no failure was reported, nothing more will be notified: nothing is  *)
(* registered, or the container was created and never started, or all that *)
(* was begun has ended and was waited for.                                 *)
SettledInv ==
  /\ pc \in {"unwind", "returned", "crashed"}
  /\ "deferred_terminate_cs" \notin scope
  /\ "HcsTerminateComputeSystem" \notin reported
  => \/ registered = {}
     \/ /\ "system_create_complete" \in flag
        /\ ~Heard("system_start_complete")
        /\ system \in {"created", "failed"}
        /\ process = "absent"
     \/ /\ {"system_create_complete", "system_start_complete", "system_exit"} \subseteq flag
        /\ system = "exited"
        /\ "process" \in registered => "process_exit" \in flag

(* IInv with these four parts is inductive again.                          *)
CInv == IInv /\ OnceInv /\ RegisteredInv /\ WaitedInv /\ SettledInv

(* The calls that are not awaited register nothing.                        *)
LEMMA ClimbCInv ==
  ASSUME CInv, IInv',
         \/ collect_acsendant_layers \/ hcs_create_layer \/ hcs_activate_layer
         \/ hcs_prepare_layer \/ hcs_get_layer_mount_path
         \/ hcs_create_compute_system
         \/ hcs_enumerate_compute_systems \/ hcs_create_process
  PROVE CInv'
  <1> USE SpawnAssumption DEF CInv, IInv, collect_acsendant_layers,
          hcs_create_layer, hcs_activate_layer, hcs_prepare_layer,
          hcs_get_layer_mount_path, hcs_create_compute_system,
          hcs_enumerate_compute_systems, hcs_create_process, Step,
          Host!SetLayer, Host!SetSystem, Host!StartProcess, latchVars, hostVars,
          Succeeds, Refused, Unbound, Proceed, Throw, Host!NoEffect, Host!vars
  <1>1. OnceInv'
    BY DEF OnceInv, Setting
  <1>2. RegisteredInv'
    BY DEF RegisteredInv, Preparing, Awaiting, Calls, LatchedCalls
  <1>3. WaitedInv'
    BY DEF WaitedInv, Preparing, Awaiting, Heard, ScopeInv, RegisteredInv,
           Calls, LatchedCalls
  <1>4. SettledInv'
    BY DEF SettledInv, WaitedInv, Preparing, RegisteredInv, ScopeInv, SystemInv,
           Awaiting, AwaitInv, Calls, LatchedCalls, Heard, HeardInv
  <1> QED BY <1>1, <1>2, <1>3, <1>4

(* A registration lets notifications through; a refusal or a missing     *)
(* export before it leaves nothing to be notified.                         *)
LEMMA RequestCInv ==
  ASSUME CInv, IInv',
         \/ hcs_register_compute_system_callback
         \/ hcs_start_compute_system
         \/ hcs_register_process_callback
  PROVE CInv'
  <1> USE SpawnAssumption DEF CInv, IInv, hcs_register_compute_system_callback,
          hcs_start_compute_system, hcs_register_process_callback, Request,
          Latch!Await, Latch!Cancel, Host!Register, Host!Serves,
          Host!LocalFunctions, Host!SetSystem, Succeeds, Refused, Unbound,
          Proceed, Throw, Host!NoEffect, Host!vars
  <1>1. OnceInv'
    BY DEF OnceInv, Setting
  <1>2. RegisteredInv'
    BY DEF RegisteredInv, Preparing, Awaiting, Calls, LatchedCalls
  <1>3. WaitedInv'
    BY DEF WaitedInv, Preparing, Awaiting, Heard, ScopeInv, HeardInv, SystemInv,
           RegisteredInv, Calls, LatchedCalls
  <1>4. SettledInv'
    BY DEF SettledInv, WaitedInv, Preparing, RegisteredInv, ScopeInv, SystemInv,
           Awaiting, AwaitInv, Calls, LatchedCalls, Heard, HeardInv
  <1> QED BY <1>1, <1>2, <1>3, <1>4

(* A dead process is where it was on the way down.                         *)
LEMMA CrashCInv ==
  ASSUME CInv, IInv', Crash, ~Awaiting, pc \notin Calls
  PROVE CInv'
  <1> USE SpawnAssumption DEF CInv, IInv, Crash
  <1>1. OnceInv'
    BY DEF OnceInv, Setting
  <1>2. RegisteredInv'
    BY DEF RegisteredInv, Preparing, Awaiting, Calls, LatchedCalls
  <1>3. WaitedInv'
    BY DEF WaitedInv, Preparing, Awaiting, Heard, ScopeInv
  <1>4. SettledInv'
    BY DEF SettledInv, WaitedInv, Preparing, RegisteredInv, ScopeInv, SystemInv,
           Awaiting, AwaitInv, Calls, LatchedCalls, Heard, HeardInv,
           ThreadTypeOK
  <1> QED BY <1>1, <1>2, <1>3, <1>4

(* The termination is awaited, or its refusal is reported.                 *)
LEMMA TerminateCInv ==
  ASSUME CInv, IInv', hcs_terminate_compute_system, ~Crash
  PROVE CInv'
  <1> USE SpawnAssumption DEF CInv, IInv, hcs_terminate_compute_system,
          Terminating, Innermost, Rank, Latch!Await, Latch!Cancel, Host!Serves,
          Host!LocalFunctions, Host!SetSystem, hostVars, ownVars, Succeeds,
          Refused, Unbound, Proceed, Throw, Host!NoEffect, Host!vars
  <1>1. OnceInv'
    BY DEF OnceInv, Setting
  <1>2. RegisteredInv'
    BY DEF RegisteredInv, Preparing, Awaiting, Calls, LatchedCalls
  <1>3. WaitedInv'
    BY DEF WaitedInv, Preparing, Awaiting, Heard, ScopeInv
  <1>4. SettledInv'
    BY DEF SettledInv, WaitedInv, Preparing, RegisteredInv, ScopeInv, SystemInv,
           Awaiting, AwaitInv, Calls, LatchedCalls, Heard, HeardInv
  <1> QED BY <1>1, <1>2, <1>3, <1>4

(* What was awaited is set; after the last wait the compute system has     *)
(* exited.                                                                 *)
LEMMA AwaitReturnsCInv ==
  ASSUME CInv, IInv', AwaitReturns
  PROVE CInv'
  <1> USE SpawnAssumption DEF CInv, IInv, AwaitReturns, Latch!WaitEnds, After,
          Declares, Terminating, Innermost, Rank, LatchedCalls, hostVars,
          Proceed
  <1>1. OnceInv'
    BY DEF OnceInv, Setting
  <1>2. RegisteredInv'
    BY DEF RegisteredInv, Preparing, Awaiting, Calls, LatchedCalls
  <1>3. WaitedInv'
    BY DEF WaitedInv, Preparing, Awaiting, Heard, ScopeInv, AwaitInv, HeardInv,
           SystemInv
  <1>4. SettledInv'
    BY DEF SettledInv, WaitedInv, Preparing, RegisteredInv, ScopeInv, SystemInv,
           Awaiting, AwaitInv, Calls, LatchedCalls, Heard, HeardInv
  <1> QED BY <1>1, <1>2, <1>3, <1>4

(* A flag is set by the one thread that has its notification.              *)
LEMMA LatchCInv ==
  ASSUME CInv, IInv',
         \/ LockLatch \/ AwaitStep \/ SpuriousWakeup
         \/ \E w \in Workers : UnlockStep(w)
  PROVE CInv'
  <1> USE SpawnAssumption DEF CInv, IInv, LockLatch, AwaitStep, SpuriousWakeup,
          UnlockStep, Latch!Lock, Latch!WaitGoesOn, Latch!Sleep,
          Latch!Reacquire, Latch!SpuriousWakeup, Latch!UnlockStep,
          Latch!SetFlag, Latch!TakeMutex, Latch!NotifyAll, hostVars, ownVars
  <1>1. OnceInv'
    BY DEF OnceInv, Setting, Latch!TypeOK, Host!AwaitedTypes, Latch!NoType,
           NoteInv
  <1>2. RegisteredInv'
    BY DEF RegisteredInv, Preparing, Awaiting, Calls, LatchedCalls,
           Latch!TypeOK, Host!AwaitedTypes, Latch!NoType, NoteInv
  <1>3. WaitedInv'
    BY DEF WaitedInv, Preparing, Awaiting, Heard, ScopeInv, Latch!TypeOK,
           Host!AwaitedTypes, Latch!NoType, NoteInv
  <1>4. SettledInv'
    BY DEF SettledInv, WaitedInv, Preparing, RegisteredInv, ScopeInv, SystemInv,
           Awaiting, AwaitInv, Calls, LatchedCalls, Heard, HeardInv,
           Latch!TypeOK, Host!AwaitedTypes, Latch!NoType, NoteInv
  <1> QED BY <1>1, <1>2, <1>3, <1>4

(* A delivery takes the notification away from the service.                *)
LEMMA CallbackCInv ==
  ASSUME CInv, IInv', NEW w \in Workers,
         NEW n \in Host!AwaitedTypes \cup Host!IgnoredTypes,
         container_callback(w, n)
  PROVE CInv'
  <1> USE SpawnAssumption DEF CInv, IInv, container_callback, Host!Deliver,
          Latch!Callback, ownVars, Host!AwaitedTypes, Host!IgnoredTypes
  <1>1. OnceInv'
    BY DEF OnceInv, Setting, Latch!TypeOK, Host!AwaitedTypes, Latch!NoType
  <1>2. RegisteredInv'
    BY DEF RegisteredInv, Preparing, Awaiting, Calls, LatchedCalls,
           Latch!TypeOK, Host!AwaitedTypes, Latch!NoType
  <1>3. WaitedInv'
    BY DEF WaitedInv, Preparing, Awaiting, Heard, ScopeInv, Latch!TypeOK,
           Host!AwaitedTypes, Latch!NoType
  <1>4. SettledInv'
    BY DEF SettledInv, WaitedInv, Preparing, RegisteredInv, ScopeInv, SystemInv,
           Awaiting, AwaitInv, Calls, LatchedCalls, Heard, HeardInv,
           Latch!TypeOK, Host!AwaitedTypes, Latch!NoType
  <1> QED BY <1>1, <1>2, <1>3, <1>4

(* What is posted has not been heard before: the system or the process has *)
(* only just got there.                                                    *)
LEMMA HostCInv ==
  ASSUME CInv, IInv', HostStep \/ HostMay
  PROVE CInv'
  <1> USE SpawnAssumption DEF CInv, IInv, HostStep, HostMay, Host!FinishCreate,
          Host!FinishStart, Host!FinishTerminate, Host!Finish, Host!SystemExits,
          Host!SystemStops, Host!ProcessExits, Host!Disconnect,
          Host!AwaitedTypes, Host!IgnoredTypes, latchVars, ownVars
  <1>1. OnceInv'
    BY DEF OnceInv, Setting, Latch!TypeOK, Host!AwaitedTypes, Latch!NoType,
           HeardInv, Heard, SystemInv
  <1>2. RegisteredInv'
    BY DEF RegisteredInv, Preparing, Awaiting, Calls, LatchedCalls,
           Latch!TypeOK, Host!AwaitedTypes, Latch!NoType, HeardInv, Heard,
           SystemInv
  <1>3. WaitedInv'
    BY DEF WaitedInv, Preparing, Awaiting, Heard, ScopeInv, Latch!TypeOK,
           Host!AwaitedTypes, Latch!NoType, HeardInv, Heard, SystemInv
  <1>4. SettledInv'
    BY DEF SettledInv, WaitedInv, Preparing, RegisteredInv, ScopeInv, SystemInv,
           Awaiting, AwaitInv, Calls, LatchedCalls, Heard, HeardInv,
           Latch!TypeOK, Host!AwaitedTypes, Latch!NoType
  <1> QED BY <1>1, <1>2, <1>3, <1>4

(* The other clean-ups change nothing a notification could come from.      *)
LEMMA UnwindCInv ==
  ASSUME CInv, IInv', ~Crash,
         \/ DestroyLatch \/ hcs_unprepare_layer \/ hcs_deactivate_layer
         \/ hcs_destroy_layer \/ Return
  PROVE CInv'
  <1> USE SpawnAssumption DEF CInv, IInv, DestroyLatch, hcs_unprepare_layer,
          hcs_deactivate_layer, hcs_destroy_layer, Return, Release, Innermost,
          Rank, Host!SetLayer, hostVars, latchVars, Succeeds, Refused, Unbound,
          Proceed, Throw, Host!NoEffect, Host!vars
  <1>1. OnceInv'
    BY DEF OnceInv, Setting
  <1>2. RegisteredInv'
    BY DEF RegisteredInv, Preparing, Awaiting, Calls, LatchedCalls
  <1>3. WaitedInv'
    BY DEF WaitedInv, Preparing, Awaiting, Heard, ScopeInv
  <1>4. SettledInv'
    BY DEF SettledInv, WaitedInv, Preparing, RegisteredInv, ScopeInv, SystemInv,
           Awaiting, AwaitInv, Calls, LatchedCalls, Heard, HeardInv
  <1> QED BY <1>1, <1>2, <1>3, <1>4

(* The invariant holds before the first call.                              *)
LEMMA InitCInv == Init => CInv
  <1> SUFFICES ASSUME Init PROVE CInv
    OBVIOUS
  <1>1. IInv
    BY InitIInv
  <1>2. OnceInv /\ RegisteredInv /\ WaitedInv /\ SettledInv
    BY DEF Init, Latch!Init, Host!Init, OnceInv, Setting, RegisteredInv, Preparing, Calls,
           LatchedCalls, WaitedInv, Heard, SettledInv, Awaiting, Latch!NoType
  <1> QED BY <1>1, <1>2 DEF CInv

(* A process that has died, or a call that is over, changes nothing.       *)
LEMMA StutterCInv == ASSUME CInv, UNCHANGED vars PROVE CInv'
  BY StutterIInv
  DEF vars, CInv, OnceInv, Setting, RegisteredInv, WaitedInv, Heard, SettledInv, Awaiting

(* The process dies only on the way down: before a callback is registered  *)
(* no thread is in unlock, and from then on the latch is alive.            *)
LEMMA DiesUnwinding ==
  ASSUME CInv, Crash,
         \/ hcs_terminate_compute_system \/ RelockOwnMutex \/ DestroyLatch
         \/ hcs_unprepare_layer \/ hcs_deactivate_layer \/ hcs_destroy_layer
         \/ \E w \in Workers : TouchDestroyedLatch(w)
  PROVE  pc \notin Calls
  <1>1. CASE pc = "unwind"
    BY <1>1 DEF Calls, LatchedCalls
  <1>2. ASSUME NEW w \in Workers, TouchDestroyedLatch(w) PROVE pc \notin Calls
    <2>1. note[w] \in Host!AwaitedTypes
      BY <1>2 DEF CInv, IInv, NoteInv, Latch!TypeOK, TouchDestroyedLatch, Host!AwaitedTypes
    <2>2. registered # {} /\ pc \notin Preparing
      BY <2>1 DEF CInv, RegisteredInv, Host!AwaitedTypes, Latch!NoType
    <2> QED
      BY <1>2, <2>2 DEF TouchDestroyedLatch, LatchAlive, CInv, IInv, ScopeInv, Preparing, Calls,
                        LatchedCalls
  <1> QED
    BY <1>1, <1>2 DEF hcs_terminate_compute_system, RelockOwnMutex, DestroyLatch,
       hcs_unprepare_layer, hcs_deactivate_layer, hcs_destroy_layer, Release, Terminating, Innermost

(* Every step keeps the invariant.                                         *)
LEMMA NextCInv == CInv /\ [Next]_vars => CInv'
  <1> SUFFICES ASSUME CInv, [Next]_vars PROVE CInv'
    OBVIOUS
  <1>0. IInv'
    BY NextIInv DEF CInv
  <1>1. CASE Forward
    BY <1>0, <1>1, ClimbCInv, RequestCInv DEF Forward
  <1>2. CASE Unwind
    BY <1>0, <1>2, TerminateCInv, UnwindCInv, CrashCInv, CrashAllowed, DiesUnwinding
    DEF Unwind, Return, Crash, CInv
  <1>3. CASE RelockOwnMutex
    BY <1>0, <1>3, CrashCInv, CrashAllowed, DiesUnwinding DEF RelockOwnMutex, CInv
  <1>4. CASE AwaitReturns
    BY <1>0, <1>4, AwaitReturnsCInv
  <1>5. CASE LockLatch \/ AwaitStep \/ SpuriousWakeup \/ \E w \in Workers : UnlockStep(w)
    BY <1>0, <1>5, LatchCInv
  <1>6. CASE Deliveries
    BY <1>0, <1>6, CallbackCInv DEF Deliveries
  <1>7. ASSUME NEW w \in Workers, TouchDestroyedLatch(w) PROVE CInv'
    BY <1>0, <1>7, CrashCInv, CrashAllowed, DiesUnwinding DEF TouchDestroyedLatch, CInv
  <1>8. CASE HostStep \/ HostMay
    BY <1>0, <1>8, HostCInv
  <1>9. CASE UNCHANGED vars
    BY <1>9, StutterCInv
  <1> QED
    BY <1>1, <1>2, <1>3, <1>4, <1>5, <1>6, <1>7, <1>8, <1>9 DEF Next, ThreadStep, Crashed, Over

(* In every state the invariant allows, a late callback has been reported. *)
LEMMA LateCallback == CInv => LateCallbackReported
  <1> SUFFICES ASSUME CInv, NEW w \in Workers, stage[w] = "setting", ~LatchAlive,
                      "HcsTerminateComputeSystem" \notin reported
               PROVE  FALSE
    BY DEF LateCallbackReported
  <1>1. note[w] \in Host!AwaitedTypes /\ Setting(w, note[w])
    BY DEF CInv, IInv, NoteInv, Latch!TypeOK, Host!AwaitedTypes, Setting
  <1>2. note[w] \notin flag
    BY <1>1 DEF CInv, OnceInv
  <1>3. registered # {} /\ pc \in {"unwind", "returned", "crashed"}
    BY <1>1 DEF CInv, IInv, RegisteredInv, Host!AwaitedTypes, Latch!NoType, ScopeInv, Preparing,
           Calls, LatchedCalls, LatchAlive, ThreadTypeOK
  <1>4. "deferred_terminate_cs" \notin scope
    BY DEF CInv, IInv, ScopeInv, LatchAlive
  <1>5. Heard(note[w])
    BY DEF Heard
  <1> QED
    BY <1>1, <1>2, <1>3, <1>4, <1>5
    DEF CInv, IInv, SettledInv, HeardInv, RegisteredInv, Host!AwaitedTypes

(* A notification reaches a latch that is gone only if the container could *)
(* not be terminated, which was reported.                                  *)
THEOREM LateCallbacks == SafeSpec => []LateCallbackReported
  BY InitCInv, NextCInv, LateCallback, PTL DEF SafeSpec

-------------------------------------------------------------------------------
(* The end of the process.                                                 *)

(* A service thread owns the mutex only inside unlock; the spawning thread *)
(* only inside the latch, unless an export was missing there; and outside  *)
(* the three calls it holds the latch only to terminate the system.        *)
MutexInv ==
  /\ \A w \in Workers : mutex = w => stage[w] = "notifying"
  /\ mutex = Latch!Spawner => \/ phase \in {"locked", "checking", "blocking"}
                              \/ missing \cap LatchedCalls # {}
  /\ phase = "locked" => pc \in LatchedCalls \/ "deferred_terminate_cs" \in scope

DInv == IInv /\ MutexInv /\ DeathHasCause

(* The steps of the thread that leave the latch alone, or enter it.        *)
LEMMA ForwardDInv == ASSUME DInv, Forward PROVE MutexInv' /\ DeathHasCause'
  <1> USE SpawnAssumption DEF DInv
  <1>1. CASE \/ hcs_register_compute_system_callback
             \/ hcs_start_compute_system
             \/ hcs_register_process_callback
    BY <1>1 DEF hcs_register_compute_system_callback, hcs_start_compute_system,
       hcs_register_process_callback, Request, Latch!Await, Latch!Cancel, Unbound, Refused,
       Proceed, Throw, MutexInv, DeathHasCause, LatchedCalls, Latch!Nobody, Latch!Spawner
  <1>2. CASE \/ collect_acsendant_layers \/ hcs_create_layer \/ hcs_activate_layer
             \/ hcs_prepare_layer \/ hcs_get_layer_mount_path \/ hcs_create_compute_system
             \/ hcs_enumerate_compute_systems \/ hcs_create_process
    BY <1>2 DEF collect_acsendant_layers, hcs_create_layer, hcs_activate_layer,
       hcs_prepare_layer, hcs_get_layer_mount_path, hcs_create_compute_system,
       hcs_enumerate_compute_systems, hcs_create_process, Step, Proceed, Throw, latchVars,
       MutexInv, DeathHasCause, LatchedCalls
  <1> QED BY <1>1, <1>2 DEF Forward

(* The unwinding: each way it can end the process is one of the causes.    *)
LEMMA UnwindDInv == ASSUME DInv, Unwind \/ RelockOwnMutex PROVE MutexInv' /\ DeathHasCause'
  <1> USE SpawnAssumption DEF DInv
  <1>1. CASE hcs_terminate_compute_system
    BY <1>1 DEF hcs_terminate_compute_system, Terminating, Innermost, Rank, Latch!Await,
       Latch!Cancel, Unbound, Crash, ownVars, MutexInv, DeathHasCause, ReleaseCalls,
       Latch!Nobody, Latch!Spawner
  <1>2. CASE DestroyLatch
    <2>1. pc = "unwind" /\ "deferred_terminate_cs" \notin scope
      BY <1>2 DEF DestroyLatch, Innermost, Rank
    <2>2. phase \notin {"locked", "checking", "blocking"}
      BY <2>1 DEF IInv, AwaitInv, Awaiting, MutexInv, LatchedCalls
    <2>3. mutex = Latch!Nobody \/ (\E w \in Workers : stage[w] # "idle")
            \/ missing \cap LatchedCalls # {}
      BY <2>2 DEF IInv, Latch!TypeOK, MutexInv
    <2> QED BY <1>2, <2>1, <2>2, <2>3 DEF DestroyLatch, Crash, latchVars, MutexInv, DeathHasCause
  <1>3. CASE hcs_unprepare_layer \/ hcs_deactivate_layer \/ hcs_destroy_layer
    BY <1>3 DEF hcs_unprepare_layer, hcs_deactivate_layer, hcs_destroy_layer, Release, Unbound,
       Crash, latchVars, Innermost, MutexInv, DeathHasCause, ReleaseCalls, LatchedCalls
  <1>4. CASE Return
    BY <1>4 DEF Return, latchVars, MutexInv, DeathHasCause, LatchedCalls
  <1>5. CASE RelockOwnMutex
    BY <1>5 DEF RelockOwnMutex, Terminating, Crash, MutexInv, DeathHasCause, Innermost
  <1> QED BY <1>1, <1>2, <1>3, <1>4, <1>5 DEF Unwind

(* The steps inside the latch, of either side.                             *)
LEMMA LatchDInv ==
  ASSUME DInv,
         \/ LockLatch \/ AwaitReturns \/ AwaitStep \/ SpuriousWakeup \/ Deliveries
         \/ \E w \in Workers : UnlockStep(w)
  PROVE  MutexInv' /\ DeathHasCause'
  <1> USE SpawnAssumption DEF DInv
  <1>1. CASE LockLatch \/ AwaitReturns \/ AwaitStep \/ SpuriousWakeup
    BY <1>1 DEF LockLatch, AwaitReturns, AwaitStep, SpuriousWakeup, Latch!Lock, Latch!WaitEnds,
       Latch!WaitGoesOn, Latch!Sleep, Latch!Reacquire, Latch!SpuriousWakeup, Terminating,
       Innermost, Proceed, After, LatchedCalls, ownVars, MutexInv, DeathHasCause,
       Latch!Nobody, Latch!Spawner
  <1>2. CASE Deliveries
    BY <1>2 DEF Deliveries, container_callback, Latch!Callback, ownVars, MutexInv, DeathHasCause,
       IInv, Latch!TypeOK
  <1>3. ASSUME NEW w \in Workers, UnlockStep(w) PROVE MutexInv' /\ DeathHasCause'
    BY <1>3 DEF UnlockStep, Latch!UnlockStep, Latch!SetFlag, Latch!TakeMutex, Latch!NotifyAll,
       ownVars, MutexInv, DeathHasCause, IInv, Latch!TypeOK, Latch!Nobody, Latch!Spawner
  <1> QED BY <1>1, <1>2, <1>3

(* Every step keeps it.                                                    *)
LEMMA NextDInv == DInv /\ [Next]_vars => DInv'
  <1> SUFFICES ASSUME DInv, [Next]_vars PROVE DInv'
    OBVIOUS
  <1>0. IInv'
    BY NextIInv DEF DInv
  <1> SUFFICES MutexInv' /\ DeathHasCause'
    BY <1>0 DEF DInv
  <1>1. CASE Forward
    BY <1>1, ForwardDInv
  <1>2. CASE Unwind \/ RelockOwnMutex
    BY <1>2, UnwindDInv
  <1>3. CASE LockLatch \/ AwaitReturns \/ AwaitStep \/ SpuriousWakeup \/ Deliveries
             \/ \E w \in Workers : UnlockStep(w)
    BY <1>3, LatchDInv
  <1>4. ASSUME NEW w \in Workers, TouchDestroyedLatch(w) PROVE MutexInv' /\ DeathHasCause'
    BY <1>4 DEF TouchDestroyedLatch, Crash, LatchAlive, DInv, IInv, ScopeInv, MutexInv,
       DeathHasCause, LatchedCalls
  <1>5. CASE HostStep \/ HostMay \/ UNCHANGED vars
    BY <1>5 DEF HostStep, HostMay, latchVars, ownVars, vars, DInv, MutexInv, DeathHasCause
  <1> QED
    BY <1>1, <1>2, <1>3, <1>4, <1>5 DEF Next, ThreadStep, Crashed, Over

(* No refused call and no order of notifications kills the process, which  *)
(* would lose its clean-ups: only a missing function of the DLL does, or a *)
(* callback that is still inside unlock.                                   *)
THEOREM DeathCaused == SafeSpec => []DeathHasCause
  <1>1. Init => DInv
    BY InitIInv, SpawnAssumption
    DEF Init, DInv, MutexInv, DeathHasCause, Latch!Init, Latch!Nobody, Latch!Spawner
  <1>2. DInv => DeathHasCause
    BY DEF DInv
  <1> QED BY <1>1, <1>2, NextDInv, PTL DEF SafeSpec

===============================================================================
