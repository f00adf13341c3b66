---------------------------- MODULE MCSpawnAndWait ----------------------------
(* The sets of functions the runs of SpawnAndWait let fail.                *)
EXTENDS SpawnAndWait

(* Every call may be refused. *)
AllCalls == Calls \cup ReleaseCalls

(* Every call may be refused but the ones that register, start and         *)
(* terminate the compute system, and those that release the layer.         *)
CallsButSystem == Calls \ {"HcsRegisterComputeSystemCallback", "HcsStartComputeSystem"}

(* One missing export for each place the lookup can throw in: a forward    *)
(* call, the calls under the latch, and a clean-up.                        *)
SomeExports == {"HcsRegisterComputeSystemCallback", "HcsRegisterProcessCallback",
                "HcsTerminateComputeSystem", "UnprepareLayer"}

NoCall == {}

===============================================================================
