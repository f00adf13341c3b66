---------------------------- MODULE CallbackLatch ----------------------------
(***************************************************************************)
(* callback_latch (src/src/callback_latch.hpp): one mutex, and for each    *)
(* awaited notification type a condition variable and an atomic flag.      *)
(*                                                                         *)
(* The spawning thread takes the mutex with lock() and keeps it, without a *)
(* guard, across a call into the host compute service; await(n) or         *)
(* cancel() then adopts the mutex and gives it back.  Threads of the       *)
(* service run the notification callback, which calls unlock(n): it sets   *)
(* the flag of n with a compare-and-exchange, outside the mutex, and only  *)
(* the thread whose exchange succeeded takes the mutex and notifies.       *)
(*                                                                         *)
(* One action is one atomic step of a thread: the flag is read and written *)
(* without the mutex, so the evaluation of the wait predicate and the      *)
(* blocking that follows it are two steps.                                 *)
(***************************************************************************)
EXTENDS FiniteSets

CONSTANTS Awaited,   \* the notification types that have a flag: the cases of unlock
          Ignored,   \* the types that fall to the default branch of unlock
          Workers    \* the service's threads that run the callback

Nobody  == "nobody"          \* owner of a free mutex
Spawner == "spawner"         \* the thread that runs spawn_and_wait
NoType  == "no_type"         \* target of a thread that is not in await

ASSUME LatchAssumption == /\ Awaited \cap Ignored = {}
                          /\ NoType \notin Awaited \cup Ignored
                          /\ {Nobody, Spawner} \cap Workers = {}

VARIABLES
  mutex,    \* the owner of the mutex
  flag,     \* the types whose flag is true
  phase,    \* where the spawning thread is in the latch's members
  target,   \* the type it awaits
  stage,    \* where each service thread is in unlock
  note      \* the type each service thread is unlocking

vars == <<mutex, flag, phase, target, stage, note>>

Init == /\ mutex = Nobody
        /\ flag = {}
        /\ phase = "outside"
        /\ target = NoType
        /\ stage = [w \in Workers |-> "idle"]
        /\ note = [w \in Workers |-> NoType]

-------------------------------------------------------------------------------
(* The spawning thread.                                                    *)

(* lock(): takes the mutex and releases the guard, so the mutex stays held. *)
Lock == /\ phase = "outside"
        /\ mutex = Nobody
        /\ mutex' = Spawner
        /\ phase' = "locked"
        /\ UNCHANGED <<flag, target, stage, note>>

(* Mutant: the adopting guard is forgotten and the mutex stays locked. *)
CancelForgetsMutex == /\ phase = "locked"
                      /\ phase' = "outside"
                      /\ UNCHANGED <<mutex, flag, target, stage, note>>

(* cancel(): adopts the mutex in a guard that goes out of scope at once. *)
Cancel == /\ phase = "locked"
          /\ mutex' = Nobody
          /\ phase' = "outside"
          /\ UNCHANGED <<flag, target, stage, note>>

(* await(n) up to the first evaluation of the predicate: the switch picks  *)
(* n's condition variable and flag, the guard adopts the mutex.  Every     *)
(* caller passes a type of Awaited, so the throwing default is not reached. *)
Await(n) == /\ phase = "locked"
            /\ phase' = "checking"
            /\ target' = n
            /\ UNCHANGED <<mutex, flag, stage, note>>

(* Mutant: a wait without a predicate, over after any wake-up. *)
WaitEndsUnchecked == /\ phase = "checking"
                     /\ mutex' = Nobody
                     /\ phase' = "outside"
                     /\ target' = NoType
                     /\ UNCHANGED <<flag, stage, note>>

(* The predicate is true: wait returns and the guard releases the mutex. *)
WaitEnds == /\ phase = "checking"
            /\ target \in flag
            /\ mutex' = Nobody
            /\ phase' = "outside"
            /\ target' = NoType
            /\ UNCHANGED <<flag, stage, note>>

(* The predicate is false: the thread is about to block, mutex still held. *)
WaitGoesOn == /\ phase = "checking"
              /\ target \notin flag
              /\ phase' = "blocking"
              /\ UNCHANGED <<mutex, flag, target, stage, note>>

(* The wait releases the mutex and joins the wait set, in one step. *)
Sleep == /\ phase = "blocking"
         /\ mutex' = Nobody
         /\ phase' = "asleep"
         /\ UNCHANGED <<flag, target, stage, note>>

(* A condition variable may wake its waiter for no reason. *)
SpuriousWakeup == /\ phase = "asleep"
                  /\ phase' = "woken"
                  /\ UNCHANGED <<mutex, flag, target, stage, note>>

(* A woken thread takes the mutex again and evaluates the predicate. *)
Reacquire == /\ phase = "woken"
             /\ mutex = Nobody
             /\ mutex' = Spawner
             /\ phase' = "checking"
             /\ UNCHANGED <<flag, target, stage, note>>

-------------------------------------------------------------------------------
(* A service thread w.                                                     *)

(* Mutant: unlock has no default branch. *)
CallbackUnfiltered(w, n) == /\ stage[w] = "idle"
                            /\ stage' = [stage EXCEPT ![w] = "setting"]
                            /\ note' = [note EXCEPT ![w] = n]
                            /\ UNCHANGED <<mutex, flag, phase, target>>

(* The service calls the callback with a notification of type n: unlock    *)
(* goes to the flag of n, and its default branch ignores every other type. *)
Callback(w, n) == /\ stage[w] = "idle"
                  /\ stage' = [stage EXCEPT ![w] = IF n \in Awaited THEN "setting" ELSE "idle"]
                  /\ note' = [note EXCEPT ![w] = IF n \in Awaited THEN n ELSE NoType]
                  /\ UNCHANGED <<mutex, flag, phase, target>>

(* Mutant: a plain store in place of the compare-and-exchange. *)
SetFlagByStore(w) == /\ stage[w] = "setting"
                     /\ flag' = flag \cup {note[w]}
                     /\ stage' = [stage EXCEPT ![w] = "locking"]
                     /\ UNCHANGED <<mutex, phase, target, note>>

(* compare_exchange_strong(false, true): only the first notification of a  *)
(* type goes on, a later one finds the flag set and returns.               *)
SetFlag(w) == /\ stage[w] = "setting"
              /\ \/ /\ note[w] \notin flag
                    /\ flag' = flag \cup {note[w]}
                    /\ stage' = [stage EXCEPT ![w] = "locking"]
                    /\ UNCHANGED note
                 \/ /\ note[w] \in flag
                    /\ stage' = [stage EXCEPT ![w] = "idle"]
                    /\ note' = [note EXCEPT ![w] = NoType]
                    /\ UNCHANGED flag
              /\ UNCHANGED <<mutex, phase, target>>

(* Mutant: notify_all without the guard, and so without waiting for a      *)
(* waiter that has evaluated its predicate to go to sleep.                 *)
NotifyUnguarded(w) == /\ stage[w] = "locking"
                      /\ phase' = IF phase = "asleep" /\ target = note[w] THEN "woken" ELSE phase
                      /\ stage' = [stage EXCEPT ![w] = "idle"]
                      /\ note' = [note EXCEPT ![w] = NoType]
                      /\ UNCHANGED <<mutex, flag, target>>

(* The guard of unlock_internal. *)
TakeMutex(w) == /\ stage[w] = "locking"
                /\ mutex = Nobody
                /\ mutex' = w
                /\ stage' = [stage EXCEPT ![w] = "notifying"]
                /\ UNCHANGED <<flag, phase, target, note>>

(* notify_all on n's condition variable, which the spawning thread waits   *)
(* on only if n is its target; then the guard releases the mutex.          *)
NotifyAll(w) == /\ stage[w] = "notifying"
                /\ phase' = IF phase = "asleep" /\ target = note[w] THEN "woken" ELSE phase
                /\ mutex' = Nobody
                /\ stage' = [stage EXCEPT ![w] = "idle"]
                /\ note' = [note EXCEPT ![w] = NoType]
                /\ UNCHANGED <<flag, target>>

-------------------------------------------------------------------------------
(* The client enters and leaves the latch as it likes, in the order the    *)
(* four callers in hostcompute_nspawn.cpp follow: lock, then await or      *)
(* cancel.  Any thread may deliver any type any number of times.           *)

WaitStep == WaitEnds \/ WaitGoesOn \/ Sleep \/ Reacquire

SpawnerStep == \/ Lock
               \/ Cancel
               \/ \E n \in Awaited : Await(n)
               \/ WaitStep
               \/ SpuriousWakeup

UnlockStep(w) == SetFlag(w) \/ TakeMutex(w) \/ NotifyAll(w)

WorkerStep(w) == \/ \E n \in Awaited \cup Ignored : Callback(w, n)
                 \/ UnlockStep(w)

Next == SpawnerStep \/ \E w \in Workers : WorkerStep(w)

SafeSpec == Init /\ [][Next]_vars

(* A thread inside await or unlock keeps running and, when the mutex stays *)
(* free, gets it.  Nobody has to call lock, and nobody has to notify.      *)
Fairness == /\ WF_vars(WaitStep)
            /\ \A w \in Workers : WF_vars(UnlockStep(w))

Spec == SafeSpec /\ Fairness

-------------------------------------------------------------------------------
TypeOK == /\ mutex \in {Nobody, Spawner} \cup Workers
          /\ flag \subseteq Awaited
          /\ phase \in {"outside", "locked", "checking", "blocking", "asleep", "woken"}
          /\ target \in Awaited \cup {NoType}
          /\ stage \in [Workers -> {"idle", "setting", "locking", "notifying"}]
          /\ note \in [Workers -> Awaited \cup {NoType}]

(* A service thread on its way to notify for type n. *)
Notifier(w, n) == stage[w] \in {"locking", "notifying"} /\ note[w] = n

(* The mutex is never orphaned: lock() leaves it with a thread that has no *)
(* guard, and from there exactly the phases up to the sleep or the return  *)
(* own it; a service thread owns it exactly while it notifies.             *)
LockHandOff == /\ mutex = Spawner <=> phase \in {"locked", "checking", "blocking"}
               /\ \A w \in Workers : mutex = w <=> stage[w] = "notifying"

(* The flag is set outside the mutex, between any two steps of the waiter. *)
(* Still no wake-up is lost: while the waiter sleeps, or is past the       *)
(* predicate and about to sleep, and the flag of its type is already set,  *)
(* a thread is still on its way to notify that type.                       *)
NoLostWakeup == (phase \in {"blocking", "asleep"} /\ target \in flag)
                  => \E w \in Workers : Notifier(w, target)

(* However often the service repeats a notification, and on however many   *)
(* threads at once, one thread at most notifies for it, and only after the *)
(* flag is set.                                                            *)
OneNotifier == \A v, w \in Workers : \A n \in Awaited :
                 Notifier(v, n) /\ Notifier(w, n) => v = w /\ n \in flag

(* The latch implements its promise: the events raised are the flags set,  *)
(* and the spawning thread waits from the call of await to its return.     *)
Promise == INSTANCE OneShotEvents
             WITH Events <- Awaited, NoEvent <- NoType, raised <- flag, awaited <- target

(* await returns only after its notification, which stays delivered, and   *)
(* once the notification is delivered await does return.                   *)
KeepsPromise == Promise!Spec

===============================================================================
