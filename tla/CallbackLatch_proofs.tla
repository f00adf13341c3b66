-------------------------- MODULE CallbackLatch_proofs --------------------------
(***************************************************************************)
(* Proofs about callback_latch for any set of awaited types, ignored types *)
(* and service threads.  The invariants the runs check are conjuncts of    *)
(* one inductive invariant, IInv; what it adds is only the bookkeeping of  *)
(* who is where (Bookkeeping): the spawning thread has a target exactly    *)
(* while it is in await, and a service thread has a type exactly while it  *)
(* is in unlock.                                                           *)
(***************************************************************************)
EXTENDS CallbackLatch, TLAPS

(* A thread has a notification type in hand exactly while it is inside     *)
(* await or unlock.                                                        *)
Bookkeeping == /\ target = NoType <=> phase \in {"outside", "locked"}
               /\ \A w \in Workers : note[w] = NoType <=> stage[w] = "idle"

IInv == TypeOK /\ Bookkeeping /\ LockHandOff /\ NoLostWakeup /\ OneNotifier

-------------------------------------------------------------------------------
(* The latch starts free, with no flag set and nobody inside it. *)
LEMMA InitIInv == Init => IInv
  BY LatchAssumption
  DEF Init, IInv, TypeOK, Bookkeeping, LockHandOff, NoLostWakeup, OneNotifier, Notifier,
      Nobody, Spawner

(* A step of the spawning thread keeps the invariant: it moves the mutex   *)
(* only to itself from nobody or from itself to nobody, and it goes to     *)
(* sleep only past a flag it has read as unset or one still in flight.     *)
LEMMA SpawnerIInv == ASSUME IInv, SpawnerStep PROVE IInv'
  <1> USE LatchAssumption DEF IInv
  <1>1. TypeOK' /\ Bookkeeping'
    BY DEF TypeOK, Bookkeeping, SpawnerStep, WaitStep, Lock, Cancel, Await, WaitEnds,
           WaitGoesOn, Sleep, SpuriousWakeup, Reacquire
  <1>2. LockHandOff'
    BY DEF LockHandOff, TypeOK, SpawnerStep, WaitStep, Lock, Cancel, Await, WaitEnds,
           WaitGoesOn, Sleep, SpuriousWakeup, Reacquire, Nobody, Spawner
  <1>3. NoLostWakeup'
    BY DEF NoLostWakeup, Notifier, SpawnerStep, WaitStep, Lock, Cancel, Await, WaitEnds,
           WaitGoesOn, Sleep, SpuriousWakeup, Reacquire
  <1>4. OneNotifier'
    BY DEF OneNotifier, Notifier, SpawnerStep, WaitStep, Lock, Cancel, Await, WaitEnds,
           WaitGoesOn, Sleep, SpuriousWakeup, Reacquire
  <1> QED BY <1>1, <1>2, <1>3, <1>4

(* A notification that arrives makes nobody a notifier yet. *)
LEMMA CallbackIInv ==
  ASSUME IInv, NEW w \in Workers, NEW n \in Awaited \cup Ignored, Callback(w, n)
  PROVE  IInv'
  <1> USE LatchAssumption DEF IInv, Callback
  <1>1. TypeOK' /\ Bookkeeping'
    BY DEF TypeOK, Bookkeeping
  <1>2. LockHandOff'
    BY DEF LockHandOff, TypeOK
  <1>3. \A v \in Workers, m \in Awaited : Notifier(v, m)' <=> Notifier(v, m)
    BY DEF Notifier, TypeOK
  <1>4. NoLostWakeup'
    BY <1>3 DEF NoLostWakeup, TypeOK
  <1>5. OneNotifier'
    BY <1>3 DEF OneNotifier
  <1> QED BY <1>1, <1>2, <1>4, <1>5

(* The exchange: the thread that sets a flag becomes its one notifier.     *)
LEMMA SetFlagIInv ==
  ASSUME IInv, NEW w \in Workers, SetFlag(w) PROVE IInv'
  <1> USE LatchAssumption DEF IInv
  <1>1. note[w] \in Awaited /\ stage[w] = "setting"
    BY DEF SetFlag, TypeOK, Bookkeeping
  <1>2. CASE note[w] \notin flag /\ flag' = flag \cup {note[w]}
             /\ stage' = [stage EXCEPT ![w] = "locking"]
             /\ UNCHANGED <<mutex, phase, target, note>>
    <2>1. TypeOK' /\ Bookkeeping'
      BY <1>1, <1>2 DEF TypeOK, Bookkeeping
    <2>2. LockHandOff'
      BY <1>1, <1>2 DEF LockHandOff, TypeOK
    <2>3. \A v \in Workers, m \in Awaited :
            Notifier(v, m)' <=> Notifier(v, m) \/ (v = w /\ m = note[w])
      BY <1>1, <1>2 DEF Notifier, TypeOK
    <2>4. NoLostWakeup'
      BY <1>1, <1>2, <2>3 DEF NoLostWakeup, TypeOK
    <2>5. OneNotifier'
      <3> SUFFICES ASSUME NEW u \in Workers, NEW v \in Workers, NEW m \in Awaited,
                          Notifier(u, m)', Notifier(v, m)'
                   PROVE  u = v /\ m \in flag'
        BY DEF OneNotifier
      <3>1. CASE m = note[w]
        BY <1>1, <1>2, <2>3, <3>1 DEF OneNotifier
      <3>2. CASE m # note[w]
        BY <1>2, <2>3, <3>2 DEF OneNotifier
      <3> QED BY <3>1, <3>2
    <2> QED BY <2>1, <2>2, <2>4, <2>5
  <1>3. CASE note[w] \in flag /\ flag' = flag
             /\ stage' = [stage EXCEPT ![w] = "idle"]
             /\ note' = [note EXCEPT ![w] = NoType]
             /\ UNCHANGED <<mutex, phase, target>>
    <2>1. TypeOK' /\ Bookkeeping'
      BY <1>1, <1>3 DEF TypeOK, Bookkeeping
    <2>2. LockHandOff'
      BY <1>1, <1>3 DEF LockHandOff, TypeOK
    <2>3. \A v \in Workers, m \in Awaited : Notifier(v, m)' <=> Notifier(v, m)
      BY <1>1, <1>3 DEF Notifier, TypeOK
    <2>4. NoLostWakeup' /\ OneNotifier'
      BY <1>3, <2>3 DEF NoLostWakeup, OneNotifier, TypeOK
    <2> QED BY <2>1, <2>2, <2>4
  <1> QED BY <1>2, <1>3 DEF SetFlag

(* The notifier takes the mutex, and is a notifier still. *)
LEMMA TakeMutexIInv ==
  ASSUME IInv, NEW w \in Workers, TakeMutex(w) PROVE IInv'
  <1> USE LatchAssumption DEF IInv, TakeMutex
  <1>1. TypeOK' /\ Bookkeeping'
    BY DEF TypeOK, Bookkeeping
  <1>2. LockHandOff'
    BY DEF LockHandOff, TypeOK, Nobody, Spawner
  <1>3. \A v \in Workers, m \in Awaited : Notifier(v, m)' <=> Notifier(v, m)
    BY DEF Notifier, TypeOK
  <1>4. NoLostWakeup' /\ OneNotifier'
    BY <1>3 DEF NoLostWakeup, OneNotifier, TypeOK
  <1> QED BY <1>1, <1>2, <1>4

(* The notification: the notifier holds the mutex, so the waiter is not    *)
(* between its predicate and its sleep, and if it sleeps it is woken.      *)
LEMMA NotifyAllIInv ==
  ASSUME IInv, NEW w \in Workers, NotifyAll(w) PROVE IInv'
  <1> USE LatchAssumption DEF IInv, NotifyAll
  <1>1. note[w] \in Awaited /\ mutex = w /\ phase # "blocking"
    BY DEF TypeOK, Bookkeeping, LockHandOff, Spawner
  <1>2. TypeOK' /\ Bookkeeping'
    BY <1>1 DEF TypeOK, Bookkeeping
  <1>3. LockHandOff'
    BY <1>1 DEF LockHandOff, TypeOK, Nobody, Spawner
  <1>4. \A v \in Workers, m \in Awaited :
          Notifier(v, m)' <=> Notifier(v, m) /\ v # w
    BY DEF Notifier, TypeOK
  <1>5. NoLostWakeup'
    <2> SUFFICES ASSUME phase' \in {"blocking", "asleep"}, target' \in flag'
                 PROVE  \E v \in Workers : Notifier(v, target)'
      BY DEF NoLostWakeup, Notifier
    <2>1. phase = "asleep" /\ target # note[w] /\ target \in flag /\ target' = target
      BY <1>1
    <2>2. PICK v \in Workers : Notifier(v, target)
      BY <2>1 DEF NoLostWakeup
    <2>3. v # w
      BY <2>1, <2>2 DEF Notifier
    <2>4. Notifier(v, target)'
      BY <2>1, <2>2, <2>3 DEF Notifier, TypeOK
    <2> QED BY <2>4
  <1>6. OneNotifier'
    BY <1>4 DEF OneNotifier
  <1> QED BY <1>2, <1>3, <1>5, <1>6

(* Every step keeps the invariant. *)
LEMMA NextIInv == IInv /\ [Next]_vars => IInv'
  <1> SUFFICES ASSUME IInv, [Next]_vars PROVE IInv'
    OBVIOUS
  <1>1. CASE SpawnerStep
    BY <1>1, SpawnerIInv
  <1>2. ASSUME NEW w \in Workers, NEW n \in Awaited \cup Ignored, Callback(w, n) PROVE IInv'
    BY <1>2, CallbackIInv
  <1>3. ASSUME NEW w \in Workers, UnlockStep(w) PROVE IInv'
    BY <1>3, SetFlagIInv, TakeMutexIInv, NotifyAllIInv DEF UnlockStep
  <1>4. CASE UNCHANGED vars
    BY <1>4 DEF vars, IInv, TypeOK, Bookkeeping, LockHandOff, NoLostWakeup, OneNotifier, Notifier
  <1> QED BY <1>1, <1>2, <1>3, <1>4 DEF Next, WorkerStep

(* The latch keeps its invariant for ever. *)
THEOREM Invariant == SafeSpec => []IInv
  BY InitIInv, NextIInv, PTL DEF SafeSpec

-------------------------------------------------------------------------------
(* Every variable of the latch keeps its type. *)
THEOREM TypeCorrect == Spec => []TypeOK
  <1>1. IInv => TypeOK
    BY DEF IInv
  <1> QED BY <1>1, Invariant, PTL DEF Spec

(* The raw lock() never orphans the mutex: whoever owns it is at a place   *)
(* in the code where it will give it back.                                 *)
THEOREM MutexHandedOff == Spec => []LockHandOff
  <1>1. IInv => LockHandOff
    BY DEF IInv
  <1> QED BY <1>1, Invariant, PTL DEF Spec

(* No wake-up is lost, although the flag is set outside the mutex. *)
THEOREM NoWakeupIsLost == Spec => []NoLostWakeup
  <1>1. IInv => NoLostWakeup
    BY DEF IInv
  <1> QED BY <1>1, Invariant, PTL DEF Spec

(* Repeated notifications of a type have one notifier between them. *)
THEOREM NotifiedOnce == Spec => []OneNotifier
  <1>1. IInv => OneNotifier
    BY DEF IInv
  <1> QED BY <1>1, Invariant, PTL DEF Spec

-------------------------------------------------------------------------------
(* The initial states of the latch are those of its promise. *)
LEMMA InitPromise == Init => Promise!Init
  BY DEF Init, Promise!Init

(* Every step of the latch is a step of its promise or changes nothing of  *)
(* it: setting a flag raises the event, calling await begins the wait, and *)
(* only the return of await ends it.                                       *)
LEMMA NextPromise == IInv /\ [Next]_vars => [Promise!Next]_Promise!vars
  <1> SUFFICES ASSUME IInv, [Next]_vars PROVE [Promise!Next]_Promise!vars
    OBVIOUS
  <1> USE DEF Promise!vars
  <1>1. ASSUME NEW n \in Awaited, Await(n) PROVE Promise!Next
    <2>1. target = NoType
      BY <1>1 DEF IInv, Bookkeeping, Await
    <2>2. Promise!Begin(n)
      BY <1>1, <2>1 DEF Promise!Begin, Await
    <2> QED BY <2>2 DEF Promise!Next
  <1>2. CASE WaitEnds
    BY <1>2 DEF WaitEnds, Promise!Next, Promise!Finish
  <1>3. ASSUME NEW w \in Workers, SetFlag(w) PROVE [Promise!Next]_Promise!vars
    <2>1. note[w] \in Awaited
      BY <1>3 DEF SetFlag, IInv, TypeOK, Bookkeeping
    <2>2. CASE note[w] \in flag
      BY <1>3, <2>2 DEF SetFlag
    <2>3. CASE note[w] \notin flag
      <3>1. Promise!Raise(note[w])
        BY <1>3, <2>3 DEF SetFlag, Promise!Raise
      <3> QED BY <2>1, <3>1 DEF Promise!Next
    <2> QED BY <2>2, <2>3
  <1>4. CASE Lock \/ Cancel \/ WaitGoesOn \/ Sleep \/ Reacquire \/ SpuriousWakeup
    BY <1>4 DEF Lock, Cancel, WaitGoesOn, Sleep, Reacquire, SpuriousWakeup
  <1>5. ASSUME NEW w \in Workers, NEW n \in Awaited \cup Ignored,
               Callback(w, n) \/ TakeMutex(w) \/ NotifyAll(w)
        PROVE  UNCHANGED Promise!vars
    BY <1>5 DEF Callback, TakeMutex, NotifyAll
  <1>6. ASSUME NEW w \in Workers, TakeMutex(w) \/ NotifyAll(w)
        PROVE  UNCHANGED Promise!vars
    BY <1>6 DEF TakeMutex, NotifyAll
  <1>7. CASE UNCHANGED vars
    BY <1>7 DEF vars
  <1> QED
    BY <1>1, <1>2, <1>3, <1>4, <1>5, <1>6, <1>7
    DEF Next, SpawnerStep, WaitStep, WorkerStep, UnlockStep

(* The latch implements the safety of its promise: await returns only      *)
(* after the notification it waits for, and an event stays raised.         *)
THEOREM ImplementsPromise == Spec => Promise!SafeSpec
  BY Invariant, InitPromise, NextPromise, PTL DEF Spec, SafeSpec, Promise!SafeSpec

===============================================================================
