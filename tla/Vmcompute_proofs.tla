--------------------------- MODULE Vmcompute_proofs ---------------------------
(***************************************************************************)
(* Proofs about the wrappers of vmcompute.cpp: for any set of callers, any *)
(* set of functions, and whatever the DLL exports.  What needs threads to  *)
(* wait for a static that another one initialises says so (Serialised).    *)
(***************************************************************************)
EXTENDS Vmcompute, TLAPS

(* Where a caller is inside the initialiser of its wrapper's static. *)
Binding == {"lookupfun", "LoadLibrary", "check", "GetProcAddress"}

(* Each caller inside an initialiser is alone there.  Stated by pairs, so  *)
(* that a step of one caller leaves the others' pairs as they were.        *)
AloneInv == \A c, d \in Callers :
              /\ pc[c] \in Binding /\ pc[d] \in Binding /\ wanted[c] = wanted[d] => c = d
              /\ pc[c] = "LoadLibrary" /\ pc[d] = "LoadLibrary" => c = d

(* A static is marked exactly while a caller initialises it. *)
MarkedInv == /\ \A c \in Callers : /\ pc[c] \in Binding => guard[wanted[c]] = "busy"
                                   /\ pc[c] = "LoadLibrary" => guard[Lib] = "busy"
             /\ \A f \in Functions :
                  guard[f] = "busy" => \E c \in Callers : pc[c] \in Binding /\ wanted[c] = f
             /\ guard[Lib] = "busy" => \E c \in Callers : pc[c] = "LoadLibrary"

(* A wrapper's static that is initialised holds a function, and a caller   *)
(* past the initialiser has an initialised static.                         *)
BoundInv == /\ \A f \in Functions : guard[f] = "set" => value[f] = f
            /\ \A c \in Callers : pc[c] = "invoke" => guard[wanted[c]] = "set"

IInv == TypeOK /\ AloneInv /\ MarkedInv /\ BoundInv

-------------------------------------------------------------------------------
(* Nobody is inside an initialiser, and nothing is marked, at the start. *)
LEMMA InitIInv == Init => IInv
  BY VmcomputeAssumption DEF Init, IInv, TypeOK, AloneInv, MarkedInv, BoundInv, Binding, Statics

(* Who calls a wrapper enters no initialiser yet. *)
LEMMA CallIInv == ASSUME IInv, NEW c \in Callers, Call(c) PROVE IInv'
  BY VmcomputeAssumption, SMTT(60)
     DEF IInv, TypeOK, AloneInv, MarkedInv, BoundInv, Binding, Statics, Call, Goto

(* A wrapper's static is used when it is set, and marked when it is not. *)
LEMMA EnterWrapperIInv == ASSUME IInv, Serialised, NEW c \in Callers, EnterWrapper(c) PROVE IInv'
  BY VmcomputeAssumption, SMTT(60)
     DEF IInv, TypeOK, AloneInv, MarkedInv, BoundInv, Binding, Statics, EnterWrapper, Enter, Goto

(* So is the library's, by a caller that keeps its own mark meanwhile. *)
LEMMA EnterLibIInv == ASSUME IInv, Serialised, NEW c \in Callers, EnterLib(c) PROVE IInv'
  BY VmcomputeAssumption, SMTT(60)
     DEF IInv, TypeOK, AloneInv, MarkedInv, BoundInv, Binding, Statics, EnterLib, Enter, Goto

(* The load ends the one initialiser of the library. *)
LEMMA LoadLibraryIInv == ASSUME IInv, NEW c \in Callers, LoadLibrary(c) PROVE IInv'
  BY VmcomputeAssumption, SMTT(60)
     DEF IInv, TypeOK, AloneInv, MarkedInv, BoundInv, Binding, Statics, LoadLibrary, Initialised,
         Goto

(* An exception ends the one initialiser of the wrapper's static. *)
LEMMA ThrowIInv ==
  ASSUME IInv, NEW c \in Callers, NEW from \in {"check", "GetProcAddress"}, Throw(c, from)
  PROVE  IInv'
  BY VmcomputeAssumption, SMTT(60)
     DEF IInv, TypeOK, AloneInv, MarkedInv, BoundInv, Binding, Statics, Throw, Goto

(* The check of the library's handle throws, or moves inside Binding. *)
LEMMA CheckLibIInv == ASSUME IInv, NEW c \in Callers, CheckLib(c) PROVE IInv'
<1>1. CASE Throw(c, "check")
  BY <1>1, ThrowIInv
<1>2. CASE ~Throw(c, "check")
  BY <1>2, VmcomputeAssumption, SMTT(60)
     DEF IInv, TypeOK, AloneInv, MarkedInv, BoundInv, Binding, Statics, CheckLib, Goto
<1> QED
  BY <1>1, <1>2

(* The function looked up is kept, or the lookup throws. *)
LEMMA GetProcAddressIInv == ASSUME IInv, NEW c \in Callers, GetProcAddress(c) PROVE IInv'
<1>1. CASE Throw(c, "GetProcAddress")
  BY <1>1, ThrowIInv
<1>2. CASE ~Throw(c, "GetProcAddress")
  BY <1>2, VmcomputeAssumption, SMTT(60)
     DEF IInv, TypeOK, AloneInv, MarkedInv, BoundInv, Binding, Statics, GetProcAddress,
         Initialised, Goto
<1> QED
  BY <1>1, <1>2

(* The call itself and the return touch no static. *)
LEMMA LeavingIInv == ASSUME IInv, NEW c \in Callers, Invoke(c) \/ Return(c) PROVE IInv'
  BY VmcomputeAssumption, SMTT(60)
     DEF IInv, TypeOK, AloneInv, MarkedInv, BoundInv, Binding, Statics, Invoke, Return, Goto

(* Every step of the wrappers keeps the invariant. *)
LEMMA NextIInv == ASSUME IInv, Serialised, [Next]_vars PROVE IInv'
<1>1. CASE UNCHANGED vars
  BY <1>1 DEF IInv, TypeOK, AloneInv, MarkedInv, BoundInv, vars
<1>2. ASSUME NEW c \in Callers, Call(c) \/ Enters(c) \/ Runs(c) \/ Return(c)
      PROVE  IInv'
  <2>1. CASE Call(c)
    BY <2>1, CallIInv
  <2>2. CASE Enters(c)
    BY <2>2, EnterWrapperIInv, EnterLibIInv DEF Enters
  <2>3. CASE Runs(c)
    BY <2>3, LoadLibraryIInv, CheckLibIInv, GetProcAddressIInv, LeavingIInv DEF Runs
  <2>4. CASE Return(c)
    BY <2>4, LeavingIInv
  <2> QED
    BY <1>2, <2>1, <2>2, <2>3, <2>4
<1> QED
  BY <1>1, <1>2 DEF Next

(* The inductive invariant of the wrappers (vmcompute.cpp:45-157), when    *)
(* the initialisation of their statics is serialised.                      *)
THEOREM Invariant == Serialised /\ SafeSpec => []IInv
<1>1. Serialised /\ IInv /\ [Next]_vars => IInv'
  BY NextIInv
<1>2. CASE Serialised
  <2>1. IInv /\ [Next]_vars => IInv'
    BY <1>1, <1>2
  <2> QED
    BY <2>1, InitIInv, PTL DEF SafeSpec
<1>3. CASE ~Serialised
  BY <1>3
<1> QED
  BY <1>2, <1>3

(* However many threads call at once, and however often vmcomputelib or    *)
(* lookupfun throws out of an initialiser, a static has one initialiser at *)
(* a time and is marked for as long as that runs.                          *)
THEOREM InitialisedByOne == Serialised /\ SafeSpec => []OneInitialiser
<1>1. IInv => OneInitialiser
  BY VmcomputeAssumption, SMTT(60)
     DEF IInv, TypeOK, AloneInv, MarkedInv, Binding, OneInitialiser, Initialising, Statics
<1> QED
  BY <1>1, Invariant, PTL

(* No wrapper calls through a pointer that lookupfun did not find. *)
THEOREM InvocationsFound == Serialised /\ SafeSpec => []InvokesFound
<1>1. IInv => InvokesFound
  BY DEF IInv, TypeOK, BoundInv, InvokesFound
<1> QED
  BY <1>1, Invariant, PTL

-------------------------------------------------------------------------------
(* With or without serialisation.                                          *)

(* A static marked as being initialised has a caller in its initialiser,   *)
(* and one that is kept as initialised holds what the DLL exports.         *)
LeftInv ==
  /\ \A f \in Functions :
       /\ guard[f] = "busy" => \E c \in Callers : pc[c] \in Binding /\ wanted[c] = f
       /\ guard[f] = "set" => value[f] = f /\ f \in exported
  /\ guard[Lib] = "busy" => \E c \in Callers : pc[c] = "LoadLibrary"

RaceInv == TypeOK /\ LeftInv

(* The start of a call, and a declaration that is reached, in whatever     *)
(* state the static is found.                                              *)
LEMMA ArrivingRaceInv ==
  ASSUME RaceInv, NEW c \in Callers, Call(c) \/ Enters(c)
  PROVE  RaceInv'
<1>1. CASE Call(c)
  BY <1>1, VmcomputeAssumption, SMTT(60)
     DEF RaceInv, TypeOK, LeftInv, Binding, Statics, Call, Goto
<1>2. CASE EnterWrapper(c)
  BY <1>2, VmcomputeAssumption, SMTT(60)
     DEF RaceInv, TypeOK, LeftInv, Binding, Statics, EnterWrapper, Enter, Goto
<1>3. CASE EnterLib(c)
  BY <1>3, VmcomputeAssumption, SMTT(60)
     DEF RaceInv, TypeOK, LeftInv, Binding, Statics, EnterLib, Enter, Goto
<1> QED
  BY <1>1, <1>2, <1>3 DEF Enters

(* The initialisers: whoever leaves one takes the mark away, even if       *)
(* another thread is still inside.                                         *)
LEMMA BindingRaceInv ==
  ASSUME RaceInv, NEW c \in Callers, LoadLibrary(c) \/ CheckLib(c) \/ GetProcAddress(c)
  PROVE  RaceInv'
<1>1. CASE LoadLibrary(c)
  BY <1>1, VmcomputeAssumption, SMTT(60)
     DEF RaceInv, TypeOK, LeftInv, Binding, Statics, LoadLibrary, Initialised, Goto
<1>2. CASE CheckLib(c)
  BY <1>2, VmcomputeAssumption, SMTT(60)
     DEF RaceInv, TypeOK, LeftInv, Binding, Statics, CheckLib, Throw, Goto
<1>3. CASE GetProcAddress(c)
  BY <1>3, VmcomputeAssumption, SMTT(60)
     DEF RaceInv, TypeOK, LeftInv, Binding, Statics, GetProcAddress, Throw, Initialised, Goto
<1> QED
  BY <1>1, <1>2, <1>3

(* Every step keeps it, whether the statics are serialised or not.         *)
LEMMA NextRaceInv == RaceInv /\ [Next]_vars => RaceInv'
<1> SUFFICES ASSUME RaceInv, [Next]_vars PROVE RaceInv'
  OBVIOUS
<1>1. CASE UNCHANGED vars
  BY <1>1 DEF RaceInv, TypeOK, LeftInv, vars
<1>2. ASSUME NEW c \in Callers, Invoke(c) \/ Return(c) PROVE RaceInv'
  BY <1>2, VmcomputeAssumption, SMTT(60)
     DEF RaceInv, TypeOK, LeftInv, Binding, Statics, Invoke, Return, Goto
<1> QED
  BY <1>1, <1>2, ArrivingRaceInv, BindingRaceInv DEF Next, Runs

(* It holds before the first call.                                         *)
LEMMA InitRaceInv == Init => RaceInv
  BY VmcomputeAssumption DEF Init, RaceInv, TypeOK, LeftInv, Binding, Statics

(* The statics hold what they may hold and each caller is in one place of  *)
(* its wrapper.                                                            *)
THEOREM TypeCorrect == SafeSpec => []TypeOK
<1>1. RaceInv => TypeOK
  BY DEF RaceInv
<1> QED
  BY <1>1, InitRaceInv, NextRaceInv, PTL DEF SafeSpec

(* Even where threads are not made to wait for each other's initialisers   *)
(* (README.md builds with Visual Studio 2013), a race leaves no static     *)
(* half initialised and no address that the DLL does not export.           *)
THEOREM RacesPass == SafeSpec => []RaceLeavesNoTrace
<1>1. RaceInv => RaceLeavesNoTrace
  BY VmcomputeAssumption DEF RaceInv, LeftInv, Binding, Statics, RaceLeavesNoTrace
<1> QED
  BY <1>1, InitRaceInv, NextRaceInv, PTL DEF SafeSpec

-------------------------------------------------------------------------------
(* What is known of the library past the declaration of its static, and of *)
(* the DLL once a function of it is kept.                                  *)
LibraryInv == /\ \A c \in Callers : /\ pc[c] = "check" => guard[Lib] = "set"
                                    /\ pc[c] = "GetProcAddress" => guard[Lib] = "set" /\ value[Lib] = Lib
              /\ \A f \in Functions :
                   guard[f] = "set" => f \in exported /\ guard[Lib] = "set" /\ value[Lib] = Lib

(* The library is decided once, before anything is found in it. *)
LEMMA LibraryKept ==
  ASSUME IInv, Serialised, LibraryInv, [Next]_vars
  PROVE  LibraryInv'
<1> USE VmcomputeAssumption DEF IInv, TypeOK, AloneInv, MarkedInv, BoundInv, LibraryInv, Binding,
                                Statics, Goto
<1>1. CASE UNCHANGED vars
  BY <1>1 DEF vars
<1>2. ASSUME NEW c \in Callers, Call(c) \/ Enters(c) \/ Runs(c) \/ Return(c)
      PROVE  LibraryInv'
  <2>1. CASE Call(c) \/ Return(c) \/ Invoke(c)
    BY <2>1, SMTT(60) DEF Call, Return, Invoke
  <2>2. CASE EnterWrapper(c)
    BY <2>2, SMTT(60) DEF EnterWrapper, Enter
  <2>3. CASE EnterLib(c)
    BY <2>3, SMTT(60) DEF EnterLib, Enter
  <2>4. CASE LoadLibrary(c)
    BY <2>4, SMTT(60) DEF LoadLibrary, Initialised
  <2>5. CASE CheckLib(c)
    BY <2>5, SMTT(60) DEF CheckLib, Throw
  <2>6. CASE GetProcAddress(c)
    BY <2>6, SMTT(60) DEF GetProcAddress, Throw, Initialised
  <2> QED
    BY <1>2, <2>1, <2>2, <2>3, <2>4, <2>5, <2>6 DEF Enters, Runs
<1> QED
  BY <1>1, <1>2 DEF Next

(* What the table sees of a caller that goes on, and of the others. *)
LEMMA AnsweredAfter ==
  ASSUME TypeOK, NEW c \in Callers, NEW from, NEW to, Goto(c, from, to), NEW a,
         a = IF to = "outside" THEN "none" ELSE IF to \in {"reached", "threw"} THEN to ELSE "pending"
  PROVE  [d \in Callers |-> Answered(d)]' = [[d \in Callers |-> Answered(d)] EXCEPT ![c] = a]
<1>1. \A d \in Callers : Answered(d)' = IF d = c THEN a ELSE Answered(d)
  BY DEF TypeOK, Goto, Answered
<1> QED
  BY <1>1

(* Each step of a wrapper is one of the table, or none that it can tell. *)
LEMMA StepOfTable ==
  ASSUME IInv, Serialised, LibraryInv, [Next]_vars
  PROVE  [Table!Next]_(Table!vars)
<1> USE VmcomputeAssumption DEF Statics
<1>0. TypeOK /\ \A c \in Callers : wanted[c] \in Functions /\ wanted[c] # Lib
  BY DEF IInv, TypeOK
<1>1. CASE UNCHANGED vars
  BY <1>1 DEF vars, Table!vars, Library, Answered
<1>2. ASSUME NEW c \in Callers, Call(c) \/ Enters(c) \/ Runs(c) \/ Return(c)
      PROVE  [Table!Next]_(Table!vars)
  <2> DEFINE Answers == [d \in Callers |-> Answered(d)]
             Silent == \A from, to : /\ Goto(c, from, to)
                                     /\ {from, to} \cap {"outside", "reached", "threw"} = {}
                                     => Answers' = Answers
             Stays == UNCHANGED <<exported, wanted, Library>>
  <2>0. Silent
    <3> SUFFICES ASSUME NEW from, NEW to, Goto(c, from, to),
                        {from, to} \cap {"outside", "reached", "threw"} = {}
                 PROVE  Answers' = Answers
      OBVIOUS
    <3>1. Answers' = [Answers EXCEPT ![c] = "pending"]
      BY <1>0, AnsweredAfter
    <3>2. Answered(c) = "pending"
      BY DEF Goto, Answered
    <3> QED
      BY <3>1, <3>2
  <2>1. CASE Call(c)
    <3>1. Answered(c) = "none" /\ Answers' = [Answers EXCEPT ![c] = "pending"]
      <4>1. Goto(c, "outside", "wrapper")
        BY <2>1 DEF Call
      <4>2. Answers' = [Answers EXCEPT ![c] = "pending"]
        BY <1>0, <4>1, AnsweredAfter
      <4> QED
        BY <4>1, <4>2 DEF Goto, Answered
    <3>2. Library' = Library
      BY <2>1 DEF Call, Library
    <3>3. Table!Ask(c)
      BY <2>1, <3>1, <3>2 DEF Call, Table!Ask
    <3> QED
      BY <3>3 DEF Table!Next
  <2>2. CASE EnterWrapper(c)
    <3>1. Answers' = Answers
      BY <2>0, <2>2 DEF EnterWrapper, Enter
    <3>2. Stays
      BY <1>0, <2>2 DEF EnterWrapper, Enter, Library, TypeOK
    <3> QED
      BY <3>1, <3>2 DEF Table!vars
  <2>3. CASE EnterLib(c)
    <3>1. Answers' = Answers
      BY <2>0, <2>3 DEF EnterLib, Enter
    <3>2. Stays
      BY <1>0, <2>3 DEF EnterLib, Enter, Library, TypeOK
    <3> QED
      BY <3>1, <3>2 DEF Table!vars
  <2>4. CASE LoadLibrary(c)
    <3>1. Answers' = Answers /\ Answered(c) = "pending"
      BY <2>0, <2>4 DEF LoadLibrary, Goto, Answered
    <3>2. guard[Lib] = "busy"
      BY <2>4 DEF LoadLibrary, Goto, IInv, MarkedInv
    <3>3. Library = "untried" /\ Library' \in {"loaded", "absent"}
      BY <1>0, <2>4, <3>2 DEF LoadLibrary, Initialised, Library, TypeOK
    <3>4. Table!Decide
      BY <2>4, <3>1, <3>3 DEF LoadLibrary, Table!Decide
    <3> QED
      BY <3>4 DEF Table!Next
  <2>5. ASSUME NEW from \in {"check", "GetProcAddress"}, Throw(c, from),
               Library # "untried", Library = "loaded" => wanted[c] \notin exported
        PROVE  Table!Answer(c)
    <3>1. Answered(c) = "pending" /\ Answers' = [Answers EXCEPT ![c] = "threw"]
      BY <1>0, <2>5, AnsweredAfter DEF Throw, Goto, Answered
    <3>2. Stays
      BY <1>0, <2>5 DEF Throw, Library, TypeOK
    <3>3. ~Table!Available(wanted[c]) /\ Library # "untried"
      BY <2>5 DEF Table!Available
    <3> QED
      BY <3>1, <3>2, <3>3 DEF Table!Answer
  <2>6. CASE CheckLib(c)
    <3>1. CASE Throw(c, "check") /\ value[Lib] = "zero"
      <4>1. Library = "absent"
        BY <3>1 DEF Throw, Goto, LibraryInv, Library, Lib
      <4>2. Table!Answer(c)
        BY <2>5, <3>1, <4>1
      <4> QED
        BY <4>2 DEF Table!Next
    <3>2. CASE Goto(c, "check", "GetProcAddress") /\ UNCHANGED <<exported, guard, value, wanted>>
      <4>1. Answers' = Answers
        BY <2>0, <3>2
      <4>2. Stays
        BY <3>2 DEF Library
      <4> QED
        BY <4>1, <4>2 DEF Table!vars
    <3> QED
      BY <2>6, <3>1, <3>2 DEF CheckLib
  <2>7. CASE GetProcAddress(c)
    <3>1. CASE Throw(c, "GetProcAddress") /\ wanted[c] \notin exported
      <4>1. Library = "loaded"
        BY <3>1 DEF Throw, Goto, LibraryInv, Library
      <4>2. Table!Answer(c)
        BY <2>5, <3>1, <4>1
      <4> QED
        BY <4>2 DEF Table!Next
    <3>2. CASE /\ Goto(c, "GetProcAddress", "invoke")
               /\ Initialised(wanted[c], wanted[c])
               /\ UNCHANGED <<exported, wanted>>
      <4>1. Answers' = Answers
        BY <2>0, <3>2
      <4>2. Stays
        BY <1>0, <3>2 DEF Initialised, Library, TypeOK
      <4> QED
        BY <4>1, <4>2 DEF Table!vars
    <3> QED
      BY <2>7, <3>1, <3>2 DEF GetProcAddress
  <2>8. CASE Invoke(c)
    <3>1. /\ value[wanted[c]] = wanted[c]
          /\ Library = "loaded" /\ wanted[c] \in exported
      BY <1>0, <2>8 DEF Invoke, Goto, IInv, BoundInv, LibraryInv, Library
    <3>2. Answered(c) = "pending" /\ Answers' = [Answers EXCEPT ![c] = "reached"]
      BY <1>0, <2>8, <3>1, AnsweredAfter DEF Invoke, Goto, Answered
    <3>3. Stays
      BY <2>8 DEF Invoke, Library
    <3>4. Table!Answer(c)
      BY <3>1, <3>2, <3>3 DEF Table!Answer, Table!Available
    <3> QED
      BY <3>4 DEF Table!Next
  <2>9. CASE Return(c)
    <3>1. Answered(c) \in {"reached", "threw"} /\ Answers' = [Answers EXCEPT ![c] = "none"]
      BY <1>0, <2>9, AnsweredAfter DEF Return, Goto, Answered
    <3>2. Stays
      BY <2>9 DEF Return, Library
    <3>3. Table!Leave(c)
      BY <3>1, <3>2 DEF Table!Leave
    <3> QED
      BY <3>3 DEF Table!Next
  <2> QED
    BY <1>2, <2>1, <2>2, <2>3, <2>4, <2>6, <2>7, <2>8, <2>9 DEF Enters, Runs
<1> QED
  BY <1>1, <1>2 DEF Next

(* The wrappers, bound lazily by any number of threads, keep the safety    *)
(* part of BindingTable (that of the property KeepsTable): one decision    *)
(* about the library, and from then on a call reaches its function exactly *)
(* when the library exports it.                                            *)
THEOREM ImplementsTable == Serialised /\ SafeSpec => Table!SafeSpec
<1>1. Init => Table!Init /\ LibraryInv
  BY VmcomputeAssumption DEF Init, Statics, LibraryInv, Table!Init, Library, Answered
<1>2. Serialised /\ IInv /\ LibraryInv /\ [Next]_vars => LibraryInv'
  BY LibraryKept
<1>3. Serialised /\ IInv /\ LibraryInv /\ [Next]_vars => [Table!Next]_(Table!vars)
  BY StepOfTable
<1>4. CASE Serialised
  <2>1. /\ IInv /\ LibraryInv /\ [Next]_vars => LibraryInv'
        /\ IInv /\ LibraryInv /\ [Next]_vars => [Table!Next]_(Table!vars)
    BY <1>2, <1>3, <1>4
  <2>2. SafeSpec => []IInv
    BY <1>4, Invariant
  <2> QED
    BY <1>1, <2>1, <2>2, PTL DEF SafeSpec, Table!SafeSpec
<1>5. CASE ~Serialised
  BY <1>5
<1> QED
  BY <1>4, <1>5

===============================================================================
