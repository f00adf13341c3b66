------------------------------- MODULE Vmcompute -------------------------------
(***************************************************************************)
(* The binding to vmcompute.dll (src/src/vmcompute.cpp).  Each of the      *)
(* sixteen wrappers keeps the address of its function in a static local    *)
(* that the first call initialises with lookupfun; lookupfun asks          *)
(* vmcomputelib, which keeps the library in a static local of its own.     *)
(* Both throw: the address is then not kept and the next call looks it up  *)
(* again, but a library that could not be loaded is kept as null.  An      *)
(* address is given here by the name of what is found there, since         *)
(* reinterpret_cast makes any of them into the type the wrapper calls.     *)
(*                                                                         *)
(* Serialised is the C++11 rule for such statics: while one thread runs an *)
(* initialiser, the others wait at the declaration.  Without it (Visual    *)
(* Studio 2013, which README.md builds with) a bit is set before the       *)
(* initialiser runs, and a thread that arrives meanwhile may use the       *)
(* static as it is, zero, or may run the initialiser too.                  *)
(***************************************************************************)

CONSTANTS
  Callers,    \* the threads that call the wrappers
  Functions,  \* the wrappers
  Serialised  \* whether threads wait for a static another one initialises

Lib == "vmcompute"  \* the static of vmcomputelib; the others have the names of the wrappers

Statics == Functions \cup {Lib}

ASSUME VmcomputeAssumption == /\ {Lib, "zero"} \cap Functions = {}
                              /\ Serialised \in BOOLEAN

VARIABLES
  exported,  \* the functions the DLL exports
  guard,     \* whether each static is initialised: unset, busy or set
  value,     \* what each static holds: zero, or the address of what was found
  wanted,    \* the wrapper each caller is in, or was in last
  pc         \* where in it

vars == <<exported, guard, value, wanted, pc>>

Init == /\ exported \in SUBSET Functions
        /\ guard = [s \in Statics |-> "unset"]
        /\ value = [s \in Statics |-> "zero"]
        /\ wanted \in [Callers -> Functions]
        /\ pc = [c \in Callers |-> "outside"]

-------------------------------------------------------------------------------
Goto(c, from, to) == /\ pc[c] = from
                     /\ pc' = [pc EXCEPT ![c] = to]

(* Mutant: nobody is told that the static is being initialised. *)
EnterUnclaimed(c, s, from, initialise, use) ==
  /\ Goto(c, from, IF guard[s] = "set" THEN use ELSE initialise)
  /\ UNCHANGED <<exported, guard, value, wanted>>

(* The declaration of static s is reached: it is used, or this thread      *)
(* initialises it, or waits.                                               *)
Enter(c, s, from, initialise, use) ==
  /\ \/ guard[s] = "set" /\ Goto(c, from, use) /\ UNCHANGED guard
     \/ /\ guard[s] = "unset"
        /\ Goto(c, from, initialise)
        /\ guard' = [guard EXCEPT ![s] = "busy"]
     \/ /\ guard[s] = "busy"
        /\ ~Serialised
        /\ Goto(c, from, initialise) \/ Goto(c, from, use)
        /\ UNCHANGED guard
  /\ UNCHANGED <<exported, value, wanted>>

Initialised(s, v) == /\ guard' = [guard EXCEPT ![s] = "set"]
                     /\ value' = [value EXCEPT ![s] = v]

(* Mutant: a static whose initialiser throws counts as initialised. *)
ThrowKeepingGuard(c, from) == /\ Goto(c, from, "threw")
                              /\ guard' = [guard EXCEPT ![wanted[c]] = "set"]
                              /\ UNCHANGED <<exported, value, wanted>>

(* lookupfun throws out of the initialiser of the wrapper's static. *)
Throw(c, from) == /\ Goto(c, from, "threw")
                  /\ guard' = [guard EXCEPT ![wanted[c]] = "unset"]
                  /\ UNCHANGED <<exported, value, wanted>>

Call(c) == /\ Goto(c, "outside", "wrapper")
           /\ \E f \in Functions : wanted' = [wanted EXCEPT ![c] = f]
           /\ UNCHANGED <<exported, guard, value>>

EnterWrapper(c) == Enter(c, wanted[c], "wrapper", "lookupfun", "invoke")

EnterLib(c) == Enter(c, Lib, "lookupfun", "LoadLibrary", "check")

(* Mutant: the library's static is left open when the load fails. *)
LoadLibraryRetrying(c) ==
  /\ Goto(c, "LoadLibrary", "check")
  /\ \/ Initialised(Lib, Lib)
     \/ guard' = [guard EXCEPT ![Lib] = "unset"] /\ UNCHANGED value
  /\ UNCHANGED <<exported, wanted>>

(* LoadLibraryW returns null or the library, and either is kept. *)
LoadLibrary(c) == /\ Goto(c, "LoadLibrary", "check")
                  /\ \E v \in {"zero", Lib} : Initialised(Lib, v)
                  /\ UNCHANGED <<exported, wanted>>

CheckLib(c) ==
  \/ value[Lib] = "zero" /\ Throw(c, "check")
  \/ /\ value[Lib] = Lib
     /\ Goto(c, "check", "GetProcAddress")
     /\ UNCHANGED <<exported, guard, value, wanted>>

(* Mutant: res is static too, and every lookup after the first returns it. *)
GetProcAddressOnce(c) ==
  \/ wanted[c] \notin exported /\ Throw(c, "GetProcAddress")
  \/ /\ wanted[c] \in exported
     /\ Goto(c, "GetProcAddress", "invoke")
     /\ LET before == {value[f] : f \in Functions} \ {"zero"}
        IN  IF before = {} THEN Initialised(wanted[c], wanted[c])
            ELSE \E v \in before : Initialised(wanted[c], v)
     /\ UNCHANGED <<exported, wanted>>

GetProcAddress(c) ==
  \/ wanted[c] \notin exported /\ Throw(c, "GetProcAddress")
  \/ /\ wanted[c] \in exported
     /\ Goto(c, "GetProcAddress", "invoke")
     /\ Initialised(wanted[c], wanted[c])
     /\ UNCHANGED <<exported, wanted>>

(* fun(...): a call through a null pointer ends the process. *)
Invoke(c) ==
  /\ Goto(c, "invoke", IF value[wanted[c]] = "zero" THEN "crashed" ELSE "reached")
  /\ UNCHANGED <<exported, guard, value, wanted>>

Return(c) == /\ Goto(c, "reached", "outside") \/ Goto(c, "threw", "outside")
             /\ UNCHANGED <<exported, guard, value, wanted>>

Enters(c) == EnterWrapper(c) \/ EnterLib(c)

Runs(c) == LoadLibrary(c) \/ CheckLib(c) \/ GetProcAddress(c) \/ Invoke(c)

Alive == \A c \in Callers : pc[c] # "crashed"

Next == \/ Alive /\ \E c \in Callers : Call(c) \/ Enters(c) \/ Runs(c) \/ Return(c)
        \/ ~Alive /\ UNCHANGED vars

SafeSpec == Init /\ [][Next]_vars

(* Threads run; a thread that waits for a static that is free again and    *)
(* again, because its initialiser keeps throwing in other threads, gets at *)
(* it.  Nobody has to call.                                                *)
Fairness == \A c \in Callers : WF_vars(Alive /\ Runs(c)) /\ SF_vars(Alive /\ Enters(c))

Spec == SafeSpec /\ Fairness

-------------------------------------------------------------------------------
(* Among the types: each static holds the address of its own function, or  *)
(* none; the casts of the wrappers would hide any other.                   *)
TypeOK == /\ exported \subseteq Functions
          /\ guard \in [Statics -> {"unset", "busy", "set"}]
          /\ value \in [Statics -> Statics \cup {"zero"}]
          /\ \A s \in Statics : value[s] \in {"zero", s}
          /\ wanted \in [Callers -> Functions]
          /\ pc \in [Callers -> {"outside", "wrapper", "lookupfun", "LoadLibrary", "check",
                                 "GetProcAddress", "invoke", "reached", "threw", "crashed"}]

(* The callers inside the initialiser of static s. *)
Initialising(s) ==
  {c \in Callers : \/ s = wanted[c] /\ pc[c] \in {"lookupfun", "LoadLibrary", "check",
                                                 "GetProcAddress"}
                   \/ s = Lib /\ pc[c] = "LoadLibrary"}

(* Each static is initialised by one thread at a time, however many call   *)
(* at once and however often the lookup throws, and it stays marked for as *)
(* long as that takes.                                                     *)
OneInitialiser ==
  \A s \in Statics : /\ \A c, d \in Initialising(s) : c = d
                     /\ guard[s] = "busy" <=> Initialising(s) # {}

(* A wrapper calls its own function and never through a pointer that was   *)
(* not found: not after an earlier lookup of it threw, and not while       *)
(* another thread is at it.                                                *)
InvokesFound == \A c \in Callers : pc[c] = "invoke" => value[wanted[c]] = wanted[c]

(* Whatever threads that race for a static do to each other, nothing lasts: *)
(* once they have all left, no static is half initialised, and the address *)
(* kept by a wrapper is the one the library exports.                       *)
RaceLeavesNoTrace ==
  (\A c \in Callers : pc[c] \in {"outside", "reached", "threw"})
    => /\ \A s \in Statics : guard[s] # "busy"
       /\ \A f \in Functions : guard[f] = "set" => value[f] = f /\ f \in exported

(* What BindingTable sees of the library, and of caller c. *)
Library == IF guard[Lib] # "set" THEN "untried"
           ELSE IF value[Lib] = Lib THEN "loaded" ELSE "absent"

Answered(c) == IF pc[c] = "outside" THEN "none"
               ELSE IF pc[c] \in {"reached", "threw"} THEN pc[c] ELSE "pending"

(* The wrappers, lazily bound by any number of threads, are as good as a   *)
(* table of functions filled in once (BindingTable), and answer every call. *)
Table == INSTANCE BindingTable
           WITH library <- Library, answer <- [c \in Callers |-> Answered(c)]

KeepsTable == Table!Spec

===============================================================================
