----------------------------- MODULE BindingTable -----------------------------
(***************************************************************************)
(* What the wrappers of vmcompute.cpp promise their callers: there is one  *)
(* library, whether it can be loaded is decided once, when it is first     *)
(* wanted, and from then on a call reaches the function it names exactly   *)
(* when the library exports it; any other call throws.  No static variable *)
(* and no waiting is left at this level.                                   *)
(***************************************************************************)

CONSTANTS Callers, Functions

VARIABLES
  exported,  \* the functions the library exports
  library,   \* untried, loaded or absent
  wanted,    \* the function each caller has asked for last
  answer     \* none, pending, reached or threw

vars == <<exported, library, wanted, answer>>

Init == /\ exported \in SUBSET Functions
        /\ library = "untried"
        /\ wanted \in [Callers -> Functions]
        /\ answer = [c \in Callers |-> "none"]

Ask(c) == /\ answer[c] = "none"
          /\ \E f \in Functions : wanted' = [wanted EXCEPT ![c] = f]
          /\ answer' = [answer EXCEPT ![c] = "pending"]
          /\ UNCHANGED <<exported, library>>

Decide == /\ library = "untried"
          /\ \E c \in Callers : answer[c] = "pending"
          /\ library' \in {"loaded", "absent"}
          /\ UNCHANGED <<exported, wanted, answer>>

Available(f) == library = "loaded" /\ f \in exported

Answer(c) ==
  /\ answer[c] = "pending"
  /\ library # "untried"
  /\ answer' = [answer EXCEPT ![c] = IF Available(wanted[c]) THEN "reached" ELSE "threw"]
  /\ UNCHANGED <<exported, library, wanted>>

Leave(c) == /\ answer[c] \in {"reached", "threw"}
            /\ answer' = [answer EXCEPT ![c] = "none"]
            /\ UNCHANGED <<exported, library, wanted>>

Next == Decide \/ \E c \in Callers : Ask(c) \/ Answer(c) \/ Leave(c)

SafeSpec == Init /\ [][Next]_vars

(* Whoever asks is answered. *)
Spec == /\ SafeSpec
        /\ WF_vars(Decide)
        /\ \A c \in Callers : WF_vars(Answer(c))

===============================================================================
