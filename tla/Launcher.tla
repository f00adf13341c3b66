-------------------------------- MODULE Launcher --------------------------------
(***************************************************************************)
(* The command line (src/src/main.cpp) and the C interface it calls        *)
(* (hostcompute_nspawn and hostcompute_nspawn_free, at the end of          *)
(* src/src/hostcompute_nspawn.cpp).  main reads its options, chooses and   *)
(* reads a configuration file, and hands its text over with a length; the  *)
(* interface answers with null or with a message that its caller has to    *)
(* free.  A program linked with the library calls the interface too.       *)
(*                                                                         *)
(* What spawn_and_wait does (SpawnAndWait) is here that it returns,        *)
(* throws, takes the process with it, or goes on for ever.                 *)
(***************************************************************************)
EXTENDS Integers, Sequences

CONSTANTS
  CommandLines,  \* sequences of [kind, value]: an option, an argument, or what popt refuses
  Files,         \* what each path holds: a text, or Unreadable
  Unreadable,
  DefaultPath,   \* config.json beside the executable
  NullText,      \* the null pointer a library user may pass
  MaxInt         \* the largest int

Paths == DOMAIN Files

(* A text is its length and the lengths of those beginnings of it, itself  *)
(* among them or not, that are a complete configuration: a valid document  *)
(* stays one when blanks follow it, and no longer when anything else does. *)
IsText(t) == t.length \in Nat /\ t.holds \subseteq 0 .. t.length

Empty == ""  \* no path

Kinds == {"config", "directory", "help", "argument", "refused"}

(* How many numbers an int holds: as many as its bits have values. *)
Ints == 2 * (MaxInt + 1)

ASSUME LauncherAssumption ==
  /\ CommandLines \subseteq Seq([kind : Kinds, value : STRING])
  /\ \A line \in CommandLines : \A i \in DOMAIN line :
       /\ line[i].kind = "help" => line[i].value = "yes"
       /\ line[i].kind = "config" => line[i].value \in Paths \cup {Empty}
  /\ MaxInt \in Nat \ {0}
  /\ DefaultPath \in Paths
  /\ \A p \in Paths : Files[p] # Unreadable => IsText(Files[p])

VARIABLES
  argv,         \* the command line
  next,         \* the element popt looks at next
  opt,          \* where popt stores the options: config_opt, directory_opt, help_opt
  args,         \* what is left over
  ctx,          \* the popt context: none, null or live
  parse_error,  \* whether it is non-empty
  config,       \* the public options
  directory,
  help,         \* yes, no or indeterminate
  text,         \* the configuration text, and the length passed with it
  len,
  spawned,      \* what came of spawn_and_wait: no, running, returned, threw
  err,          \* the message: none, owned or freed
  printed,      \* error, usage, help
  exit,         \* the exit code, or -1
  pc

parserVars == <<argv, next, opt, args, ctx, parse_error, config, directory, help>>
callVars   == <<text, len, spawned, err>>
vars       == <<argv, next, opt, args, ctx, parse_error, config, directory, help,
                text, len, spawned, err, printed, exit, pc>>

MainStarts == /\ argv \in CommandLines
              /\ text = NullText
              /\ len = 0
              /\ pc = "context"

(* A library user passes a text and its length or a lesser one, or no      *)
(* text, or a length that is none.                                         *)
LibraryCalls == /\ argv = <<>>
                /\ \/ text = NullText /\ len \in -1..1
                   \/ \E p \in Paths :
                        /\ Files[p] # Unreadable
                        /\ text = Files[p]
                        /\ len \in {n \in -1 .. text.length : n <= MaxInt}
                /\ pc = "check_arguments"

Init == /\ MainStarts \/ LibraryCalls
        /\ next = 1
        /\ opt = [config |-> Empty, directory |-> Empty, help |-> "no"]
        /\ args = 0
        /\ ctx = "none"
        /\ parse_error = FALSE
        /\ config = Empty
        /\ directory = Empty
        /\ help = "indeterminate"
        /\ spawned = "no"
        /\ err = "none"
        /\ printed = {}
        /\ exit = -1

CalledByMain == ctx # "none"

-------------------------------------------------------------------------------
(* The constructor of Options.  It returns early when popt has no context  *)
(* or does not know an option; only its last part sets the public members. *)

(* Mutant: the missing context is not recorded as an error. *)
poptGetContextSilently ==
  /\ pc = "context"
  /\ \/ ctx' = "live" /\ pc' = "options"
     \/ ctx' = "null" /\ pc' = "check_options"
  /\ UNCHANGED <<argv, next, opt, args, parse_error, config, directory, help, callVars, printed,
                 exit>>

poptGetContext ==
  /\ pc = "context"
  /\ \/ ctx' = "live" /\ pc' = "options" /\ UNCHANGED parse_error
     \/ ctx' = "null" /\ pc' = "check_options" /\ parse_error' = TRUE
  /\ UNCHANGED <<argv, next, opt, args, config, directory, help, callVars, printed, exit>>

Refuse == parse_error' = TRUE /\ pc' = "check_options"

poptGetNextOpt ==
  /\ pc = "options"
  /\ next <= Len(argv)
  /\ next' = next + 1
  /\ LET t == argv[next]
     IN  \/ /\ t.kind \in DOMAIN opt
            /\ opt' = [opt EXCEPT ![t.kind] = t.value]
            /\ UNCHANGED <<args, parse_error, pc>>
         \/ t.kind = "argument" /\ args' = args + 1 /\ UNCHANGED <<opt, parse_error, pc>>
         \/ t.kind = "refused" /\ Refuse /\ UNCHANGED <<opt, args>>
  /\ UNCHANGED <<argv, ctx, config, directory, help, callVars, printed, exit>>

SetPublic ==
  /\ pc = "options"
  /\ next > Len(argv)
  /\ parse_error' = (args > 0)
  /\ config' = opt.config
  /\ directory' = opt.directory
  /\ help' = opt.help
  /\ pc' = "check_options"
  /\ UNCHANGED <<argv, next, opt, args, ctx, callVars, printed, exit>>

-------------------------------------------------------------------------------
(* main.                                                                   *)

Exit(code, what) == /\ exit' = code
                    /\ printed' = printed \cup what
                    /\ pc' = "exited"

(* The usage of a null context: the library may die of it. *)
CheckOptions ==
  /\ pc = "check_options"
  /\ \/ parse_error /\ Exit(1, {"error", "usage"})
     \/ parse_error /\ ctx = "null" /\ pc' = "crashed" /\ UNCHANGED <<printed, exit>>
     \/ ~parse_error /\ pc' = "help" /\ UNCHANGED <<printed, exit>>
  /\ UNCHANGED <<parserVars, callVars>>

ShowHelp ==
  /\ pc = "help"
  /\ \/ help \in {"yes", "indeterminate"} /\ Exit(0, {"help"})
     \/ help \in {"no", "indeterminate"} /\ pc' = "read" /\ UNCHANGED <<printed, exit>>
  /\ UNCHANGED <<parserVars, callVars>>

ConfigPath == IF config # Empty THEN config ELSE DefaultPath

(* Mutant: as an unsigned number. *)
NarrowUnsigned(n) == n % Ints

(* Mutant: the sign is masked away, so that the length is never negative. *)
NarrowUnsigning(n) == n % (MaxInt + 1)

(* static_cast<int>: the low bits, as a signed number. *)
Narrow(n) == LET low == n % Ints IN IF low > MaxInt THEN low - Ints ELSE low

ReadConfig ==
  /\ pc = "read"
  /\ \/ /\ Files[ConfigPath] # Unreadable
        /\ text' = Files[ConfigPath]
        /\ len' = Narrow(text'.length)
        /\ pc' = "check_arguments"
        /\ UNCHANGED <<printed, exit>>
     \/ Files[ConfigPath] = Unreadable /\ Exit(1, {"error"}) /\ UNCHANGED <<text, len>>
  /\ UNCHANGED <<parserVars, spawned, err>>

-------------------------------------------------------------------------------
(* hostcompute_nspawn.                                                     *)

(* alloc_copy of a message, which goes to the caller. *)
Answer == err' = "owned" /\ pc' = "answer"

(* Mutant: only a length of zero is refused. *)
IsNotZero(n) == n # 0

is_uint32_positive(n) == n > 0

CheckArguments ==
  /\ pc = "check_arguments"
  /\ \/ (text = NullText \/ ~is_uint32_positive(len)) /\ Answer
     \/ text # NullText /\ is_uint32_positive(len) /\ pc' = "load" /\ UNCHANGED err
  /\ UNCHANGED <<parserVars, text, len, spawned, printed, exit>>

(* Parsing as much of the text as the length says, and nspawn_config. *)
LoadSettings ==
  /\ pc = "load"
  /\ \/ len \in text.holds /\ pc' = "spawn" /\ spawned' = "running" /\ UNCHANGED err
     \/ len \notin text.holds /\ Answer /\ UNCHANGED spawned
  /\ UNCHANGED <<parserVars, text, len, printed, exit>>

Throw == spawned' = "threw" /\ Answer

spawn_and_wait ==
  /\ pc = "spawn"
  /\ \/ spawned' = "returned" /\ pc' = "answer" /\ UNCHANGED err
     \/ Throw
     \/ pc' = "crashed" /\ UNCHANGED <<spawned, err>>
  /\ UNCHANGED <<parserVars, text, len, printed, exit>>

(* Mutant: main leaves the message to the end of the process. *)
TakeAnswerUnfreed ==
  /\ pc = "answer"
  /\ \/ err = "owned" /\ Exit(1, {"error"})
     \/ err = "none" /\ Exit(0, {})
  /\ UNCHANGED <<parserVars, callVars>>

(* What the caller does with it; hostcompute_nspawn_free is called once.   *)
TakeAnswer ==
  /\ pc = "answer"
  /\ \/ err = "owned" /\ err' = "freed" /\ Exit(1, {"error"})
     \/ err = "none" /\ Exit(0, {}) /\ UNCHANGED err
  /\ UNCHANGED <<parserVars, text, len, spawned>>

Next == \/ poptGetContext
        \/ poptGetNextOpt
        \/ SetPublic
        \/ CheckOptions
        \/ ShowHelp
        \/ ReadConfig
        \/ CheckArguments
        \/ LoadSettings
        \/ spawn_and_wait
        \/ TakeAnswer
        \/ pc \in {"exited", "crashed"} /\ UNCHANGED vars

Spec == Init /\ [][Next]_vars

-------------------------------------------------------------------------------
TypeOK == /\ next \in 1 .. Len(argv) + 1
          /\ args \in 0 .. Len(argv)
          /\ ctx \in {"none", "null", "live"}
          /\ parse_error \in BOOLEAN
          /\ help \in {"yes", "no", "indeterminate"}
          /\ len \in -(MaxInt + 1) .. MaxInt
          /\ spawned \in {"no", "running", "returned", "threw"}
          /\ err \in {"none", "owned", "freed"}
          /\ printed \subseteq {"error", "usage", "help"}
          /\ exit \in -1..1

(* What the command line asks for, whatever the order popt meets it in:    *)
(* the last -c counts, an empty one as none.                               *)
Given(kind) == {i \in DOMAIN argv : argv[i].kind = kind}

LastGiven(kind) == argv[CHOOSE i \in Given(kind) : \A j \in Given(kind) : j <= i].value

AskedPath == IF Given("config") # {} /\ LastGiven("config") # Empty THEN LastGiven("config")
             ELSE DefaultPath

(* main starts a container only for a command line it understands as a     *)
(* whole and that does not ask for help, with the settings of the file     *)
(* asked for, all of them, if that has less characters than there are      *)
(* ints: a length between the largest int and that number is refused.  Of  *)
(* a longer file the low bits of the length may be a legal one, and then   *)
(* the file is cut there.                                                  *)
RunsWhatWasAsked ==
  spawned # "no" /\ CalledByMain
    => /\ Given("refused") \cup Given("argument") \cup Given("help") = {}
       /\ text = Files[AskedPath]
       /\ text.length < Ints => len = text.length /\ text.length \in text.holds

(* Whatever the length is narrowed to, and whatever a library user passes, *)
(* the parser is given a text that is not empty and ends where the text    *)
(* ends or before, never a negative size.                                  *)
ReadsWithinText == pc = "load" => text # NullText /\ len \in 1 .. text.length

(* main decides about help on a member that the constructor of Options has *)
(* set, in spite of its early returns.                                     *)
HelpIsInitialised == pc \in {"help", "read"} => help # "indeterminate"

(* The exit code, or null for a library user, tells what has happened: 0   *)
(* is a spawn_and_wait that has returned (a clean-up may have failed, which *)
(* it only prints), or help; 1 is anything else, with a message printed;   *)
(* and no message is left to be freed.                                     *)
ExitTellsOutcome ==
  /\ exit = 0 => \/ spawned = "returned" /\ printed = {}
                 \/ spawned = "no" /\ printed = {"help"}
  /\ exit = 1 => spawned \in {"no", "threw"} /\ "error" \in printed
  /\ exit # -1 => err # "owned"

===============================================================================
