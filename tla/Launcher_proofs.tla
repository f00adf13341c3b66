---------------------------- MODULE Launcher_proofs ----------------------------
(***************************************************************************)
(* Proofs about the command line and the C interface (main.cpp, and the    *)
(* end of hostcompute_nspawn.cpp): for any command lines, any files of any *)
(* length, and any largest int.                                            *)
(***************************************************************************)
EXTENDS Launcher, SequenceTheorems, TLAPS

(* An element of a command line. *)
Element == [kind : Kinds, value : STRING]

(* Where main or the interface may be before it calls spawn_and_wait. *)
Before == {"context", "options", "check_options", "help", "read", "check_arguments", "load"}

(* Until spawn_and_wait is called nothing has happened; then the message   *)
(* tells what has, and the exit code follows the message.                  *)
OutcomeInv ==
  /\ pc \in Before \cup {"spawn", "answer", "exited", "crashed"}
  /\ pc \in Before => spawned = "no"
  /\ pc = "spawn" => spawned = "running"
  /\ pc \in Before \cup {"spawn"} => err = "none"
  /\ pc \in Before \cup {"spawn", "answer"} => printed = {} /\ exit = -1
  /\ pc = "answer" => \/ err = "owned" /\ spawned \in {"no", "threw"}
                      \/ err = "none" /\ spawned = "returned"
  /\ pc = "crashed" => exit = -1
  /\ ExitTellsOutcome

(* What popt has stored of the first n elements. *)
Stored(n) ==
  /\ \A i \in 1..n : /\ argv[i].kind # "refused"
                     /\ argv[i].kind = "argument" => args > 0
                     /\ argv[i].kind = "help" => opt.help = "yes"
  /\ \/ opt.config = Empty /\ \A i \in 1..n : argv[i].kind # "config"
     \/ \E i \in 1..n : /\ argv[i].kind = "config"
                        /\ opt.config = argv[i].value
                        /\ \A j \in 1..n : argv[j].kind = "config" => j <= i

ParserTypes == /\ argv \in Seq(Element)
               /\ Len(argv) > 0 => argv \in CommandLines
               /\ next \in 1 .. Len(argv) + 1
               /\ args \in Nat
               /\ opt \in [config : Paths \cup {Empty}, directory : STRING \cup {Empty}, help : {"yes", "no"}]

ParserInv == /\ ParserTypes
             /\ pc \in {"context", "options"} => Stored(next - 1) /\ ~parse_error
             /\ pc = "context" => next = 1

(* The public options are what the whole command line says. *)
Understood == /\ Given("refused") \cup Given("argument") = {}
              /\ help \in {"yes", "no"}
              /\ Given("help") # {} => help = "yes"
              /\ ConfigPath = AskedPath
              /\ ConfigPath \in Paths

Asked == CalledByMain => /\ Given("refused") \cup Given("argument") \cup Given("help") = {}
                         /\ text = Files[AskedPath]

(* A length that is positive is one of a beginning of the text, and from   *)
(* main that of the whole text, if there is an int for every length up to  *)
(* it.                                                                     *)
Measured == /\ len \in 1 .. text.length
            /\ CalledByMain /\ text.length < Ints => len = text.length

(* The way from the options to the call: at each stop, what is known of    *)
(* the text and of its length.                                             *)
WayInv == /\ pc = "check_options" /\ ~parse_error => Understood
          /\ pc = "help" => Understood
          /\ pc = "read" => Understood /\ help = "no"
          /\ pc \in {"check_arguments", "load"} => Asked /\ len \in Int
          /\ pc = "check_arguments" /\ text # NullText /\ len > 0 => Measured
          /\ pc = "load" => text # NullText /\ Measured
          /\ spawned # "no" => Asked /\ Measured /\ len \in text.holds

IInv == OutcomeInv /\ ParserInv /\ WayInv

-------------------------------------------------------------------------------
(* Nothing has happened at the start. *)
LEMMA InitOutcome == Init => OutcomeInv
<1> SUFFICES ASSUME Init PROVE OutcomeInv
  OBVIOUS
<1>1. pc \in {"context", "check_arguments"}
  BY DEF Init, MainStarts, LibraryCalls
<1>2. spawned = "no" /\ err = "none" /\ printed = {} /\ exit = -1
  BY DEF Init
<1> QED
  BY <1>1, <1>2 DEF OutcomeInv, Before, ExitTellsOutcome

(* Every step of main and of the interface keeps message and exit code true. *)
LEMMA NextOutcome == OutcomeInv /\ [Next]_vars => OutcomeInv'
<1> SUFFICES ASSUME OutcomeInv, [Next]_vars PROVE OutcomeInv'
  OBVIOUS
<1> USE DEF OutcomeInv, Before, ExitTellsOutcome, callVars, parserVars
<1>1. CASE poptGetContext \/ poptGetNextOpt \/ SetPublic
  BY <1>1 DEF poptGetContext, poptGetNextOpt, SetPublic, Refuse
<1>2. CASE CheckOptions \/ ShowHelp \/ ReadConfig
  BY <1>2 DEF CheckOptions, ShowHelp, ReadConfig, Exit
<1>3. CASE CheckArguments \/ LoadSettings
  BY <1>3 DEF CheckArguments, LoadSettings, Answer
<1>4. CASE spawn_and_wait
  BY <1>4 DEF spawn_and_wait, Throw, Answer
<1>5. CASE TakeAnswer
  BY <1>5 DEF TakeAnswer, Exit
<1>6. CASE UNCHANGED vars
  BY <1>6 DEF vars
<1> QED
  BY <1>1, <1>2, <1>3, <1>4, <1>5, <1>6 DEF Next

-------------------------------------------------------------------------------
(* What is assumed of an element of a command line. *)
LEMMA ElementOfLine ==
  ASSUME ParserTypes, NEW i \in 1..Len(argv)
  PROVE  /\ argv[i] \in Element
         /\ argv[i].kind = "help" => argv[i].value = "yes"
         /\ argv[i].kind = "config" => argv[i].value \in Paths \cup {Empty}
<1>1. argv \in Seq(Element) /\ i \in DOMAIN argv
  BY DEF ParserTypes
<1>2. argv \in CommandLines
  BY <1>1 DEF ParserTypes
<1> QED
  BY <1>1, <1>2, LauncherAssumption

(* Nothing is read at the start, and nothing stored. *)
LEMMA InitParser == Init => ParserInv
<1> SUFFICES ASSUME Init PROVE ParserInv
  OBVIOUS
<1>1. argv = <<>> \/ argv \in CommandLines
  BY DEF Init, MainStarts, LibraryCalls
<1>2. CommandLines \subseteq Seq(Element)
  BY LauncherAssumption DEF Element
<1>3. argv \in Seq(Element) /\ (Len(argv) > 0 => argv \in CommandLines)
  <2>1. CASE argv = <<>>
    BY <2>1, EmptySeq
  <2>2. CASE argv \in CommandLines
    BY <1>2, <2>2
  <2> QED
    BY <1>1, <2>1, <2>2
<1>4. next = 1 /\ args = 0 /\ opt = [config |-> Empty, directory |-> Empty, help |-> "no"] /\ ~parse_error
  BY DEF Init
<1>5. ParserTypes
  BY <1>3, <1>4 DEF ParserTypes
<1> QED
  BY <1>4, <1>5 DEF ParserInv, Stored

(* An element is stored with what came before it, or ends the parse. *)
LEMMA OptionStored ==
  ASSUME ParserInv, poptGetNextOpt
  PROVE  ParserInv'
<1> DEFINE t == argv[next]
<1>1. /\ next \in 1 .. Len(argv) /\ next' = next + 1 /\ UNCHANGED argv
      /\ Stored(next - 1) /\ ~parse_error /\ ParserTypes /\ pc = "options"
  BY DEF poptGetNextOpt, ParserInv, ParserTypes
<1>2. /\ t \in Element
      /\ t.kind = "help" => t.value = "yes"
      /\ t.kind = "config" => t.value \in Paths \cup {Empty}
  BY <1>1, ElementOfLine
<1>3. /\ opt \in [config : Paths \cup {Empty}, directory : STRING \cup {Empty}, help : {"yes", "no"}]
      /\ args \in Nat
  BY <1>1 DEF ParserTypes
<1>4. /\ next' \in 1 .. Len(argv') + 1
      /\ argv' \in Seq(Element) /\ (Len(argv') > 0 => argv' \in CommandLines)
      /\ next' - 1 = next
      /\ \A i \in 1..next : i \in 1 .. next - 1 \/ i = next
  BY <1>1 DEF ParserTypes
<1>5. CASE t.kind = "refused"
  <2>1. UNCHANGED <<opt, args>> /\ pc' = "check_options"
    BY <1>3, <1>5 DEF poptGetNextOpt, Refuse
  <2> QED
    BY <1>3, <1>4, <2>1 DEF ParserInv, ParserTypes
<1>6. CASE t.kind # "refused"
  <2>1. pc' = "options" /\ ~parse_error'
    BY <1>1, <1>6 DEF poptGetNextOpt
  <2>2. CASE t.kind = "argument"
    <3>1. args' = args + 1 /\ UNCHANGED opt
      BY <1>3, <2>2 DEF poptGetNextOpt
    <3>2. ParserTypes'
      BY <1>3, <1>4, <3>1 DEF ParserTypes
    <3>3. Stored(next - 1)'
      BY <1>1, <1>3, <1>4, <2>2, <3>1 DEF Stored
    <3> QED
      BY <1>1, <1>4, <2>1, <3>2, <3>3 DEF ParserInv
  <2>3. CASE t.kind \in {"config", "directory", "help"}
    <3>1. opt' = [opt EXCEPT ![t.kind] = t.value] /\ UNCHANGED args
      BY <2>3 DEF poptGetNextOpt
    <3>2. t.value \in STRING
      BY <1>2 DEF Element
    <3>3. /\ opt'.config = IF t.kind = "config" THEN t.value ELSE opt.config
          /\ opt'.help = IF t.kind = "help" THEN "yes" ELSE opt.help
          /\ opt' \in [config : Paths \cup {Empty}, directory : STRING \cup {Empty}, help : {"yes", "no"}]
      BY <1>2, <1>3, <2>3, <3>1, <3>2
    <3>4. ParserTypes'
      BY <1>2, <1>3, <1>4, <3>1, <3>3 DEF ParserTypes
    <3>5. \A i \in 1..next : /\ argv[i].kind # "refused"
                             /\ argv[i].kind = "argument" => args > 0
                             /\ argv[i].kind = "help" => opt'.help = "yes"
      BY <1>1, <1>4, <2>3, <3>3 DEF Stored
    <3>6. \/ opt'.config = Empty /\ \A i \in 1..next : argv[i].kind # "config"
          \/ \E i \in 1..next : /\ argv[i].kind = "config"
                                /\ opt'.config = argv[i].value
                                /\ \A j \in 1..next : argv[j].kind = "config" => j <= i
      <4>1. CASE t.kind = "config"
        BY <1>1, <3>3, <4>1
      <4>2. CASE t.kind # "config"
        <5>1. CASE opt.config = Empty /\ \A i \in 1 .. next - 1 : argv[i].kind # "config"
          BY <1>4, <3>3, <4>2, <5>1
        <5>2. ASSUME NEW i \in 1 .. next - 1, argv[i].kind = "config", opt.config = argv[i].value,
                     \A j \in 1 .. next - 1 : argv[j].kind = "config" => j <= i
              PROVE  /\ i \in 1..next /\ opt'.config = argv[i].value
                     /\ \A j \in 1..next : argv[j].kind = "config" => j <= i
          BY <1>1, <1>4, <3>3, <4>2, <5>2
        <5> QED
          BY <1>1, <5>1, <5>2 DEF Stored
      <4> QED
        BY <4>1, <4>2
    <3>7. Stored(next - 1)'
      BY <1>1, <1>4, <3>1, <3>5, <3>6 DEF Stored
    <3> QED
      BY <1>1, <1>4, <2>1, <3>4, <3>7 DEF ParserInv
  <2> QED
    BY <1>2, <1>6, <2>2, <2>3 DEF Element, Kinds
<1> QED
  BY <1>5, <1>6

(* The parser has stored what it has read, and nothing else moves it. *)
LEMMA NextParser == ParserInv /\ [Next]_vars => ParserInv'
<1> SUFFICES ASSUME ParserInv, [Next]_vars PROVE ParserInv'
  OBVIOUS
<1>1. CASE poptGetContext
  BY <1>1 DEF poptGetContext, ParserInv, ParserTypes, Stored
<1>2. CASE poptGetNextOpt
  BY <1>2, OptionStored
<1>3. CASE SetPublic
  BY <1>3 DEF SetPublic, ParserInv, ParserTypes, Stored
<1>4. CASE UNCHANGED vars
  BY <1>4 DEF vars, ParserInv, ParserTypes, Stored
<1>5. CASE CheckOptions \/ ShowHelp \/ ReadConfig \/ CheckArguments \/ LoadSettings
           \/ spawn_and_wait \/ TakeAnswer
  <2>1. UNCHANGED parserVars /\ pc' \notin {"context", "options"}
    BY <1>5 DEF CheckOptions, ShowHelp, ReadConfig, CheckArguments, LoadSettings, spawn_and_wait,
       TakeAnswer, Exit, Answer, Throw
  <2> QED
    BY <2>1 DEF parserVars, ParserInv, ParserTypes
<1> QED
  BY <1>1, <1>2, <1>3, <1>4, <1>5 DEF Next

-------------------------------------------------------------------------------
(* What the last element of a kind is, whatever CHOOSE finds. *)
LEMMA LastIsLast ==
  ASSUME argv \in Seq(Element), NEW kind, NEW i \in Given(kind),
         \A j \in Given(kind) : j <= i
  PROVE  LastGiven(kind) = argv[i].value
<1>1. Given(kind) \subseteq Int
  BY DEF Given
<1>2. \A k \in Given(kind) : (\A j \in Given(kind) : j <= k) => k = i
  BY <1>1
<1>3. (CHOOSE k \in Given(kind) : \A j \in Given(kind) : j <= k) = i
  BY <1>2
<1> QED
  BY <1>3 DEF LastGiven

(* When the parser has come to the end of the command line, the public     *)
(* options say what it says.                                               *)
LEMMA PublicUnderstood == ASSUME ParserInv, SetPublic, ~parse_error' PROVE Understood'
<1>0. Len(argv) \in Nat /\ next \in 1 .. Len(argv) + 1 /\ next > Len(argv) /\ args \in Nat
  BY DEF ParserInv, ParserTypes, SetPublic
<1>1. Stored(Len(argv)) /\ args = 0
  <2>1. Stored(next - 1) /\ next - 1 = Len(argv)
    BY <1>0 DEF ParserInv, SetPublic
  <2>2. ~(args > 0)
    BY DEF SetPublic
  <2> QED
    BY <1>0, <2>1, <2>2
<1>2. /\ UNCHANGED argv
      /\ config' = opt.config /\ help' = opt.help
  BY DEF SetPublic
<1>3. DOMAIN argv = 1..Len(argv)
  BY DEF ParserInv, ParserTypes
<1>4. Given("refused") \cup Given("argument") = {} /\ (Given("help") # {} => opt.help = "yes")
  BY <1>1, <1>3 DEF Stored, Given
<1>5. opt.help \in {"yes", "no"} /\ opt.config \in Paths \cup {Empty}
  BY DEF ParserInv, ParserTypes
<1>6. AskedPath = IF opt.config # Empty THEN opt.config ELSE DefaultPath
  <2>1. CASE opt.config = Empty /\ \A i \in DOMAIN argv : argv[i].kind # "config"
    BY <2>1 DEF AskedPath, Given
  <2>2. ASSUME NEW i \in DOMAIN argv, argv[i].kind = "config", opt.config = argv[i].value,
               \A j \in DOMAIN argv : argv[j].kind = "config" => j <= i
        PROVE  AskedPath = IF opt.config # Empty THEN opt.config ELSE DefaultPath
    <3>1. i \in Given("config") /\ \A j \in Given("config") : j <= i
      BY <2>2 DEF Given
    <3>2. LastGiven("config") = opt.config
      BY <2>2, <3>1, LastIsLast DEF ParserInv, ParserTypes
    <3> QED
      BY <3>1, <3>2 DEF AskedPath
  <2> QED
    BY <1>1, <1>3, <2>1, <2>2 DEF Stored
<1>7. AskedPath' = AskedPath /\ \A kind : Given(kind)' = Given(kind)
  BY <1>2 DEF AskedPath, LastGiven, Given
<1> QED
  BY <1>2, <1>4, <1>5, <1>6, <1>7, LauncherAssumption DEF Understood, ConfigPath

(* Any length is narrowed to an int, which is not above it if it is        *)
(* positive, and then is the length itself if that is below the number of  *)
(* ints.                                                                   *)
LEMMA Narrowed ==
  ASSUME NEW n \in Nat
  PROVE  /\ Narrow(n) \in -(MaxInt + 1) .. MaxInt
         /\ Narrow(n) > 0 => Narrow(n) <= n /\ (n < Ints => Narrow(n) = n)
<1>1. MaxInt \in Nat /\ Ints \in Nat /\ Ints = 2 * (MaxInt + 1) /\ Ints > 0
  BY LauncherAssumption DEF Ints
<1>2. n % Ints \in 0 .. Ints - 1 /\ (n < Ints => n % Ints = n)
  BY <1>1
<1>3. n % Ints <= n
  BY <1>1, <1>2
<1> QED
  BY <1>1, <1>2, <1>3 DEF Narrow

-------------------------------------------------------------------------------
(* A library user who starts with the interface is asked for nothing; main *)
(* has not come to it.                                                     *)
LEMMA InitWay == Init => WayInv
<1> SUFFICES ASSUME Init PROVE WayInv
  OBVIOUS
<1>1. spawned = "no" /\ ~CalledByMain
  BY DEF Init, CalledByMain
<1>2. CASE MainStarts
  BY <1>1, <1>2 DEF MainStarts, WayInv
<1>3. CASE LibraryCalls
  <2>1. len \in Int /\ (text # NullText /\ len > 0 => len \in 1 .. text.length)
    BY <1>3, LauncherAssumption DEF LibraryCalls, IsText
  <2>2. pc = "check_arguments"
    BY <1>3 DEF LibraryCalls
  <2> QED
    BY <1>1, <2>1, <2>2 DEF WayInv, Asked, Measured
<1> QED
  BY <1>2, <1>3 DEF Init

(* The steps that leave the command line, the context and the text alone.  *)
LEMMA AskedStays == ASSUME UNCHANGED <<argv, ctx, text>> PROVE Asked' <=> Asked
  BY DEF Asked, CalledByMain, AskedPath, LastGiven, Given

(* The steps that leave the command line and the public options alone. *)
LEMMA UnderstoodStays == ASSUME UNCHANGED <<argv, help, config>> PROVE Understood' <=> Understood
  BY DEF Understood, ConfigPath, AskedPath, LastGiven, Given

(* Each step of main hands on what is known of the options and the text. *)
LEMMA NextWay == IInv /\ [Next]_vars => WayInv'
<1> SUFFICES ASSUME IInv, [Next]_vars PROVE WayInv'
  OBVIOUS
<1> USE DEF parserVars, callVars
<1>1. CASE poptGetContext \/ poptGetNextOpt
  <2>1. pc' \in {"options", "check_options"} /\ (pc' = "check_options" => parse_error')
    BY <1>1 DEF poptGetContext, poptGetNextOpt, Refuse, IInv, ParserInv
  <2>2. spawned' = "no"
    BY <1>1 DEF poptGetContext, poptGetNextOpt, IInv, OutcomeInv, Before
  <2> QED
    BY <2>1, <2>2 DEF WayInv
<1>2. CASE SetPublic
  <2>1. ~parse_error' => Understood'
    BY <1>2, PublicUnderstood DEF IInv
  <2>2. pc' = "check_options" /\ spawned' = "no"
    BY <1>2 DEF SetPublic, IInv, OutcomeInv, Before
  <2> QED
    BY <2>1, <2>2 DEF WayInv
<1>3. CASE CheckOptions \/ ShowHelp
  <2>1. spawned' = "no" /\ UNCHANGED <<argv, help, config>>
    BY <1>3 DEF CheckOptions, ShowHelp, IInv, OutcomeInv, Before
  <2>2. /\ pc' \in {"help", "read", "exited", "crashed"}
        /\ pc' \in {"help", "read"} => Understood
        /\ pc' = "read" => help = "no"
    BY <1>3 DEF CheckOptions, ShowHelp, Exit, IInv, WayInv, Understood
  <2> QED
    BY <2>1, <2>2, UnderstoodStays DEF WayInv
<1>4. CASE ReadConfig
  <2>1. spawned' = "no"
    BY <1>4 DEF ReadConfig, IInv, OutcomeInv, Before
  <2>2. CASE pc' = "exited"
    BY <2>1, <2>2 DEF WayInv
  <2>3. CASE pc' = "check_arguments"
    <3>1. /\ Understood /\ help = "no"
          /\ Files[ConfigPath] # Unreadable
          /\ text' = Files[ConfigPath] /\ len' = Narrow(text'.length)
          /\ UNCHANGED <<argv, ctx>>
      BY <1>4, <2>3 DEF ReadConfig, Exit, IInv, WayInv
    <3>2. text'.length \in Nat
      BY <3>1, LauncherAssumption DEF Understood, IsText
    <3>3. len' \in Int /\ (len' > 0 => Measured')
      BY <3>1, <3>2, Narrowed, LauncherAssumption DEF Measured, Ints
    <3>4. Given("refused") \cup Given("argument") \cup Given("help") = {}
      BY <3>1 DEF Understood
    <3>5. AskedPath' = AskedPath /\ \A kind : Given(kind)' = Given(kind)
      BY <3>1 DEF AskedPath, LastGiven, Given
    <3>6. Asked'
      BY <3>1, <3>4, <3>5 DEF Asked, Understood
    <3> QED
      BY <2>1, <2>3, <3>3, <3>6 DEF WayInv
  <2> QED
    BY <1>4, <2>2, <2>3 DEF ReadConfig, Exit
<1>5. CASE CheckArguments \/ LoadSettings \/ spawn_and_wait \/ TakeAnswer
  <2>1. UNCHANGED <<argv, ctx, text, len>>
    BY <1>5 DEF CheckArguments, LoadSettings, spawn_and_wait, TakeAnswer
  <2>2. (Asked' <=> Asked) /\ (Measured' <=> Measured)
    BY <2>1, AskedStays DEF Measured, CalledByMain
  <2>3. CASE CheckArguments
    BY <2>1, <2>2, <2>3 DEF CheckArguments, Answer, is_uint32_positive, IInv, WayInv, OutcomeInv, Before
  <2>4. CASE LoadSettings
    BY <2>1, <2>2, <2>4 DEF LoadSettings, Answer, IInv, WayInv, OutcomeInv, Before
  <2>5. CASE spawn_and_wait
    BY <2>1, <2>2, <2>5 DEF spawn_and_wait, Throw, Answer, IInv, WayInv, OutcomeInv
  <2>6. CASE TakeAnswer
    BY <2>1, <2>2, <2>6 DEF TakeAnswer, Exit, IInv, WayInv
  <2> QED
    BY <1>5, <2>3, <2>4, <2>5, <2>6
<1>6. CASE UNCHANGED vars
  BY <1>6, AskedStays, UnderstoodStays DEF vars, IInv, WayInv, Measured, CalledByMain
<1> QED
  BY <1>1, <1>2, <1>3, <1>4, <1>5, <1>6 DEF Next

-------------------------------------------------------------------------------
(* What popt leaves over are elements it has met. *)
TypesInv == TypeOK /\ args \in 0 .. next - 1

(* A library user's length is an int too, however small an int may be. *)
LEMMA InitTypes == Init => TypesInv
<1> SUFFICES ASSUME Init PROVE TypesInv
  OBVIOUS
<1>1. next = 1 /\ args = 0 /\ Len(argv) \in Nat
  BY InitParser DEF Init, ParserInv, ParserTypes
<1>2. len \in -(MaxInt + 1) .. MaxInt
  BY LauncherAssumption DEF Init, MainStarts, LibraryCalls, IsText
<1>3. parse_error \in BOOLEAN
  BY DEF Init
<1>4. /\ ctx = "none" /\ help = "indeterminate" /\ spawned = "no"
      /\ err = "none" /\ printed = {} /\ exit = -1
  BY DEF Init
<1>5. printed \subseteq {"error", "usage", "help"} /\ args \in 0..Len(argv) /\ next \in 1 .. Len(argv) + 1
      /\ args \in 0 .. next - 1
  BY <1>1, <1>4
<1> QED
  BY <1>2, <1>3, <1>4, <1>5 DEF TypesInv, TypeOK

(* Each step keeps the types; the length main passes on is an int because  *)
(* it has been narrowed to one.                                            *)
LEMMA NextTypes == IInv /\ TypesInv /\ [Next]_vars => TypesInv'
<1> SUFFICES ASSUME IInv, TypesInv, [Next]_vars PROVE TypesInv'
  OBVIOUS
<1> USE DEF TypesInv, TypeOK, parserVars, callVars
<1>0. Len(argv) \in Nat /\ next \in 1 .. Len(argv) + 1 /\ opt.help \in {"yes", "no"}
  BY DEF IInv, ParserInv, ParserTypes
<1> DEFINE Messages == {"error", "usage", "help"}
           ToldOK == printed' \subseteq Messages /\ exit' \in -1..1
<1>told. ASSUME NEW code \in 0..1, NEW what \in SUBSET Messages, Exit(code, what)
      PROVE  ToldOK
  BY <1>told DEF Exit
<1>untold. UNCHANGED <<printed, exit>> => ToldOK
  OBVIOUS
<1>1. CASE poptGetContext
  BY <1>1 DEF poptGetContext
<1>2. CASE poptGetNextOpt
  <2>1. next' = next + 1 /\ next <= Len(argv) /\ args' \in {args, args + 1}
    BY <1>2 DEF poptGetNextOpt
  <2>2. parse_error' \in {parse_error, TRUE}
    BY <1>2 DEF poptGetNextOpt, Refuse
  <2>3. UNCHANGED <<argv, ctx, help, callVars, printed, exit>>
    BY <1>2 DEF poptGetNextOpt
  <2>4. next' \in 1 .. Len(argv) + 1 /\ args' \in 0..Len(argv) /\ args' \in 0 .. next' - 1
    BY <1>0, <2>1
  <2>5. parse_error' \in BOOLEAN
    BY <2>2
  <2> HIDE DEF poptGetNextOpt
  <2> QED
    BY <2>3, <2>4, <2>5
<1>3. CASE SetPublic
  BY <1>0, <1>3 DEF SetPublic
<1>4. CASE CheckOptions \/ ShowHelp
  <2>1. UNCHANGED <<argv, next, args, ctx, parse_error, help, len, spawned, err>>
    BY <1>4 DEF CheckOptions, ShowHelp
  <2>2. \/ UNCHANGED <<printed, exit>>
        \/ \E code \in 0..1, what \in SUBSET Messages : Exit(code, what)
    BY <1>4 DEF CheckOptions, ShowHelp
  <2> HIDE DEF ToldOK
  <2>3. ToldOK
    BY <1>told, <1>untold, <2>2, Zenon
  <2> QED
    BY <2>1, <2>3 DEF ToldOK
<1>5. CASE ReadConfig
  <2>1. CASE /\ Files[ConfigPath] # Unreadable
             /\ text' = Files[ConfigPath]
             /\ len' = Narrow(text'.length)
             /\ UNCHANGED <<printed, exit>>
    <3>1. ConfigPath \in Paths
      BY <1>5 DEF ReadConfig, IInv, WayInv, Understood
    <3>2. text'.length \in Nat
      BY <2>1, <3>1, LauncherAssumption DEF IsText
    <3>3. len' \in -(MaxInt + 1) .. MaxInt
      BY <2>1, <3>2, Narrowed
    <3> QED
      BY <1>5, <2>1, <3>3 DEF ReadConfig
  <2>2. CASE Exit(1, {"error"}) /\ UNCHANGED <<text, len>>
    BY <1>5, <2>2 DEF ReadConfig, Exit
  <2> QED
    BY <1>5, <2>1, <2>2 DEF ReadConfig
<1>6. CASE CheckArguments \/ LoadSettings
  BY <1>6 DEF CheckArguments, LoadSettings, Answer
<1>7. CASE spawn_and_wait \/ TakeAnswer
  <2>1. UNCHANGED <<argv, next, args, ctx, parse_error, help, len>>
    BY <1>7 DEF spawn_and_wait, TakeAnswer
  <2>2. \/ UNCHANGED <<printed, exit>>
        \/ \E code \in 0..1, what \in SUBSET Messages : Exit(code, what)
    BY <1>7 DEF spawn_and_wait, TakeAnswer
  <2>3. spawned' \in {"no", "running", "returned", "threw"} /\ err' \in {"none", "owned", "freed"}
    BY <1>7 DEF spawn_and_wait, Throw, TakeAnswer, Answer
  <2> HIDE DEF ToldOK
  <2>4. ToldOK
    BY <1>told, <1>untold, <2>2, Zenon
  <2> QED
    BY <2>1, <2>3, <2>4 DEF ToldOK
<1>8. CASE UNCHANGED vars
  BY <1>8 DEF vars
<1> QED
  BY <1>1, <1>2, <1>3, <1>4, <1>5, <1>6, <1>7, <1>8 DEF Next

-------------------------------------------------------------------------------
(* The inductive invariant of main and of the C interface. *)
THEOREM Invariant == Spec => []IInv
<1>1. Init => IInv
  BY InitOutcome, InitParser, InitWay DEF IInv
<1>2. IInv /\ [Next]_vars => IInv'
  BY NextOutcome, NextParser, NextWay DEF IInv
<1> QED
  BY <1>1, <1>2, PTL DEF Spec

(* Every variable keeps its type: among them the length, which is an int   *)
(* whatever the length of the file is, and the exit code.                  *)
THEOREM TypeCorrect == Spec => []TypeOK
<1>1. Init => TypesInv
  BY InitTypes
<1>2. IInv /\ TypesInv /\ [Next]_vars => TypesInv'
  BY NextTypes
<1>3. TypesInv => TypeOK
  BY DEF TypesInv
<1> QED
  BY <1>1, <1>2, <1>3, Invariant, PTL DEF Spec

(* A container is started by main only for a command line it understands   *)
(* as a whole, with the settings of the file it asks for, all of them      *)
(* unless the file has as many characters as there are ints: up to there   *)
(* a length that does not fit (main.cpp:161) is refused.                   *)
THEOREM RunsOnlyWhatWasAsked == Spec => []RunsWhatWasAsked
<1>1. IInv => RunsWhatWasAsked
  BY DEF IInv, WayInv, Asked, Measured, RunsWhatWasAsked
<1> QED
  BY <1>1, Invariant, PTL

(* However long the file, and whatever length a library user passes, the   *)
(* parser (hostcompute_nspawn.cpp:360) is given at least one character and *)
(* none past the end of the text.                                          *)
THEOREM StaysWithinText == Spec => []ReadsWithinText
<1>1. IInv => ReadsWithinText
  BY DEF IInv, WayInv, Measured, ReadsWithinText
<1> QED
  BY <1>1, Invariant, PTL

(* main reads help only where the constructor of Options has set it, in    *)
(* spite of the early returns at main.cpp:65 and 77.                       *)
THEOREM HelpSet == Spec => []HelpIsInitialised
<1>1. IInv => HelpIsInitialised
  BY DEF IInv, WayInv, Understood, HelpIsInitialised
<1> QED
  BY <1>1, Invariant, PTL

(* The exit code of main, or the answer of hostcompute_nspawn, tells what  *)
(* has happened, and no message is left to be freed.                       *)
THEOREM ExitTells == Spec => []ExitTellsOutcome
<1>1. IInv => ExitTellsOutcome
  BY DEF IInv, OutcomeInv
<1> QED
  BY <1>1, Invariant, PTL

===============================================================================
