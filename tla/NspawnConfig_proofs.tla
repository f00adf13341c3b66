-------------------------- MODULE NspawnConfig_proofs --------------------------
(***************************************************************************)
(* Proofs about the settings of a container: for any objects, of any       *)
(* number of fields in any order, and any width of the numbers.            *)
(***************************************************************************)
EXTENDS NspawnConfig, SequenceLemmas

(* The fields of a name that have been read. *)
Before(s) == {i \in 1 .. pos - 1 : doc[i].name = s}

Value(s, v) == IF s \in Paths THEN replace_slashes(v.text) ELSE v.num

(* A path or a limit is what the last field of its name says. *)
Settled(s) ==
  \/ Before(s) = {} /\ Held[s] = Defaults[s]
  \/ \E i \in Before(s) : /\ \A j \in Before(s) : j <= i
                          /\ Held[s] = Value(s, doc[i].value)

(* What each field adds to the arguments. *)
Lists(d) == [i \in DOMAIN d |-> IF d[i].name = "process_arguments" THEN Texts(d[i].value.items)
                                ELSE <<>>]

ReadInv == /\ doc \in Documents
           /\ pos \in 1 .. Len(doc) + 1
           /\ \A i \in 1 .. pos - 1 : Readable(doc[i])

HeldInv == /\ Held = [s \in Settings |-> Held[s]]
           /\ \A s \in Paths \cup Limits : Settled(s)
           /\ Held["process_arguments"] \in Seq(Text)
           /\ Held["process_arguments"] = IF pos = 1 THEN <<>> ELSE Gathered(Lists(doc))[pos - 1]

StatusInv ==
  /\ status \in {"reading", "accepted", "threw", "moved"}
  /\ status \in {"accepted", "moved"} => pos = Len(doc) + 1 /\ \A p \in Paths : Held[p] # <<>>
  /\ status = "threw" => \/ pos <= Len(doc) /\ ~Readable(doc[pos])
                         \/ pos = Len(doc) + 1 /\ \E p \in Paths : Held[p] = <<>>

(* There is nothing in the object that is moved to until then, and only    *)
(* numbers in the other one afterwards.                                    *)
MovedInv == IF status = "moved" THEN \E reset \in SUBSET Limits : config = MovedFrom(target, reset)
            ELSE target = Defaults

IInv == ReadInv /\ HeldInv /\ StatusInv /\ MovedInv

-------------------------------------------------------------------------------
(* What is known of the fields of an object, and of one that can be read.  *)
LEMMA FieldOfDocument ==
  ASSUME NEW d \in Documents
  PROVE  /\ Len(d) \in Nat /\ DOMAIN d = 1..Len(d)
         /\ \A i \in 1..Len(d) :
              /\ TypedValue(d[i].value)
              /\ d[i].value.kind = "array"
                   => \A v \in ToSet(d[i].value.items) : TypedValue(v)
  <1>1. d \in Seq(ToSet(d))
    BY ConfigAssumption
  <1>2. Len(d) \in Nat /\ DOMAIN d = 1..Len(d)
    BY <1>1, LenProperties
  <1>3. \A i \in 1..Len(d) : d[i] \in ToSet(d)
    BY <1>2 DEF ToSet
  <1> QED
    BY <1>2, <1>3, ConfigAssumption

LEMMA ReadableField ==
  ASSUME NEW field, Readable(field), TypedValue(field.value),
         field.value.kind = "array" => \A v \in ToSet(field.value.items) : TypedValue(v)
  PROVE  /\ field.name \in Settings
         /\ field.name \in Paths => field.value.text \in Text
         /\ field.name \in Limits16 => field.value.num \in 0..Max16
         /\ field.name \in Limits32 => field.value.num \in 0..Max32
         /\ field.name = "process_arguments" => Texts(field.value.items) \in Seq(Text)
  <1> DEFINE name == field.name
             v == field.value
  <1>1. name \in Settings
    BY DEF Readable, Settings, Limits
  <1>2. name \in Paths => v.text \in Text
    BY DEF Readable, Paths, Limits16, Limits32, IsString, TypedValue
  <1>3. name \in Limits16 => v.num \in 0..Max16
    BY DEF Readable, Paths, Limits16, Limits32, IsUint
  <1>4. name \in Limits32 => v.num \in 0..Max32
    BY DEF Readable, Paths, Limits16, Limits32, IsUint
  <1>5. ASSUME name = "process_arguments" PROVE Texts(v.items) \in Seq(Text)
    <2>1. v.kind = "array" /\ \A w \in ToSet(v.items) : IsString(w)
      BY <1>5 DEF Readable, Paths, Limits16, Limits32
    <2>2. v.items \in Seq(ToSet(v.items))
      BY <2>1 DEF TypedValue
    <2>3. Len(v.items) \in Nat /\ DOMAIN v.items = 1..Len(v.items)
      BY <2>2, LenProperties
    <2>4. \A i \in 1..Len(v.items) : v.items[i] \in ToSet(v.items)
      BY <2>3 DEF ToSet
    <2>5. \A i \in 1..Len(v.items) : v.items[i].text \in Text
      BY <2>1, <2>4 DEF TypedValue, IsString
    <2> QED
      BY <2>3, <2>5 DEF Texts
  <1> QED
    BY <1>1, <1>2, <1>3, <1>4, <1>5

(* The names of the paths, the limits and the arguments are all different. *)
LEMMA NamesDiffer ==
  /\ "process_arguments" \notin Paths \cup Limits
  /\ Paths \cap Limits = {} /\ Limits16 \cap Limits32 = {}
  /\ Settings = Paths \cup Limits \cup {"process_arguments"}
  BY DEF Paths, Limits, Limits16, Limits32, Settings

-------------------------------------------------------------------------------
(* Nothing has been read, and every member has its default.                *)
LEMMA InitIInv == Init => IInv
  <1> SUFFICES ASSUME Init PROVE IInv
    OBVIOUS
  <1>1. pos = 1 /\ status = "reading" /\ Held = Defaults /\ doc \in Documents
    BY DEF Init, Held
  <1>2. ReadInv
    BY <1>1, FieldOfDocument DEF ReadInv
  <1>3. \A s : Before(s) = {}
    BY <1>1 DEF Before
  <1>4. Defaults["process_arguments"] = <<>> /\ Defaults = [s \in Settings |-> Defaults[s]]
    BY NamesDiffer DEF Defaults
  <1>5. HeldInv
    <2>1. Held = [s \in Settings |-> Held[s]]
      BY <1>1, <1>4
    <2>2. \A s \in Paths \cup Limits : Settled(s)
      BY <1>1, <1>3 DEF Settled
    <2>3. Held["process_arguments"] = <<>> /\ <<>> \in Seq(Text)
      BY <1>1, <1>4, EmptySeq
    <2> QED
      BY <1>1, <2>1, <2>2, <2>3 DEF HeldInv
  <1>6. StatusInv /\ MovedInv
    BY <1>1 DEF Init, StatusInv, MovedInv
  <1> QED
    BY <1>2, <1>5, <1>6 DEF IInv

(* A field that can be read settles the member of its name, or adds to the *)
(* arguments, and leaves the other members as they are.                    *)
LEMMA AssignedField ==
  ASSUME IInv, status = "reading", pos <= Len(doc), Readable(doc[pos]),
         config' = Assign(config, doc[pos]), pos' = pos + 1, UNCHANGED <<doc, status>>
  PROVE  HeldInv'
  <1> DEFINE name == doc[pos].name
             v == doc[pos].value
             arguments == "process_arguments"
             new == IF name \in Paths THEN replace_slashes(v.text)
                    ELSE IF name \in Limits THEN v.num
                    ELSE config[name] \o Texts(v.items)
  <1>1. /\ Len(doc) \in Nat /\ DOMAIN doc = 1..Len(doc) /\ pos \in 1..Len(doc)
        /\ doc \in Documents
    BY FieldOfDocument DEF IInv, ReadInv
  <1>2. /\ name \in Settings
        /\ name = arguments => Texts(v.items) \in Seq(Text)
    BY <1>1, FieldOfDocument, ReadableField
  <1>3. Held = config /\ Held' = config'
    BY DEF Held
  <1>4. config = [s \in Settings |-> config[s]]
    BY <1>3 DEF IInv, HeldInv
  <1>5. config' = [config EXCEPT ![name] = new]
    BY DEF Assign
  <1> HIDE DEF new
  <1>6. /\ config' = [s \in Settings |-> config'[s]]
        /\ config'[name] = new
        /\ \A s \in Settings : s # name => config'[s] = config[s]
    BY <1>2, <1>4, <1>5
  <1>7. 1 .. pos' - 1 = (1 .. pos - 1) \cup {pos}
    BY <1>1
  <1>8. \A s : Before(s)' = IF s = name THEN Before(s) \cup {pos} ELSE Before(s)
    BY <1>7 DEF Before
  <1>9. \A s : Before(s) \subseteq 1 .. pos - 1
    BY DEF Before
  <1>10. ASSUME NEW s \in Paths \cup Limits PROVE Settled(s)'
    <2>1. s \in Settings /\ Settled(s)
      BY NamesDiffer DEF IInv, HeldInv
    <2>2. CASE s = name
      <3>1. pos \in Before(s)' /\ \A j \in Before(s)' : j <= pos
        BY <1>1, <1>8, <1>9, <2>2
      <3>2. config'[s] = Value(s, doc[pos].value)
        BY <1>6, <2>2 DEF Value, new
      <3> QED
        BY <1>3, <3>1, <3>2 DEF Settled
    <2>3. CASE s # name
      <3>1. Before(s)' = Before(s) /\ config'[s] = config[s]
        BY <1>6, <1>8, <2>1, <2>3
      <3> QED
        BY <1>3, <2>1, <3>1 DEF Settled
    <2> QED
      BY <2>2, <2>3
  <1>11. DOMAIN Lists(doc) = 1..Len(doc) /\ Len(Lists(doc)) = Len(doc)
    BY <1>1 DEF Lists
  <1>12. Lists(doc)[pos] = IF name = arguments THEN Texts(v.items) ELSE <<>>
    BY <1>1 DEF Lists
  <1>13. Lists(doc)[pos] \in Seq(Text)
    BY <1>2, <1>12, EmptySeq
  <1>14. /\ config[arguments] \in Seq(Text)
         /\ config[arguments] = IF pos = 1 THEN <<>> ELSE Gathered(Lists(doc))[pos - 1]
    BY <1>3 DEF IInv, HeldInv
  <1> HIDE DEF arguments
  <1>15. config'[arguments] = config[arguments] \o Lists(doc)[pos]
    <2>1. CASE name = arguments
      BY <1>6, <1>12, <2>1, NamesDiffer DEF new, arguments
    <2>2. CASE name # arguments
      <3>1. config'[arguments] = config[arguments]
        BY <1>6, <2>2, NamesDiffer DEF arguments
      <3>2. config[arguments] \o <<>> = config[arguments]
        BY <1>14, ConcatEmptySeq
      <3> QED
        BY <1>12, <2>2, <3>1, <3>2
    <2> QED
      BY <2>1, <2>2
  <1>16. config'[arguments] \in Seq(Text)
    BY <1>13, <1>14, <1>15, Joined
  <1>17. config'[arguments] = Gathered(Lists(doc))[pos]
    <2> DEFINE lists == Lists(doc)
    <2>0. /\ Gathered(lists)[1] = lists[1]
          /\ \A i \in 1..Len(lists) : i > 1 => Gathered(lists)[i] = Gathered(lists)[i - 1] \o lists[i]
      <3>1. Len(lists) \in Nat /\ Len(lists) > 0
        BY <1>1, <1>11
      <3> HIDE DEF lists
      <3> QED
        BY <3>1, Gathering
    <2>1. CASE pos = 1
      <3>1. Gathered(Lists(doc))[1] = Lists(doc)[1]
        BY <2>0
      <3>2. <<>> \o Lists(doc)[pos] = Lists(doc)[pos]
        BY <1>13, ConcatEmptySeq
      <3> QED
        BY <1>14, <1>15, <2>1, <3>1, <3>2
    <2>2. CASE pos # 1
      <3>1. pos \in 1..Len(lists) /\ pos > 1
        BY <1>1, <1>11, <2>2
      <3> HIDE DEF lists
      <3>2. Gathered(lists)[pos] = Gathered(lists)[pos - 1] \o lists[pos]
        BY <2>0, <3>1, Zenon
      <3> QED
        BY <1>14, <1>15, <2>2, <3>2 DEF lists
    <2> QED
      BY <2>1, <2>2
  <1>18. pos' # 1 /\ pos' - 1 = pos /\ Lists(doc)' = Lists(doc)
    BY <1>1
  <1> QED
    BY <1>3, <1>6, <1>10, <1>16, <1>17, <1>18 DEF HeldInv, arguments

(* Reading a field keeps the invariant, or finds one that cannot be read.  *)
LEMMA ReadFieldIInv == IInv /\ ReadField => IInv'
  <1> SUFFICES ASSUME IInv, ReadField PROVE IInv'
    OBVIOUS
  <1>1. /\ status = "reading" /\ pos <= Len(doc) /\ UNCHANGED <<doc, target>>
        /\ Len(doc) \in Nat /\ pos \in 1..Len(doc)
    BY FieldOfDocument DEF ReadField, IInv, ReadInv
  <1>2. CASE Readable(doc[pos]) /\ config' = Assign(config, doc[pos]) /\ pos' = pos + 1
             /\ UNCHANGED status
    <2>1. HeldInv'
      BY <1>1, <1>2, AssignedField
    <2>2. ReadInv'
      <3>1. \A i \in 1 .. pos' - 1 : i \in 1 .. pos - 1 \/ i = pos
        BY <1>1, <1>2
      <3> QED
        BY <1>1, <1>2, <3>1 DEF IInv, ReadInv
    <2>3. StatusInv' /\ MovedInv'
      BY <1>1, <1>2 DEF IInv, StatusInv, MovedInv
    <2> QED
      BY <2>1, <2>2, <2>3 DEF IInv
  <1>3. CASE ~Readable(doc[pos]) /\ status' = "threw" /\ UNCHANGED <<pos, config>>
    <2>1. ReadInv' /\ StatusInv' /\ MovedInv'
      BY <1>1, <1>3 DEF IInv, ReadInv, StatusInv, MovedInv
    <2>2. Held' = Held
      BY <1>1, <1>3 DEF Held
    <2>3. HeldInv'
      BY <1>1, <1>3, <2>2 DEF IInv, HeldInv, Settled, Before
    <2> QED
      BY <2>1, <2>3 DEF IInv
  <1> QED
    BY <1>2, <1>3 DEF ReadField

(* At the end of the object every path has to be there. *)
LEMMA ValidateIInv == IInv /\ Validate => IInv'
  <1> SUFFICES ASSUME IInv, Validate PROVE IInv'
    OBVIOUS
  <1>1. /\ status = "reading" /\ pos = Len(doc) + 1 /\ UNCHANGED <<doc, pos, config, target>>
        /\ status' = IF \A p \in Paths : config[p] # <<>> THEN "accepted" ELSE "threw"
    BY FieldOfDocument DEF Validate, IInv, ReadInv
  <1>2. Held' = config /\ Held = config
    BY <1>1 DEF Held
  <1>3. ReadInv' /\ MovedInv'
    BY <1>1 DEF IInv, ReadInv, MovedInv
  <1>4. StatusInv'
    BY <1>1, <1>2 DEF StatusInv
  <1>5. HeldInv'
    <2>1. UNCHANGED <<doc, pos, Held>>
      BY <1>1, <1>2
    <2> QED
      BY <2>1 DEF IInv, HeldInv, Settled, Before
  <1> QED
    BY <1>3, <1>4, <1>5 DEF IInv

(* Moving an object takes what it holds along. *)
LEMMA MoveIInv == ASSUME IInv, NEW reset \in SUBSET Limits, Move(reset) PROVE IInv'
  <1>1. /\ status = "accepted" /\ status' = "moved" /\ UNCHANGED <<doc, pos>>
        /\ target' = config /\ config' = MovedFrom(config, reset)
    BY DEF Move
  <1>2. Held' = Held
    BY <1>1 DEF Held
  <1>3. ReadInv' /\ StatusInv'
    BY <1>1, <1>2 DEF IInv, ReadInv, StatusInv
  <1>4. HeldInv'
    <2>1. UNCHANGED <<doc, pos, Held>>
      BY <1>1, <1>2
    <2> QED
      BY <2>1 DEF IInv, HeldInv, Settled, Before
  <1>5. config' = MovedFrom(target', reset)
    BY <1>1
  <1>6. MovedInv'
    BY <1>1, <1>5, Zenon DEF MovedInv
  <1> QED
    BY <1>3, <1>4, <1>6 DEF IInv

LEMMA NextIInv == IInv /\ [Next]_vars => IInv'
  <1> SUFFICES ASSUME IInv, [Next]_vars PROVE IInv'
    OBVIOUS
  <1>1. CASE MoveConstruct
    <2>1. {"max_ram_mb", "cpus_count", "cpu_affinity_hex"} \in SUBSET Limits
      BY DEF Limits, Limits16, Limits32
    <2> QED
      BY <1>1, <2>1, MoveIInv DEF MoveConstruct
  <1>2. CASE MoveAssign
    BY <1>2, MoveIInv DEF MoveAssign
  <1>3. CASE UNCHANGED vars
    <2>1. Held' = Held
      BY <1>3 DEF Held, vars
    <2>2. ReadInv' /\ StatusInv' /\ MovedInv'
      BY <1>3, <2>1 DEF IInv, ReadInv, StatusInv, MovedInv, vars
    <2>3. HeldInv'
      BY <1>3, <2>1 DEF IInv, HeldInv, Settled, Before, vars
    <2> QED
      BY <2>2, <2>3 DEF IInv
  <1> QED
    BY <1>1, <1>2, <1>3, ReadFieldIInv, ValidateIInv DEF Next

(* At any point of the object: each path and limit is what the last field  *)
(* of its name has said, and the arguments are those of all arrays so far. *)
THEOREM Invariant == Spec => []IInv
  BY InitIInv, NextIInv, PTL DEF Spec

-------------------------------------------------------------------------------
(* The members of an object have their types. *)
Typed(c) == /\ DOMAIN c = Settings
            /\ \A s \in Limits16 : c[s] \in 0..Max16
            /\ \A s \in Limits32 : c[s] \in 0..Max32

LEMMA HeldTyped == IInv => Typed(Held)
  <1> SUFFICES ASSUME IInv PROVE Typed(Held)
    OBVIOUS
  <1>1. Len(doc) \in Nat /\ pos \in 1 .. Len(doc) + 1 /\ doc \in Documents
    BY FieldOfDocument DEF IInv, ReadInv
  <1>2. DOMAIN Held = Settings
    BY DEF IInv, HeldInv
  <1>3. ASSUME NEW s \in Limits
        PROVE  \/ Held[s] = 0
               \/ \E i \in 1 .. pos - 1 : doc[i].name = s /\ Held[s] = doc[i].value.num
    <2>1. Settled(s) /\ s \notin Paths /\ s \in Settings
      BY <1>3, NamesDiffer DEF IInv, HeldInv
    <2>2. Defaults[s] = 0
      BY <1>3, <2>1 DEF Defaults
    <2> QED
      BY <2>1, <2>2 DEF Settled, Before, Value
  <1>4. ASSUME NEW i \in 1 .. pos - 1
        PROVE  /\ doc[i].name \in Limits16 => doc[i].value.num \in 0..Max16
               /\ doc[i].name \in Limits32 => doc[i].value.num \in 0..Max32
    <2>1. i \in 1..Len(doc) /\ Readable(doc[i])
      BY <1>1 DEF IInv, ReadInv
    <2> QED
      BY <1>1, <2>1, FieldOfDocument, ReadableField
  <1>5. 0 \in 0..Max16 /\ 0 \in 0..Max32
    BY ConfigAssumption
  <1>6. Limits16 \subseteq Limits /\ Limits32 \subseteq Limits
    BY DEF Limits
  <1>7. \A s \in Limits16 : Held[s] \in 0..Max16
    BY <1>3, <1>4, <1>5, <1>6
  <1>8. \A s \in Limits32 : Held[s] \in 0..Max32
    BY <1>3, <1>4, <1>5, <1>6
  <1> QED
    BY <1>2, <1>7, <1>8 DEF Typed

(* Every limit fits its width, in the object, in the one it is moved to,   *)
(* and in what is left of it.                                              *)
THEOREM TypeCorrect == Spec => []TypeOK
  <1>1. IInv => TypeOK
    <2> SUFFICES ASSUME IInv PROVE TypeOK
      OBVIOUS
    <2>1. Typed(Held)
      BY HeldTyped
    <2>2. Typed(Defaults)
      <3>1. 0 \in 0..Max16 /\ 0 \in 0..Max32
        BY ConfigAssumption
      <3> QED
        BY <3>1 DEF Typed, Defaults, Limits, Settings
    <2>3. Typed(config) /\ Typed(target)
      <3>1. CASE status = "moved"
        <4>1. PICK reset \in SUBSET Limits : config = MovedFrom(target, reset)
          BY <3>1 DEF IInv, MovedInv
        <4>2. Typed(target) /\ 0 \in 0..Max16 /\ 0 \in 0..Max32
          BY <2>1, <3>1, ConfigAssumption DEF Held
        <4> QED
          BY <4>1, <4>2 DEF Typed, MovedFrom, Limits, Settings
      <3>2. CASE status # "moved"
        BY <2>1, <2>2, <3>2 DEF Held, IInv, MovedInv
      <3> QED
        BY <3>1, <3>2
    <2> QED
      BY <2>3 DEF TypeOK, Typed, IInv, ReadInv, StatusInv
  <1> QED
    BY Invariant, <1>1, PTL

-------------------------------------------------------------------------------
(* Replacing slashes leaves a text as long as it is. *)
LEMMA Replaced ==
  ASSUME NEW text \in Text
  PROVE  /\ replace_slashes(text) \in Seq(STRING \cup {"\\"})
         /\ replace_slashes(text) = <<>> <=> text = <<>>
  <1>1. Len(text) \in Nat /\ \A i \in 1..Len(text) : text[i] \in STRING
    BY LenProperties, ElementOfSeq DEF Text
  <1>2. replace_slashes(text) = [i \in 1..Len(text) |-> IF text[i] = "/" THEN "\\" ELSE text[i]]
    BY DEF replace_slashes, ReplaceAll
  <1>3. replace_slashes(text) \in Seq(STRING \cup {"\\"}) /\ Len(replace_slashes(text)) = Len(text)
    BY <1>1, <1>2
  <1>4. text = <<>> <=> Len(text) = 0
    BY EmptySeq DEF Text
  <1>5. replace_slashes(text) = <<>> <=> Len(replace_slashes(text)) = 0
    BY <1>3, EmptySeq
  <1> QED
    BY <1>3, <1>4, <1>5

(* When an object has been read to its end, the last field of a name is    *)
(* what CHOOSE finds.                                                      *)
LEMMA LastRead ==
  ASSUME IInv, pos = Len(doc) + 1, NEW s
  PROVE  /\ Before(s) = Positions(doc, s)
         /\ \A i \in Before(s) : (\A j \in Before(s) : j <= i) => LastValue(doc, s) = doc[i].value
  <1>1. DOMAIN doc = 1..Len(doc) /\ Len(doc) \in Nat
    BY FieldOfDocument DEF IInv, ReadInv
  <1>2. Before(s) = Positions(doc, s)
    BY <1>1 DEF Before, Positions
  <1>3. \A i \in Before(s) : i \in Int
    BY <1>1 DEF Before
  <1>4. ASSUME NEW i \in Before(s), \A j \in Before(s) : j <= i
        PROVE  LastValue(doc, s) = doc[i].value
    <2>1. \A k \in Before(s) : (\A j \in Before(s) : j <= k) => k = i
      BY <1>3, <1>4
    <2>2. (CHOOSE k \in Positions(doc, s) : \A j \in Positions(doc, s) : j <= k) = i
      BY <1>2, <1>4, <2>1
    <2> QED
      BY <2>2 DEF LastValue
  <1> QED
    BY <1>2, <1>4

(* At the end of the object each member is what the whole object says.     *)
LEMMA HeldIsMeaning ==
  ASSUME IInv, pos = Len(doc) + 1
  PROVE  /\ Held = Meaning(doc)
         /\ \A p \in Paths : Held[p] # <<>>
                               <=> Positions(doc, p) # {} /\ LastValue(doc, p).text # <<>>
  <1>1. Len(doc) \in Nat /\ DOMAIN doc = 1..Len(doc) /\ doc \in Documents
    BY FieldOfDocument DEF IInv, ReadInv
  <1>2. ASSUME NEW s \in Paths \cup Limits
        PROVE  Held[s] = IF Positions(doc, s) = {} THEN Defaults[s] ELSE Value(s, LastValue(doc, s))
    BY <1>2, LastRead DEF IInv, HeldInv, Settled
  <1>3. Held["process_arguments"] = Arguments(doc)
    <2> DEFINE lists == Lists(doc)
    <2>1. Arguments(doc) = FlattenSeq(lists)
      BY DEF Arguments, Lists
    <2>2. Len(lists) = Len(doc) /\ (Len(doc) = 0 => lists = <<>>)
      BY <1>1 DEF Lists
    <2>3. Held["process_arguments"] = IF Len(doc) = 0 THEN <<>> ELSE Gathered(lists)[Len(doc)]
      BY <1>1 DEF IInv, HeldInv
    <2> HIDE DEF lists
    <2>4. CASE Len(doc) = 0
      BY <2>1, <2>2, <2>3, <2>4 DEF FlattenSeq
    <2>5. CASE Len(doc) # 0
      <3>1. Len(lists) \in Nat /\ Len(lists) > 0
        BY <1>1, <2>2, <2>5
      <3>2. FlattenSeq(lists) = Gathered(lists)[Len(lists)]
        BY <3>1, Gathering
      <3> QED
        BY <2>1, <2>2, <2>3, <2>5, <3>2
    <2> QED
      BY <2>4, <2>5
  <1>4. Held = Meaning(doc)
    <2>1. ASSUME NEW s \in Settings PROVE Held[s] = Meaning(doc)[s]
      <3>1. CASE s = "process_arguments"
        BY <1>3, <3>1 DEF Meaning
      <3>2. CASE s \in Paths \cup Limits
        BY <1>2, <3>2, NamesDiffer DEF Meaning, Value
      <3> QED
        BY <3>1, <3>2, NamesDiffer
    <2>2. Meaning(doc) = [s \in Settings |-> Meaning(doc)[s]]
      BY DEF Meaning
    <2>3. Held = [s \in Settings |-> Held[s]]
      BY DEF IInv, HeldInv
    <2> QED
      BY <2>1, <2>2, <2>3
  <1>5. ASSUME NEW p \in Paths
        PROVE  Held[p] # <<>> <=> Positions(doc, p) # {} /\ LastValue(doc, p).text # <<>>
    <2>1. CASE Before(p) = {} /\ Held[p] = Defaults[p]
      <3>1. Defaults[p] = <<>>
        BY NamesDiffer DEF Defaults
      <3> QED
        BY <2>1, <3>1, LastRead
    <2>2. ASSUME NEW i \in Before(p), \A j \in Before(p) : j <= i,
                 Held[p] = Value(p, doc[i].value)
          PROVE  Held[p] # <<>> <=> Positions(doc, p) # {} /\ LastValue(doc, p).text # <<>>
      <3>1. LastValue(doc, p) = doc[i].value /\ Positions(doc, p) # {}
        BY <2>2, LastRead
      <3>2. i \in 1..Len(doc) /\ Readable(doc[i]) /\ doc[i].name = p
        BY <1>1 DEF Before, IInv, ReadInv
      <3>3. doc[i].value.text \in Text
        BY <1>1, <3>2, FieldOfDocument, ReadableField
      <3>4. Held[p] = replace_slashes(doc[i].value.text)
        BY <2>2 DEF Value
      <3> QED
        BY <3>1, <3>3, <3>4, Replaced
    <2> QED
      BY <2>1, <2>2 DEF IInv, HeldInv, Settled
  <1> QED
    BY <1>4, <1>5

(* An object is accepted exactly when all of it can be read and every path *)
(* ends up non-empty, and the settings, moved or not, are what it says,    *)
(* whatever the order and the number of its fields.                        *)
THEOREM HoldsWhatIsSaid == Spec => []HoldsWhatWasSaid
  <1>1. IInv => HoldsWhatWasSaid
    <2> SUFFICES ASSUME IInv PROVE HoldsWhatWasSaid
      OBVIOUS
    <2>1. Len(doc) \in Nat /\ DOMAIN doc = 1..Len(doc) /\ pos \in 1 .. Len(doc) + 1
      BY FieldOfDocument DEF IInv, ReadInv
    <2>2. ASSUME status \in {"accepted", "moved"} PROVE WellFormed(doc) /\ Held = Meaning(doc)
      <3>1. pos = Len(doc) + 1 /\ \A p \in Paths : Held[p] # <<>>
        BY <2>2 DEF IInv, StatusInv
      <3>2. \A i \in DOMAIN doc : Readable(doc[i])
        BY <2>1, <3>1 DEF IInv, ReadInv
      <3> QED
        BY <3>1, <3>2, HeldIsMeaning DEF WellFormed
    <2>3. ASSUME status = "threw" PROVE ~WellFormed(doc)
      <3>1. CASE pos <= Len(doc) /\ ~Readable(doc[pos])
        BY <2>1, <3>1 DEF WellFormed
      <3>2. CASE pos = Len(doc) + 1 /\ \E p \in Paths : Held[p] = <<>>
        BY <3>2, HeldIsMeaning DEF WellFormed
      <3> QED
        BY <2>3, <3>1, <3>2 DEF IInv, StatusInv
    <2> QED
      BY <2>2, <2>3 DEF HoldsWhatWasSaid
  <1> QED
    BY Invariant, <1>1, PTL

-------------------------------------------------------------------------------
(* The members that to_json leaves out. *)
Unprinted == {"max_storage_iops", "max_storage_bandwidth_bytes_per_sec"}

(* Every other member is printed, and once. *)
LEMMA PrintedOnce ==
  /\ DOMAIN Printed = 1..10 /\ Len(Printed) = 10
  /\ \A i \in 1..10 : Printed[i] \in Settings \ Unprinted
  /\ \A s \in Settings \ Unprinted : \E i \in 1..10 : Printed[i] = s
  /\ \A i, j \in 1..10 : Printed[i] = Printed[j] => i = j
  /\ Printed[3] = "process_arguments"
  <1>1. Len(Printed) = 10 /\ DOMAIN Printed = 1..10
    BY DEF Printed
  <1>2. /\ Printed[1] = "process_directory" /\ Printed[2] = "process_executable"
        /\ Printed[3] = "process_arguments" /\ Printed[4] = "max_ram_mb"
        /\ Printed[5] = "cpus_count" /\ Printed[6] = "cpu_affinity_hex"
        /\ Printed[7] = "max_cpu_percent" /\ Printed[8] = "mapped_directory"
        /\ Printed[9] = "stdout_filename" /\ Printed[10] = "parent_layer_directory"
    BY DEF Printed
  <1>3. \A i \in 1..10 : i \in {1, 2, 3, 4, 5, 6, 7, 8, 9, 10}
    OBVIOUS
  <1>4. \A i \in 1..10 : Printed[i] \in Settings \ Unprinted
    BY <1>2, <1>3 DEF Settings, Unprinted, Paths, Limits, Limits16, Limits32
  <1>5. \A s \in Settings \ Unprinted : \E i \in 1..10 : Printed[i] = s
    BY <1>2 DEF Settings, Unprinted, Paths, Limits, Limits16, Limits32
  <1>6. \A i, j \in 1..10 : Printed[i] = Printed[j] => i = j
    BY <1>2, <1>3
  <1> QED
    BY <1>1, <1>2, <1>4, <1>5, <1>6

(* A text in which the slashes have been replaced has none to replace.     *)
LEMMA ReplacedTwice ==
  ASSUME NEW text \in Text
  PROVE  replace_slashes(replace_slashes(text)) = replace_slashes(text)
  <1> DEFINE once == replace_slashes(text)
  <1>1. Len(text) \in Nat
    BY LenProperties DEF Text
  <1>2. once = [i \in 1..Len(text) |-> IF text[i] = "/" THEN "\\" ELSE text[i]]
    BY DEF replace_slashes, ReplaceAll
  <1>3. Len(once) = Len(text) /\ \A i \in 1..Len(text) : once[i] # "/"
    BY <1>1, <1>2
  <1>4. once = [i \in 1..Len(once) |-> once[i]]
    BY <1>2, <1>3
  <1> HIDE DEF once
  <1>5. replace_slashes(once) = [i \in 1..Len(once) |-> IF once[i] = "/" THEN "\\" ELSE once[i]]
    BY DEF replace_slashes, ReplaceAll
  <1>6. replace_slashes(once) = once
    BY <1>3, <1>4, <1>5
  <1> QED
    BY <1>6 DEF once

(* The paths of an accepted object have no slashes any more. *)
LEMMA AcceptedPaths ==
  ASSUME IInv, status = "accepted", NEW p \in Paths
  PROVE  config[p] # <<>> /\ replace_slashes(config[p]) = config[p]
  <1>1. Held = config /\ config[p] # <<>>
    BY DEF Held, IInv, StatusInv
  <1>2. Defaults[p] = <<>> /\ Settled(p)
    BY NamesDiffer DEF Defaults, IInv, HeldInv
  <1>3. PICK i \in Before(p) : config[p] = replace_slashes(doc[i].value.text)
    BY <1>1, <1>2 DEF Settled, Value
  <1>4. doc[i].value.text \in Text
    <2>1. /\ doc \in Documents /\ i \in 1..Len(doc)
          /\ Readable(doc[i]) /\ doc[i].name = p
      BY FieldOfDocument DEF Before, IInv, ReadInv
    <2> QED
      BY <2>1, FieldOfDocument, ReadableField
  <1> QED
    BY <1>1, <1>3, <1>4, ReplacedTwice

(* What is printed is an object of ten fields, one for each of ten members. *)
LEMMA PrintedFields ==
  ASSUME NEW c
  PROVE  /\ DOMAIN to_json(c) = 1..10 /\ Len(to_json(c)) = 10
         /\ \A i \in 1..10 : to_json(c)[i] = JsonField(c, Printed[i])
         /\ \A i \in 1..10 : to_json(c)[i].name = Printed[i]
         /\ \A i \in 1..10 : /\ Positions(to_json(c), Printed[i]) = {i}
                             /\ LastValue(to_json(c), Printed[i]) = to_json(c)[i].value
         /\ \A s \in Unprinted : Positions(to_json(c), s) = {}
  <1> DEFINE J == to_json(c)
  <1>1. J = [i \in 1..10 |-> JsonField(c, Printed[i])]
    BY PrintedOnce DEF to_json
  <1>2. DOMAIN J = 1..10 /\ Len(J) = 10 /\ \A i \in 1..10 : J[i] = JsonField(c, Printed[i])
    BY <1>1
  <1>3. \A i \in 1..10 : J[i].name = Printed[i]
    BY <1>2 DEF JsonField
  <1> HIDE DEF J
  <1>4. ASSUME NEW i \in 1..10
        PROVE  /\ Positions(J, Printed[i]) = {i}
               /\ LastValue(J, Printed[i]) = J[i].value
    <2>1. Positions(J, Printed[i]) = {i}
      BY <1>2, <1>3, PrintedOnce DEF Positions
    <2>2. (CHOOSE k \in {i} : \A j \in {i} : j <= k) = i
      OBVIOUS
    <2> QED
      BY <2>1, <2>2 DEF LastValue
  <1>5. ASSUME NEW s \in Unprinted PROVE Positions(J, s) = {}
    BY <1>2, <1>3, PrintedOnce DEF Positions
  <1> QED
    BY <1>2, <1>3, <1>4, <1>5 DEF J

(* The arguments are printed as one array and read back as they are. *)
LEMMA PrintedArguments ==
  ASSUME NEW c, c["process_arguments"] \in Seq(Text)
  PROVE  Arguments(to_json(c)) = c["process_arguments"]
  <1> DEFINE J == to_json(c)
             lists == Lists(J)
             arguments == c["process_arguments"]
             Good == {n \in Nat : n \in 1..10 => Gathered(lists)[n] = IF n < 3 THEN <<>> ELSE arguments}
  <1>1. /\ DOMAIN J = 1..10
        /\ \A i \in 1..10 : J[i].name = Printed[i]
        /\ J[3] = JsonField(c, "process_arguments")
    BY PrintedFields, PrintedOnce
  <1>2. Texts(J[3].value.items) = arguments
    <2>1. J[3].value.items = [i \in DOMAIN arguments |-> StringValue(arguments[i])]
      BY <1>1, NamesDiffer DEF JsonField
    <2>2. Texts(J[3].value.items) = [i \in DOMAIN arguments |-> arguments[i]]
      BY <2>1 DEF Texts, StringValue
    <2> QED
      BY <2>2
  <1> HIDE DEF J
  <1>3. Len(lists) = 10 /\ \A i \in 1..10 : lists[i] = IF i = 3 THEN arguments ELSE <<>>
    <2>1. \A i \in 1..10 : J[i].name = "process_arguments" <=> i = 3
      BY <1>1, PrintedOnce
    <2>2. lists = [i \in 1..10 |-> IF J[i].name = "process_arguments"
                                   THEN Texts(J[i].value.items) ELSE <<>>]
      BY <1>1 DEF Lists
    <2> HIDE DEF lists, arguments
    <2> QED
      BY <1>2, <2>1, <2>2
  <1>4. Arguments(J) = FlattenSeq(lists)
    BY DEF Arguments, Lists
  <1> HIDE DEF lists, arguments
  <1>5. arguments \in Seq(Text)
    BY DEF arguments
  <1>6. <<>> \o <<>> = <<>> /\ <<>> \o arguments = arguments /\ arguments \o <<>> = arguments
    BY <1>5, ConcatEmptySeq, EmptySeq
  <1>7. /\ Gathered(lists)[1] = <<>> /\ FlattenSeq(lists) = Gathered(lists)[10]
        /\ \A i \in 1..10 : i > 1 => Gathered(lists)[i] = Gathered(lists)[i - 1] \o lists[i]
    <2>1. Len(lists) \in Nat /\ Len(lists) > 0
      BY <1>3
    <2>2. /\ Gathered(lists)[1] = lists[1]
          /\ FlattenSeq(lists) = Gathered(lists)[Len(lists)]
      BY <2>1, Gathering
    <2>3. \A i \in 1..Len(lists) : i > 1 => Gathered(lists)[i] = Gathered(lists)[i - 1] \o lists[i]
      BY <2>1, Gathering
    <2>4. lists[1] = <<>> /\ Len(lists) = 10
      BY <1>3
    <2>5. \A i \in 1..10 : i > 1 => Gathered(lists)[i] = Gathered(lists)[i - 1] \o lists[i]
      BY <2>3, <2>4
    <2> QED
      BY <2>2, <2>4, <2>5
  <1>8. 0 \in Good
    OBVIOUS
  <1>9. ASSUME NEW n \in Nat, n \in Good PROVE n + 1 \in Good
    <2> SUFFICES ASSUME n + 1 \in 1..10
                 PROVE  Gathered(lists)[n + 1] = IF n + 1 < 3 THEN <<>> ELSE arguments
      OBVIOUS
    <2>1. CASE n = 0
      BY <1>7, <2>1
    <2>2. CASE n # 0
      <3>1. Gathered(lists)[n] = IF n < 3 THEN <<>> ELSE arguments
        BY <1>9, <2>2
      <3>2. Gathered(lists)[n + 1] = Gathered(lists)[n] \o lists[n + 1]
        <4>1. n + 1 > 1 /\ (n + 1) - 1 = n
          BY <2>2
        <4>2. Gathered(lists)[n + 1] = Gathered(lists)[(n + 1) - 1] \o lists[n + 1]
          BY <1>7, <4>1, Zenon
        <4> QED
          BY <4>1, <4>2
      <3>3. lists[n + 1] = IF n = 2 THEN arguments ELSE <<>>
        BY <1>3
      <3>4. CASE n < 2
        <4>1. Gathered(lists)[n] = <<>> /\ lists[n + 1] = <<>> /\ n + 1 < 3
          BY <3>1, <3>3, <3>4
        <4> QED
          BY <1>6, <3>2, <4>1, Zenon
      <3>5. CASE n = 2
        BY <1>6, <3>1, <3>2, <3>3, <3>5
      <3>6. CASE n > 2
        <4>1. Gathered(lists)[n] = arguments /\ lists[n + 1] = <<>> /\ ~ (n + 1 < 3)
          BY <3>1, <3>3, <3>6
        <4> QED
          BY <1>6, <3>2, <4>1, Zenon
      <3> QED
        BY <3>4, <3>5, <3>6
    <2> QED
      BY <2>1, <2>2
  <1>10. 10 \in Good
    <2> HIDE DEF Good
    <2> QED
      BY <1>8, <1>9, Induction
  <1> QED
    BY <1>4, <1>7, <1>10 DEF J, arguments

(* The settings that spawn_and_wait prints can be read again and say the   *)
(* same, but for the two storage limits.                                   *)
THEOREM PrintedReads == Spec => []PrintedReadsBack
  <1>1. IInv => PrintedReadsBack
    <2> SUFFICES ASSUME IInv, status = "accepted"
                 PROVE  /\ WellFormed(to_json(config))
                        /\ Meaning(to_json(config))
                             = [config EXCEPT !["max_storage_iops"] = 0,
                                              !["max_storage_bandwidth_bytes_per_sec"] = 0]
      BY DEF PrintedReadsBack
    <2> DEFINE J == to_json(config)
    <2>1. /\ Held = config /\ Typed(config)
          /\ config = [s \in Settings |-> config[s]]
          /\ config["process_arguments"] \in Seq(Text)
      BY HeldTyped DEF Held, IInv, HeldInv
    <2>2. /\ DOMAIN J = 1..10
          /\ \A i \in 1..10 : J[i] = JsonField(config, Printed[i])
          /\ \A i \in 1..10 : Positions(J, Printed[i]) = {i} /\ LastValue(J, Printed[i]) = J[i].value
          /\ \A s \in Unprinted : Positions(J, s) = {}
      BY PrintedFields
    <2>3. Arguments(J) = config["process_arguments"]
      BY <2>1, PrintedArguments
    <2> HIDE DEF J
    <2>4. ASSUME NEW s \in Settings \ Unprinted
          PROVE  Positions(J, s) # {} /\ LastValue(J, s) = JsonField(config, s).value
      <3>1. PICK i \in 1..10 : Printed[i] = s
        BY PrintedOnce
      <3> QED
        BY <2>2, <3>1
    <2>5. ASSUME NEW s \in Settings \ Unprinted PROVE Readable(JsonField(config, s))
      <3>1. CASE s \in Paths
        BY <3>1 DEF JsonField, Readable, StringValue, IsString
      <3>2. CASE s \in Limits
        <4>1. JsonField(config, s) = [name |-> s, value |-> [kind |-> "int", num |-> config[s]]]
          BY <3>2, NamesDiffer DEF JsonField
        <4>2. \/ s \in Limits16 /\ IsUint([kind |-> "int", num |-> config[s]], Max16)
              \/ s \in Limits32 /\ IsUint([kind |-> "int", num |-> config[s]], Max32)
          BY <2>1, <3>2 DEF IsUint, Typed, Limits
        <4> QED
          BY <4>1, <4>2 DEF Readable
      <3>3. CASE s = "process_arguments"
        <4> DEFINE items == [i \in DOMAIN config[s] |-> StringValue(config[s][i])]
        <4>1. JsonField(config, s) = [name |-> s, value |-> [kind |-> "array", items |-> items]]
          BY <3>3, NamesDiffer DEF JsonField
        <4>2. \A v \in ToSet(items) : IsString(v)
          <5>1. \A i \in DOMAIN items : IsString(items[i])
            BY DEF StringValue, IsString
          <5> HIDE DEF items
          <5> QED
            BY <5>1 DEF ToSet
        <4> HIDE DEF items
        <4> QED
          BY <3>3, <4>1, <4>2 DEF Readable
      <3> QED
        BY <3>1, <3>2, <3>3, NamesDiffer
    <2>6. WellFormed(J)
      <3>1. \A i \in DOMAIN J : Readable(J[i])
        BY <2>2, <2>5, PrintedOnce
      <3>2. ASSUME NEW p \in Paths PROVE Positions(J, p) # {} /\ LastValue(J, p).text # <<>>
        <4>1. p \in Settings \ Unprinted
          BY NamesDiffer DEF Unprinted, Limits, Limits32
        <4>2. JsonField(config, p).value.text = config[p]
          BY DEF JsonField, StringValue
        <4> QED
          BY <2>4, <4>1, <4>2, AcceptedPaths
      <3> QED
        BY <3>1, <3>2 DEF WellFormed
    <2>7. ASSUME NEW s \in Settings
          PROVE  Meaning(J)[s] = IF s \in Unprinted THEN 0 ELSE config[s]
      <3>1. CASE s \in Unprinted
        <4>1. s \in Limits /\ s \notin Paths /\ s # "process_arguments"
          BY <3>1, NamesDiffer DEF Unprinted, Limits, Limits32
        <4>2. Defaults[s] = 0
          BY <4>1 DEF Defaults
        <4> QED
          BY <2>2, <3>1, <4>1, <4>2 DEF Meaning
      <3>2. CASE s = "process_arguments"
        <4>1. s \notin Unprinted
          BY <3>2 DEF Unprinted
        <4> QED
          BY <2>3, <3>2, <4>1 DEF Meaning
      <3>3. CASE s \in Paths
        <4>1. s \notin Unprinted /\ s # "process_arguments"
          BY <3>3, NamesDiffer DEF Unprinted, Limits, Limits32
        <4>2. LastValue(J, s).text = config[s] /\ Positions(J, s) # {}
          BY <2>4, <3>3, <4>1 DEF JsonField, StringValue
        <4> QED
          BY <3>3, <4>1, <4>2, AcceptedPaths DEF Meaning
      <3>4. CASE s \in Limits \ Unprinted
        <4>1. s \notin Paths /\ s # "process_arguments"
          BY <3>4, NamesDiffer
        <4>2. LastValue(J, s).num = config[s] /\ Positions(J, s) # {}
          BY <2>4, <3>4, <4>1 DEF JsonField
        <4> QED
          BY <3>4, <4>1, <4>2 DEF Meaning
      <3> QED
        BY <3>1, <3>2, <3>3, <3>4, NamesDiffer
    <2>8. Meaning(J) = [s \in Settings |-> IF s \in Unprinted THEN 0 ELSE config[s]]
      <3>1. Meaning(J) = [s \in Settings |-> Meaning(J)[s]]
        BY DEF Meaning
      <3> QED
        BY <2>7, <3>1
    <2>9. [config EXCEPT !["max_storage_iops"] = 0, !["max_storage_bandwidth_bytes_per_sec"] = 0]
            = [s \in Settings |-> IF s \in Unprinted THEN 0 ELSE config[s]]
      BY <2>1 DEF Unprinted
    <2> QED
      BY <2>6, <2>8, <2>9 DEF J
  <1> QED
    BY Invariant, <1>1, PTL

===============================================================================
