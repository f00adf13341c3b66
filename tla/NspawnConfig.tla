----------------------------- MODULE NspawnConfig -----------------------------
(***************************************************************************)
(* nspawn_config (src/src/nspawn_config.hpp): the settings of a container. *)
(* The constructor reads the fields of a JSON object one by one, in the    *)
(* order in which the object holds them (a name may come twice), and       *)
(* validates at the end; whatever it meets that it cannot read, it throws, *)
(* and there is no object.  An accepted object may be moved, and prints    *)
(* itself with to_json.                                                    *)
(*                                                                         *)
(* A text is a sequence of the pieces a property tells apart (separators,  *)
(* blanks, names).  A JSON value is a record with its kind.                *)
(***************************************************************************)
EXTENDS Integers, SequencesExt

CONSTANTS
  Documents,  \* the objects to read: sequences of fields [name, value]
  Max16,      \* the largest uint16_t
  Max32       \* the largest uint32_t

Text == Seq(STRING)

(* A value that is called a string holds a text, and one that is called an *)
(* array holds a list.                                                     *)
TypedValue(v) == /\ v.kind = "string" => v.text \in Text
                 /\ v.kind = "array" => v.items \in Seq(ToSet(v.items))

ASSUME ConfigAssumption ==
  /\ Max16 \in Nat
  /\ Max32 \in Nat
  /\ Max16 < Max32
  /\ \A d \in Documents :
       /\ d \in Seq(ToSet(d))
       /\ \A field \in ToSet(d) :
            /\ TypedValue(field.value)
            /\ field.value.kind = "array" => \A v \in ToSet(field.value.items) : TypedValue(v)

Paths == {"process_directory", "process_executable", "mapped_directory", "stdout_filename",
          "parent_layer_directory"}

Limits16 == {"cpus_count", "cpu_affinity_hex", "max_cpu_percent"}

Limits32 == {"max_ram_mb", "max_storage_iops", "max_storage_bandwidth_bytes_per_sec"}

Limits == Limits16 \cup Limits32

Settings == Paths \cup Limits \cup {"process_arguments"}

(* The members before anything is assigned to them. *)
Defaults == [s \in Settings |-> IF s \in Limits THEN 0 ELSE <<>>]

VARIABLES
  doc,     \* the object that is read
  pos,     \* the field read next
  config,  \* the members of the object under construction
  target,  \* the members of the object it is moved to
  status   \* reading, accepted, threw, or moved

vars == <<doc, pos, config, target, status>>

Init == /\ doc \in Documents
        /\ pos = 1
        /\ config = Defaults
        /\ target = Defaults
        /\ status = "reading"

-------------------------------------------------------------------------------
(* Reading a field.                                                        *)

replace_slashes(text) == ReplaceAll(text, "/", "\\")

IsString(v) == v.kind = "string"

(* Mutant: any number will do. *)
IsUintUnchecked(v, max) == v.kind = "int"

IsUint(v, max) == v.kind = "int" /\ v.num \in 0..max

(* What as_string_or_throw, as_array_or_throw and as_uint.._or_throw let   *)
(* through under each name.                                                *)
Readable(field) ==
  \/ field.name \in Paths /\ IsString(field.value)
  \/ /\ field.name = "process_arguments"
     /\ field.value.kind = "array"
     /\ \A v \in ToSet(field.value.items) : IsString(v)
  \/ field.name \in Limits16 /\ IsUint(field.value, Max16)
  \/ field.name \in Limits32 /\ IsUint(field.value, Max32)

Texts(items) == [i \in DOMAIN items |-> items[i].text]

(* Mutant: a second array replaces the first. *)
AssignArgumentsAnew(c, field) ==
  LET v == field.value
  IN  [c EXCEPT ![field.name] = IF field.name \in Paths THEN replace_slashes(v.text)
                                ELSE IF field.name \in Limits THEN v.num
                                ELSE Texts(v.items)]

(* Paths are assigned with backslashes, limits as they are, and arguments  *)
(* are appended.                                                           *)
Assign(c, field) ==
  LET v == field.value
  IN  [c EXCEPT ![field.name] = IF field.name \in Paths THEN replace_slashes(v.text)
                                ELSE IF field.name \in Limits THEN v.num
                                ELSE c[field.name] \o Texts(v.items)]

ReadField ==
  /\ status = "reading"
  /\ pos <= Len(doc)
  /\ \/ /\ Readable(doc[pos])
        /\ config' = Assign(config, doc[pos])
        /\ pos' = pos + 1
        /\ UNCHANGED status
     \/ /\ ~Readable(doc[pos])
        /\ status' = "threw"
        /\ UNCHANGED <<pos, config>>
  /\ UNCHANGED <<doc, target>>

Validate ==
  /\ status = "reading"
  /\ pos > Len(doc)
  /\ status' = IF \A p \in Paths : config[p] # <<>> THEN "accepted" ELSE "threw"
  /\ UNCHANGED <<doc, pos, config, target>>

-------------------------------------------------------------------------------
(* Moving, and printing.                                                   *)

(* What is left of a moved object: no text, and the numbers but those it   *)
(* resets.                                                                 *)
MovedFrom(c, reset) == [s \in Settings |-> IF s \in reset THEN 0
                                           ELSE IF s \in Limits THEN c[s] ELSE <<>>]

Move(reset) == /\ status = "accepted"
               /\ target' = config
               /\ config' = MovedFrom(config, reset)
               /\ status' = "moved"
               /\ UNCHANGED <<doc, pos>>

(* The constructor resets three of the six numbers, the assignment all.    *)
MoveConstruct == Move({"max_ram_mb", "cpus_count", "cpu_affinity_hex"})

MoveAssign == Move(Limits)

Next == \/ ReadField
        \/ Validate
        \/ MoveConstruct
        \/ MoveAssign
        \/ status \in {"threw", "moved"} /\ UNCHANGED vars

Spec == Init /\ [][Next]_vars

StringValue(t) == [kind |-> "string", text |-> t]

JsonField(c, s) ==
  [name |-> s,
   value |-> IF s \in Paths THEN StringValue(c[s])
             ELSE IF s \in Limits THEN [kind |-> "int", num |-> c[s]]
             ELSE [kind |-> "array",
                   items |-> [i \in DOMAIN c[s] |-> StringValue(c[s][i])]]]

(* Mutant: the percentage is not printed. *)
PrintedUnlimited ==
  <<"process_directory", "process_executable", "process_arguments", "max_ram_mb", "cpus_count",
    "cpu_affinity_hex", "mapped_directory", "stdout_filename", "parent_layer_directory">>

(* The members that to_json names. *)
Printed ==
  <<"process_directory", "process_executable", "process_arguments", "max_ram_mb", "cpus_count",
    "cpu_affinity_hex", "max_cpu_percent", "mapped_directory", "stdout_filename",
    "parent_layer_directory">>

to_json(c) == [i \in DOMAIN Printed |-> JsonField(c, Printed[i])]

-------------------------------------------------------------------------------
(* The members are of their C++ types: every limit fits its width, whatever *)
(* number the object gives.                                                *)
TypeOK == /\ pos \in 1 .. Len(doc) + 1
          /\ \A c \in {config, target} :
               /\ DOMAIN c = Settings
               /\ \A s \in Limits16 : c[s] \in 0..Max16
               /\ \A s \in Limits32 : c[s] \in 0..Max32
          /\ status \in {"reading", "accepted", "threw", "moved"}

(* What an object says, without reading it in order: the last value of a   *)
(* name counts, and the arguments of all arrays count.                     *)
Positions(d, s) == {i \in DOMAIN d : d[i].name = s}

LastValue(d, s) == d[CHOOSE i \in Positions(d, s) : \A j \in Positions(d, s) : j <= i].value

Arguments(d) ==
  FlattenSeq([i \in DOMAIN d |->
                IF d[i].name = "process_arguments" THEN Texts(d[i].value.items) ELSE <<>>])

Meaning(d) ==
  [s \in Settings |->
     IF s = "process_arguments" THEN Arguments(d)
     ELSE IF Positions(d, s) = {} THEN Defaults[s]
     ELSE IF s \in Paths THEN replace_slashes(LastValue(d, s).text)
     ELSE LastValue(d, s).num]

WellFormed(d) == /\ \A i \in DOMAIN d : Readable(d[i])
                 /\ \A p \in Paths : Positions(d, p) # {} /\ LastValue(d, p).text # <<>>

Held == IF status = "moved" THEN target ELSE config

(* An object is accepted exactly when all of it can be read and every path *)
(* ends up non-empty, whatever was assigned on the way; and the settings,  *)
(* moved or not, are those it says.                                        *)
HoldsWhatWasSaid ==
  /\ status \in {"accepted", "moved"} => WellFormed(doc) /\ Held = Meaning(doc)
  /\ status = "threw" => ~WellFormed(doc)

(* The settings that spawn_and_wait prints can be read again and say the   *)
(* same, but for the two storage limits, which are not printed.            *)
PrintedReadsBack ==
  status = "accepted"
    => /\ WellFormed(to_json(config))
       /\ Meaning(to_json(config))
            = [config EXCEPT !["max_storage_iops"] = 0,
                             !["max_storage_bandwidth_bytes_per_sec"] = 0]

===============================================================================
