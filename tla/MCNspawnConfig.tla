---------------------------- MODULE MCNspawnConfig ----------------------------
(* A complete object with two changes anywhere in it: a field put in (which *)
(* may repeat a name, with a good value or a bad one), or taken out; and no  *)
(* object, which is read as one without fields.                            *)
EXTENDS NspawnConfig

String(t) == [kind |-> "string", text |-> t]
Num(n)    == [kind |-> "int", num |-> n]
Array(s)  == [kind |-> "array", items |-> s]

Field(name, value) == [name |-> name, value |-> value]

Complete ==
  <<Field("parent_layer_directory", String(<<"layers", "/", "parent">>)),
    Field("process_directory", String(<<"host", "/", "dir">>)),
    Field("process_executable", String(<<"bin", "\\", "exe">>)),
    Field("process_arguments", Array(<<String(<<"/", "arg">>)>>)),
    Field("mapped_directory", String(<<"mnt">>)),
    Field("stdout_filename", String(<<"out">>))>>

Extra ==
       {Field(s, Num(n)) : s \in {"cpus_count", "max_cpu_percent"},
                           n \in {0 - 1, Max16, Max16 + 1}}
  \cup {Field(s, Num(n)) : s \in {"max_ram_mb", "max_storage_iops"},
                           n \in {Max16 + 1, Max32, Max32 + 1}}
  \cup {Field("process_directory", v) : v \in {String(<<>>), String(<<"/">>), Num(1)}}
  \cup {Field("process_arguments", v) :
          v \in {Array(<<>>), Array(<<String(<<"b">>)>>), Array(<<String(<<"b">>), Num(1)>>),
                 String(<<"b">>)}}
  \cup {Field("unknown_name", Num(1))}

Changed(docs) ==
  UNION {     {InsertAt(d, i, f) : i \in {1, 4, Len(d) + 1}, f \in Extra}
         \cup {RemoveAt(d, i) : i \in DOMAIN d} : d \in docs}

ChangedDocuments == {<<>>, Complete} \cup Changed({Complete}) \cup Changed(Changed({Complete}))

===============================================================================
