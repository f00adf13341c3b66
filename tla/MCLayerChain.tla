----------------------------- MODULE MCLayerChain -----------------------------
(* Paths short and long, chains of up to three layers, one of which may be *)
(* no text, and masks with one to four digits of every kind.               *)
EXTENDS LayerChain

Parent == <<"P">>
Near   == <<"N">>
Far    == <<"F">>
Own    == <<"nspawn">>

Guids == [name \in {Parent, Near, Far, Own} |-> CASE name = Parent -> <<"A", "1", "-", "0">>
                                                  [] name = Near   -> <<"B", "1", "-", "F">>
                                                  [] name = Far    -> <<"C", "2", "-", "a">>
                                                  [] OTHER         -> <<"D", "3", "-", "0">>]

Small == [A |-> "a", B |-> "b", C |-> "c", D |-> "d", F |-> "f"]

Beside == <<"layers", Separator>>
Deep   == <<"data", Separator, "layers", Separator>>

Texts == {Beside \o Near, Deep \o Near, Deep \o Far}

AllChains == SeqOf(Texts, 2) \cup {<<NotText>>, <<Deep \o Near, NotText>>,
                                   <<Beside \o Near, Deep \o Far, Deep \o Near>>}

Config(parent, mask, arguments) ==
  [parent_layer_directory |-> parent,
   process_directory |-> <<"host", Separator, "work">>,
   process_executable |-> <<"bin", Separator, "exe">>,
   process_arguments |-> arguments,
   mapped_directory |-> <<"mnt">>,
   stdout_filename |-> <<"out">>,
   max_ram_mb |-> 512, cpus_count |-> 1, cpu_affinity_hex |-> mask, max_cpu_percent |-> 25,
   max_storage_iops |-> 1024, max_storage_bandwidth_bytes_per_sec |-> 4096]

Masks == {0, 1, 9, 10, 15, 16, 160, 171, 255, 4096, 65535}

SomeConfigs ==
  {Config(dir \o Parent, mask, <<<<"one">>, <<"two", Blank, "three">>>>) :
     dir \in {Beside, Deep}, mask \in Masks}

===============================================================================
