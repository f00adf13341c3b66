------------------------------- MODULE Documents -------------------------------
(***************************************************************************)
(* What the service is told about a container: the layers                  *)
(* (container_layer.hpp, container_id.hpp), the document the compute       *)
(* system is created from (container_config.hpp) and the one its process   *)
(* is created from (process_config.hpp), as functions of the settings.     *)
(*                                                                         *)
(* A text is a sequence of the pieces a property tells apart: separators,  *)
(* blanks, hexadecimal digits, names.  A path has a separator and a name   *)
(* after the last one.                                                     *)
(***************************************************************************)
EXTENDS Integers, SequencesExt

CONSTANTS
  NameToGuid,  \* the service's function from names to GUIDs
  Lower        \* the small letter of each capital one

Text == Seq(STRING)

Separator == "\\"

Blank == " "

IsSeparator(piece) == piece = Separator

(* What staticlib cuts a path into: up to its last separator, and after.   *)
strip_filename(path) == SubSeq(path, 1, SelectLastInSeq(path, IsSeparator))

strip_parent_dir(path) == SubSeq(path, SelectLastInSeq(path, IsSeparator) + 1, Len(path))

-------------------------------------------------------------------------------
(* Layers.                                                                 *)

container_layer(base_path, layer_name) == [base_path |-> base_path,
                                           wpath |-> base_path \o layer_name,
                                           name |-> layer_name]

clone(layer) == container_layer(layer.base_path, layer.name)

get_path(layer) == layer.base_path \o layer.name

tolower(piece) == IF piece \in DOMAIN Lower THEN Lower[piece] ELSE piece

(* In braces, and counting the null character that ends it. *)
StringFromGUID2(guid) == <<"{">> \o guid \o <<"}", "null">>

(* Mutant: the null character is not counted. *)
to_id_with_brace(name) ==
  LET braceful == StringFromGUID2(NameToGuid[name])
      res == SubSeq(braceful, 2, Len(braceful) - 1)
  IN  [i \in DOMAIN res |-> tolower(res[i])]

to_id(name) == LET braceful == StringFromGUID2(NameToGuid[name])
                   res == SubSeq(braceful, 2, Len(braceful) - 2)
               IN  [i \in DOMAIN res |-> tolower(res[i])]

layer_json(layer) == [ID |-> to_id(layer.name), Path |-> get_path(layer)]

-------------------------------------------------------------------------------
(* The document of the compute system.                                     *)

(* container_config keeps layers of its own. *)
cloned(layers) == [i \in DOMAIN layers |-> clone(layers[i])]

container_json(conf, name, volume_path, own_layer, parent_layers, hostname) ==
  [Name                    |-> name,
   VolumePath              |-> volume_path,
   LayerFolderPath         |-> get_path(own_layer),
   Layers                  |-> [i \in DOMAIN parent_layers |-> layer_json(parent_layers[i])],
   MemoryMaximumInMB       |-> conf.max_ram_mb,
   ProcessorCount          |-> conf.cpus_count,
   ProcessorMaximum        |-> conf.max_cpu_percent * 100,
   StorageIOPSMaximum      |-> conf.max_storage_iops,
   StorageBandwidthMaximum |-> conf.max_storage_bandwidth_bytes_per_sec,
   HostName                |-> hostname,
   MappedDirectories       |->
     <<[HostPath         |-> conf.process_directory,
        ContainerPath    |-> conf.mapped_directory,
        IOPSMaximum      |-> conf.max_storage_iops,
        BandwidthMaximum |-> conf.max_storage_bandwidth_bytes_per_sec]>>]

-------------------------------------------------------------------------------
(* The document of the process.                                            *)

Digits == <<"0", "1", "2", "3", "4", "5", "6", "7", "8", "9", "a", "b", "c", "d", "e", "f">>

Numeral(base, number) ==
  LET digits[n \in 0..number] ==
        IF n < base THEN <<Digits[n + 1]>>
        ELSE Append(digits[n \div base], Digits[(n % base) + 1])
  IN  digits[number]

(* Mutant: the stream is not switched to hexadecimal. *)
cpu_affinity_dec_str(conf) == Numeral(10, conf.cpu_affinity_hex)

cpu_affinity_hex_str(conf) == Numeral(16, conf.cpu_affinity_hex)

(* Mutant: the executable is named as it is on the host. *)
executable_on_host(conf) == conf.process_directory \o <<Separator>> \o conf.process_executable

executable(conf) == conf.mapped_directory \o <<Separator>> \o conf.process_executable

command_line(conf) ==
     <<"cmd.exe", Blank, "/c", Blank, "start", Blank, "/b", Blank, "/wait", Blank,
       "/affinity", Blank, "0x">> \o cpu_affinity_hex_str(conf)
  \o <<Blank>> \o executable(conf)
  \o FlattenSeq([i \in DOMAIN conf.process_arguments |-> <<Blank>> \o conf.process_arguments[i]])
  \o <<Blank, ">>", Blank>> \o conf.stdout_filename \o <<Blank, "2>&1">>

process_json(conf) == [CommandLine      |-> command_line(conf),
                       WorkingDirectory |-> conf.mapped_directory]

===============================================================================
