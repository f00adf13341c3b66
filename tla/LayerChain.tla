------------------------------ MODULE LayerChain ------------------------------
(***************************************************************************)
(* The data that spawn_and_wait (src/src/hostcompute_nspawn.cpp) hands to  *)
(* the service.  The layers a container stands on are collected in a       *)
(* vector from the settings and from the parent layer's layerchain.json;   *)
(* descriptors that point into them go to the driver, twice; clones of     *)
(* them go into the document the compute system is created from; and the   *)
(* process is created from a document of its own.                          *)
(*                                                                         *)
(* A descriptor holds the address of the characters of a layer's path.     *)
(* They are inside the layer when they are few, and then move with it when *)
(* the vector grows, or else on the heap.                                  *)
(*                                                                         *)
(* SpawnAndWait has the same thread with its failures and its clean-ups;   *)
(* here a call that fails just ends it.                                    *)
(***************************************************************************)
EXTENDS Documents

CONSTANTS
  Configs,    \* accepted settings
  Chains,     \* contents of layerchain.json: texts, and NotText; a file that
              \* cannot be read is <<NotText>>
  NotText,    \* an element that is no string
  OwnName,    \* the generated name of the container's own layer
  VolumePath, \* what GetLayerMountPath answers
  HostName,   \* the generated host name
  InlineMax   \* the longest text that is kept inside its string

(* The paths that are written down somewhere. *)
Paths == {conf.parent_layer_directory : conf \in Configs}
           \cup (UNION {ToSet(chain) : chain \in Chains} \ {NotText})

ASSUME LayerChainAssumption ==
  /\ InlineMax \in Nat
  /\ \A chain \in Chains : chain \in Seq({NotText} \cup Paths)
  /\ \A conf \in Configs : /\ {conf.process_directory, conf.process_executable,
                                conf.mapped_directory, conf.stdout_filename} \subseteq Text
                            /\ conf.process_arguments \in Seq(Text)
                            /\ conf.cpu_affinity_hex \in Nat
  /\ \A path \in Paths : path \in Text /\ NameToGuid[strip_parent_dir(path)] \in Text

VARIABLES
  conf,         \* the settings
  chain,        \* what layerchain.json holds
  layers,       \* the vector acsendant_layers
  buffer,       \* how often that vector has moved its elements
  descriptors,  \* the vector acsendant_descriptors
  created,      \* what CreateSandboxLayer reads through them
  prepared,     \* what PrepareLayer reads through them
  container,    \* the document given to HcsCreateComputeSystem, if any
  process,      \* the document given to HcsCreateProcess, if any
  pc

vars == <<conf, chain, layers, buffer, descriptors, created, prepared, container, process, pc>>

base_path == strip_filename(conf.parent_layer_directory)

parent_layer_name == strip_parent_dir(conf.parent_layer_directory)

Init == /\ conf \in Configs
        /\ chain \in Chains
        /\ layers = <<container_layer(base_path, parent_layer_name)>>
        /\ buffer = 0
        /\ descriptors = <<>>
        /\ created = <<>>
        /\ prepared = <<>>
        /\ container = <<>>
        /\ process = <<>>
        /\ pc = "collect"

-------------------------------------------------------------------------------
(* The address of the characters of layer i, as long as the vector stays   *)
(* where it is.                                                            *)
Characters(i) == IF Len(layers[i].wpath) <= InlineMax THEN <<"inline", buffer, i>>
                                                      ELSE <<"heap", i>>

(* Mutant: the path is widened when it is asked for. *)
to_descriptor_of_temporary(i) == [LayerId |-> NameToGuid[layers[i].name],
                                  Path |-> <<"temporary", i>>]

to_descriptor(i) == [LayerId |-> NameToGuid[layers[i].name], Path |-> Characters(i)]

Garbage == <<"garbage">>

(* What the driver finds at an address. *)
Read(address) == IF \E i \in DOMAIN layers : Characters(i) = address
                 THEN layers[CHOOSE i \in DOMAIN layers : Characters(i) = address].wpath
                 ELSE Garbage

ReadDescriptors ==
  [i \in DOMAIN descriptors |-> [LayerId |-> descriptors[i].LayerId,
                                 Path |-> Read(descriptors[i].Path)]]

Fails == /\ pc' = "threw"
         /\ UNCHANGED <<conf, chain, layers, buffer, descriptors, created, prepared, container,
                        process>>

(* The element of layerchain.json that is read next. *)
Next_el == chain[Len(layers)]

(* Mutant: the last element is not read. *)
CollectedEarly == Len(layers) >= Len(chain)

Collected == Len(layers) > Len(chain)

Emplace == layers' = Append(layers, container_layer(strip_filename(Next_el),
                                                    strip_parent_dir(Next_el)))

(* One element: the vector may have to move to hold it.                    *)
collect_acsendant_layers ==
  /\ pc = "collect"
  /\ \/ /\ ~Collected
        /\ Next_el # NotText
        /\ Emplace
        /\ buffer' \in {buffer, buffer + 1}
        /\ UNCHANGED <<conf, chain, descriptors, created, prepared, container, process, pc>>
     \/ /\ Collected
        /\ pc' = "describe"
        /\ UNCHANGED <<conf, chain, layers, buffer, descriptors, created, prepared, container,
                       process>>
     \/ ~Collected /\ Next_el = NotText /\ Fails

(* NameToGuid may refuse any of them. *)
create_ascendant_descriptors ==
  /\ pc = "describe"
  /\ \/ /\ descriptors' = [i \in DOMAIN layers |-> to_descriptor(i)]
        /\ pc' = "create"
        /\ UNCHANGED <<conf, chain, layers, buffer, created, prepared, container, process>>
     \/ Fails

hcs_create_layer ==
  /\ pc = "create"
  /\ \/ /\ created' = ReadDescriptors
        /\ pc' = "prepare"
        /\ UNCHANGED <<conf, chain, layers, buffer, descriptors, prepared, container, process>>
     \/ Fails

hcs_prepare_layer ==
  /\ pc = "prepare"
  /\ \/ /\ prepared' = ReadDescriptors
        /\ pc' = "container"
        /\ UNCHANGED <<conf, chain, layers, buffer, descriptors, created, container, process>>
     \/ Fails

(* container_config is built from clones of the layers; its GUIDs are      *)
(* asked for again and may be refused.                                     *)
hcs_create_compute_system ==
  /\ pc = "container"
  /\ \/ /\ container' = <<container_json(conf, base_path, VolumePath,
                                         clone(container_layer(base_path, OwnName)),
                                         cloned(layers), HostName)>>
        /\ pc' = "process"
        /\ UNCHANGED <<conf, chain, layers, buffer, descriptors, created, prepared, process>>
     \/ Fails

hcs_create_process ==
  /\ pc = "process"
  /\ \/ /\ process' = <<process_json(conf)>>
        /\ pc' = "done"
        /\ UNCHANGED <<conf, chain, layers, buffer, descriptors, created, prepared, container>>
     \/ Fails

Next == \/ collect_acsendant_layers
        \/ create_ascendant_descriptors
        \/ hcs_create_layer
        \/ hcs_prepare_layer
        \/ hcs_create_compute_system
        \/ hcs_create_process
        \/ pc \in {"done", "threw"} /\ UNCHANGED vars

Spec == Init /\ [][Next]_vars

-------------------------------------------------------------------------------
TypeOK == /\ buffer \in 0..Len(chain)
          /\ Len(layers) \in 1 .. Len(chain) + 1
          /\ Len(descriptors) \in {0, Len(chain) + 1}
          /\ \A seen \in {created, prepared} : Len(seen) \in {0, Len(descriptors)}
          /\ Len(container) \in 0..1 /\ Len(process) \in 0..1
          /\ pc \in {"collect", "describe", "create", "prepare", "container", "process", "done",
                     "threw"}

(* The paths of the layers below the container, as they were written down: *)
(* the parent's in the settings, the others in its layerchain.json.        *)
Recorded == <<conf.parent_layer_directory>> \o chain

Describes(seen) ==
  seen = [i \in DOMAIN Recorded |-> [LayerId |-> NameToGuid[strip_parent_dir(Recorded[i])],
                                    Path |-> Recorded[i]]]

(* Whenever the driver follows the descriptors, however often the layers   *)
(* have moved since they were collected and however short their paths are, *)
(* it finds the layers that were written down, the nearest one first, each *)
(* under the GUID of its own name.                                         *)
DriverSeesChain == \A seen \in {created, prepared} : seen # <<>> => Describes(seen)

(* The layer c in the document is the one the driver has been given as d.  *)
SameLayer(c, d) == /\ c.Path = d.Path
                   /\ Len(c.ID) = Len(d.LayerId)
                   /\ \A i \in DOMAIN c.ID : c.ID[i] = tolower(d.LayerId[i])

(* The document, made from clones after the driver has prepared the layer, *)
(* stacks the container on the same layers, under the same identifiers (in *)
(* small letters, without braces), and its own layer beside the parent's.  *)
DocumentStacksSameLayers ==
  container # <<>>
    => LET doc == container[1]
       IN  /\ Len(doc.Layers) = Len(prepared)
           /\ \A i \in DOMAIN prepared : SameLayer(doc.Layers[i], prepared[i])
           /\ doc.LayerFolderPath = base_path \o OwnName

-------------------------------------------------------------------------------
(* How cmd and start read the command line: the word after /affinity is    *)
(* the mask, the next one the program, and the one after the last >> is    *)
(* where the output goes.  A word ends before a blank or with the line.    *)
IsAffinity(piece) == piece = "/affinity"

IsRedirection(piece) == piece = ">>"

WordEnd(line, first) ==
  Min({i \in first .. Len(line) + 1 : i = Len(line) + 1 \/ line[i] = Blank})

WordAt(line, first) == SubSeq(line, first, WordEnd(line, first) - 1)

Started(line) ==
  LET mask    == SelectInSeq(line, IsAffinity) + 2
      program == WordEnd(line, mask) + 1
      output  == SelectLastInSeq(line, IsRedirection) + 2
  IN  [mask       |-> Tail(WordAt(line, mask)),
       executable |-> WordAt(line, program),
       output     |-> WordAt(line, output)]

Hexadecimal(digits) ==
  LET value[i \in 0..Len(digits)] ==
        IF i = 0 THEN 0
        ELSE 16 * value[i - 1] + (CHOOSE d \in DOMAIN Digits : Digits[d] = digits[i]) - 1
  IN  value[Len(digits)]

(* Where a path inside the container leads on the host, if it is mounted.  *)
OnHost(mounts, path) ==
  LET covering == {m \in ToSet(mounts) : IsPrefix(m.ContainerPath, path)}
  IN  {m.HostPath \o SubSeq(path, Len(m.ContainerPath) + 1, Len(path)) : m \in covering}

(* README.md: process_directory is mounted into the container, the         *)
(* executable is run from it and the output is written into it.  The two   *)
(* documents agree on where that is: what the process's document names     *)
(* leads, through the mount in the container's, to what was configured.    *)
ProcessRunsInItsDirectory ==
  process # <<>>
    => LET run    == Started(process[1].CommandLine)
           inside == process[1].WorkingDirectory \o <<Separator>>
           Leads(path, name) == OnHost(container[1].MappedDirectories, path)
                                  = {conf.process_directory \o <<Separator>> \o name}
       IN  /\ Leads(run.executable, conf.process_executable)
           /\ Leads(inside \o run.output, conf.stdout_filename)

(* README.md: the mask is specified in decimal and used in hexadecimal.    *)
(* Read as start reads it, it is the number in the settings, up to the     *)
(* last of the 16 CPUs.                                                    *)
AffinityMaskRead ==
  process # <<>>
    => Hexadecimal(Started(process[1].CommandLine).mask) = conf.cpu_affinity_hex

===============================================================================
