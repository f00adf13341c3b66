--------------------------- MODULE LayerChain_proofs ---------------------------
(***************************************************************************)
(* Proofs about what spawn_and_wait tells the service and the driver: the  *)
(* layers, for any settings, any contents of layerchain.json, paths of any *)
(* length, and any bound on the texts that are kept inside their strings;  *)
(* and the command line, for any mask, any arguments and any file names.   *)
(***************************************************************************)
EXTENDS LayerChain, SequenceLemmas

(* The last separator of a path, or 0, is a place in it.                   *)
LEMMA LastSeparator ==
  ASSUME NEW path \in Text
  PROVE  SelectLastInSeq(path, IsSeparator) \in 0..Len(path)
  <1> DEFINE I == {i \in 1..Len(path) : IsSeparator(path[i])}
  <1>1. Len(path) \in Nat
    BY LenProperties DEF Text
  <1>2. I # {} => Max(I) \in 1..Len(path)
    BY <1>1, Greatest
  <1>3. SelectLastInSeq(path, IsSeparator) = IF I # {} THEN Max(I) ELSE 0
    BY DEF SelectLastInSeq
  <1> QED
    BY <1>1, <1>2, <1>3

(* What staticlib cuts a path into makes up the path again.                *)
LEMMA StrippedPath ==
  ASSUME NEW path \in Text
  PROVE  /\ strip_filename(path) \in Text
         /\ strip_parent_dir(path) \in Text
         /\ strip_filename(path) \o strip_parent_dir(path) = path
  <1> DEFINE k == SelectLastInSeq(path, IsSeparator)
  <1>1. k \in 0..Len(path) /\ Len(path) \in Nat
    BY LastSeparator, LenProperties DEF Text
  <1>2. \A i \in 1..Len(path) : path[i] \in STRING
    BY ElementOfSeq DEF Text
  <1> HIDE DEF k
  <1>3. SubSeq(path, 1, k) \in Text /\ SubSeq(path, k + 1, Len(path)) \in Text
    BY <1>1, <1>2, SubSeqProperties DEF Text
  <1>4. SubSeq(path, 1, k) \o SubSeq(path, k + 1, Len(path)) = SubSeq(path, 1, Len(path))
    <2>1. 1 \in 1 .. Len(path) + 1 /\ k \in 1 - 1 .. Len(path) /\ Len(path) \in k .. Len(path)
      BY <1>1
    <2> QED
      BY <2>1, ConcatAdjacentSubSeq, Zenon DEF Text
  <1>5. SubSeq(path, 1, Len(path)) = path
    BY SubSeqFull DEF Text
  <1> QED
    BY <1>3, <1>4, <1>5 DEF strip_filename, strip_parent_dir, k

(* The identifier in the document is the GUID in small letters: without    *)
(* its braces and without the null character that ends it.                 *)
LEMMA Identifier ==
  ASSUME NEW name, NameToGuid[name] \in Text
  PROVE  /\ Len(to_id(name)) = Len(NameToGuid[name])
         /\ DOMAIN to_id(name) = 1..Len(NameToGuid[name])
         /\ \A i \in 1..Len(NameToGuid[name]) : to_id(name)[i] = tolower(NameToGuid[name][i])
  <1> DEFINE guid == NameToGuid[name]
             open == <<"{">>
             close == <<"}", "null">>
             Pieces == STRING \cup {"{", "}", "null"}
             braceful == open \o guid \o close
             res == SubSeq(braceful, 2, Len(braceful) - 2)
  <1>1. guid \in Seq(Pieces) /\ Len(guid) \in Nat
    BY LenProperties, SeqMonotonic DEF Text
  <1>2. open \in Seq(Pieces) /\ Len(open) = 1 /\ close \in Seq(Pieces) /\ Len(close) = 2
    OBVIOUS
  <1>3. to_id(name) = [i \in DOMAIN res |-> tolower(res[i])]
    BY DEF to_id, StringFromGUID2
  <1> HIDE DEF guid, open, close, Pieces
  <1>4. /\ open \o guid \in Seq(Pieces)
        /\ Len(open \o guid) = Len(guid) + 1
        /\ \A i \in 1..Len(guid) : (open \o guid)[i + 1] = guid[i]
    <2>1. \A i \in 1..Len(guid) : Len(open) + i = i + 1
      BY <1>1, <1>2
    <2> QED
      BY <1>1, <1>2, <2>1, Joined
  <1>5. /\ braceful \in Seq(Pieces)
        /\ Len(braceful) = Len(guid) + 3
        /\ \A i \in 1..Len(guid) + 1 : braceful[i] = (open \o guid)[i]
    <2>1. /\ braceful \in Seq(Pieces)
          /\ Len(braceful) = Len(open \o guid) + Len(close)
          /\ \A i \in 1..Len(open \o guid) : braceful[i] = (open \o guid)[i]
      <3> DEFINE front == open \o guid
      <3>1. front \in Seq(Pieces)
        BY <1>4
      <3> HIDE DEF front
      <3>2. /\ front \o close \in Seq(Pieces)
            /\ Len(front \o close) = Len(front) + Len(close)
            /\ \A i \in 1..Len(front) : (front \o close)[i] = front[i]
        BY <1>2, <3>1, Joined
      <3> QED
        BY <3>2 DEF front
    <2>2. Len(open \o guid) + Len(close) = Len(guid) + 3
      BY <1>1, <1>2, <1>4
    <2> QED
      BY <1>4, <2>1, <2>2, Zenon
  <1>6. \A i \in 1..Len(guid) : braceful[i + 1] = guid[i]
    <2> SUFFICES ASSUME NEW i \in 1..Len(guid) PROVE braceful[i + 1] = guid[i]
      OBVIOUS
    <2>1. i + 1 \in 1..Len(guid) + 1
      BY <1>1
    <2> QED
      BY <1>4, <1>5, <2>1
  <1> HIDE DEF braceful
  <1>7. \A i \in 2..Len(braceful) - 2 : braceful[i] \in Pieces
    BY <1>1, <1>5, ElementOfSeq
  <1>8. /\ res \in Seq(Pieces)
        /\ Len(res) = Len(guid)
        /\ \A i \in 1..Len(guid) : res[i] = guid[i]
    BY <1>1, <1>5, <1>6, <1>7, SubSeqProperties
  <1>9. DOMAIN res = 1..Len(guid)
    BY <1>8, LenProperties
  <1> HIDE DEF res
  <1> QED
    BY <1>1, <1>3, <1>8, <1>9 DEF guid

-------------------------------------------------------------------------------
(* The layers in the vector are the first of those that were written down. *)

InputInv == conf \in Configs /\ chain \in Chains

AsLayer(path) == container_layer(strip_filename(path), strip_parent_dir(path))

Layers == {AsLayer(path) : path \in Paths}

LayersInv ==
  /\ layers \in Seq(Layers)
  /\ Len(layers) \in 1 .. Len(chain) + 1
  /\ \A i \in 1..Len(layers) : Recorded[i] \in Paths /\ layers[i] = AsLayer(Recorded[i])
  /\ buffer \in 0 .. Len(layers) - 1

(* A layer of the vector has the path it was made from.                    *)
LEMMA LayerOfPath ==
  ASSUME NEW path \in Paths
  PROVE  /\ AsLayer(path) \in Layers
         /\ AsLayer(path).wpath = path
         /\ get_path(AsLayer(path)) = path
         /\ AsLayer(path).name = strip_parent_dir(path)
         /\ clone(AsLayer(path)) = AsLayer(path)
  BY StrippedPath, LayerChainAssumption DEF AsLayer, Layers, container_layer, get_path, clone

(* The parent's path comes first, and then the chain of the parent.        *)
LEMMA RecordedPaths ==
  ASSUME InputInv
  PROVE  /\ chain \in Seq({NotText} \cup Paths) /\ Len(chain) \in Nat
         /\ conf.parent_layer_directory \in Paths
         /\ Len(Recorded) = Len(chain) + 1
         /\ DOMAIN Recorded = 1 .. Len(chain) + 1
         /\ Recorded[1] = conf.parent_layer_directory
         /\ \A i \in 1..Len(chain) : Recorded[i + 1] = chain[i]
  <1> DEFINE Written == {NotText} \cup Paths
             first == <<conf.parent_layer_directory>>
  <1>1. chain \in Seq(Written) /\ Len(chain) \in Nat
    BY LayerChainAssumption, LenProperties DEF InputInv
  <1>2. conf.parent_layer_directory \in Paths
    BY DEF InputInv, Paths
  <1>3. /\ first \in Seq(Written) /\ Len(first) = 1
        /\ first[1] = conf.parent_layer_directory
    BY <1>2
  <1>4. Recorded = first \o chain
    BY DEF Recorded
  <1> HIDE DEF Written, first
  <1>5. /\ Recorded \in Seq(Written)
        /\ Len(Recorded) = Len(first) + Len(chain)
        /\ \A i \in 1..Len(first) : Recorded[i] = first[i]
        /\ \A i \in 1..Len(chain) : Recorded[Len(first) + i] = chain[i]
    <2>1. /\ first \o chain \in Seq(Written)
          /\ Len(first \o chain) = Len(first) + Len(chain)
          /\ \A i \in 1..Len(first) : (first \o chain)[i] = first[i]
          /\ \A i \in 1..Len(chain) : (first \o chain)[Len(first) + i] = chain[i]
      <3>1. \A s, t \in Seq(Written) :
              /\ s \o t \in Seq(Written)
              /\ Len(s \o t) = Len(s) + Len(t)
              /\ \A i \in 1..Len(s) : (s \o t)[i] = s[i]
              /\ \A i \in 1..Len(t) : (s \o t)[Len(s) + i] = t[i]
        BY Joined
      <3> QED
        BY <1>1, <1>3, <3>1, Zenon
    <2> QED
      BY <1>4, <2>1
  <1>6. Len(Recorded) = Len(chain) + 1 /\ Recorded[1] = conf.parent_layer_directory
    BY <1>1, <1>3, <1>5
  <1>7. ASSUME NEW i \in 1..Len(chain) PROVE Recorded[i + 1] = chain[i]
    <2>1. Len(first) + i = i + 1
      BY <1>1, <1>3
    <2> QED
      BY <1>5, <2>1
  <1>8. DOMAIN Recorded = 1 .. Len(chain) + 1
    BY <1>5, <1>6, LenProperties
  <1> QED
    BY <1>1, <1>2, <1>6, <1>7, <1>8 DEF Written

(* The vector starts with the layer of the settings.                       *)
LEMMA InitLayers == Init => InputInv /\ LayersInv
  <1> SUFFICES ASSUME Init PROVE InputInv /\ LayersInv
    OBVIOUS
  <1>1. InputInv
    BY DEF Init, InputInv
  <1>2. /\ conf.parent_layer_directory \in Paths
        /\ Len(chain) \in Nat
        /\ Recorded[1] = conf.parent_layer_directory
    BY <1>1, RecordedPaths
  <1>3. layers = <<AsLayer(conf.parent_layer_directory)>>
    BY DEF Init, AsLayer, base_path, parent_layer_name
  <1>4. layers \in Seq(Layers) /\ Len(layers) = 1 /\ layers[1] = AsLayer(Recorded[1])
    BY <1>2, <1>3, LayerOfPath
  <1> QED
    BY <1>1, <1>2, <1>4 DEF Init, LayersInv

(* An element of the chain becomes the next layer.                         *)
LEMMA EmplaceLayers ==
  ASSUME InputInv, LayersInv, UNCHANGED <<conf, chain>>,
         ~Collected, Next_el # NotText, Emplace, buffer' \in {buffer, buffer + 1}
  PROVE  InputInv' /\ LayersInv'
  <1> DEFINE n == Len(layers)
             el == Next_el
  <1>1. n \in 1..Len(chain) /\ Len(chain) \in Nat
    BY RecordedPaths DEF LayersInv, Collected
  <1>2. el \in Paths /\ Recorded[n + 1] = el
    BY <1>1, RecordedPaths, ElementOfSeq DEF Next_el
  <1>3. layers' = Append(layers, AsLayer(el)) /\ AsLayer(el) \in Layers
    BY <1>2, LayerOfPath DEF Emplace, AsLayer
  <1>4. Recorded' = Recorded
    BY DEF Recorded
  <1> HIDE DEF el
  <1>5. /\ layers' \in Seq(Layers)
        /\ Len(layers') = n + 1
        /\ \A i \in 1..n : layers'[i] = layers[i]
        /\ layers'[n + 1] = AsLayer(el)
    BY <1>1, <1>3 DEF LayersInv
  <1>6. ASSUME NEW i \in 1 .. n + 1
        PROVE  Recorded[i] \in Paths /\ layers'[i] = AsLayer(Recorded[i])
    <2>1. CASE i \in 1..n
      BY <1>5, <2>1 DEF LayersInv
    <2>2. CASE i = n + 1
      BY <1>2, <1>5, <2>2
    <2> QED
      BY <1>1, <2>1, <2>2
  <1>7. InputInv'
    BY DEF InputInv
  <1>8. buffer' \in 0 .. Len(layers') - 1
    BY <1>1, <1>5 DEF LayersInv
  <1> QED
    BY <1>1, <1>4, <1>5, <1>6, <1>7, <1>8 DEF LayersInv

-------------------------------------------------------------------------------
(* What the driver has been given to read.                                 *)

(* Every layer keeps its characters in a place of its own.                 *)
LEMMA OwnCharacters ==
  ASSUME NEW i \in DOMAIN layers, NEW j \in DOMAIN layers, Characters(i) = Characters(j)
  PROVE  i = j
  BY DEF Characters

Complete == Len(layers) = Len(chain) + 1

AsRecorded == [i \in DOMAIN Recorded |-> [LayerId |-> NameToGuid[strip_parent_dir(Recorded[i])],
                                         Path |-> Recorded[i]]]

(* The descriptors are made of the complete vector, which then stays where *)
(* it is: the addresses in them are good whenever they are followed.       *)
DescribedInv ==
  \/ /\ pc \in {"collect", "describe", "threw"}
     /\ descriptors = <<>>
     /\ pc = "describe" => Complete
  \/ /\ pc \in {"create", "prepare", "container", "process", "done", "threw"}
     /\ descriptors = [i \in DOMAIN layers |-> to_descriptor(i)]
     /\ Complete

(* What has been read is what was written down, and the document, if there *)
(* is one, was made of the same layers after the driver had read them.     *)
SeenInv ==
  /\ pc \in {"collect", "describe", "create"} => created = <<>>
  /\ pc \in {"collect", "describe", "create", "prepare"} => prepared = <<>>
  /\ pc \in {"collect", "describe", "create", "prepare", "container"} => container = <<>>
  /\ \A seen \in {created, prepared} :
       seen = <<>> \/ (seen = AsRecorded /\ Complete /\ descriptors # <<>>)
  /\ pc \in {"container", "process", "done"} => prepared = AsRecorded
  /\ \/ container = <<>>
     \/ /\ container = <<container_json(conf, base_path, VolumePath,
                                        clone(container_layer(base_path, OwnName)),
                                        cloned(layers), HostName)>>
        /\ prepared = AsRecorded
        /\ Complete
  /\ pc \in {"process", "done"} => container # <<>>
  /\ \/ process = <<>>
     \/ process = <<process_json(conf)>> /\ container # <<>>

IInv == InputInv /\ LayersInv /\ DescribedInv /\ SeenInv

(* Through the descriptors of a complete vector the driver finds the paths *)
(* and the GUIDs of what was written down.                                 *)
LEMMA ReadBack ==
  ASSUME InputInv, LayersInv, Complete, descriptors = [i \in DOMAIN layers |-> to_descriptor(i)]
  PROVE  ReadDescriptors = AsRecorded
  <1>1. DOMAIN layers = 1 .. Len(chain) + 1 /\ DOMAIN Recorded = DOMAIN layers
    BY RecordedPaths, LenProperties DEF LayersInv, Complete
  <1>2. ASSUME NEW i \in DOMAIN layers
        PROVE  /\ descriptors[i].LayerId = NameToGuid[strip_parent_dir(Recorded[i])]
               /\ Read(descriptors[i].Path) = Recorded[i]
    <2>1. Recorded[i] \in Paths /\ layers[i] = AsLayer(Recorded[i])
      BY <1>1 DEF LayersInv, Complete
    <2>2. layers[i].name = strip_parent_dir(Recorded[i]) /\ layers[i].wpath = Recorded[i]
      BY <2>1, LayerOfPath
    <2>3. descriptors[i] = [LayerId |-> NameToGuid[layers[i].name], Path |-> Characters(i)]
      BY DEF to_descriptor
    <2>4. Read(Characters(i)) = layers[i].wpath
      <3> DEFINE Holds(j) == Characters(j) = Characters(i)
      <3>1. (CHOOSE j \in DOMAIN layers : Holds(j)) = i
        BY OwnCharacters
      <3> QED
        BY <3>1 DEF Read
    <2> QED
      BY <2>2, <2>3, <2>4
  <1>3. DOMAIN descriptors = DOMAIN layers
    OBVIOUS
  <1> QED
    BY <1>1, <1>2, <1>3 DEF ReadDescriptors, AsRecorded

(* The vector starts with one layer, and nothing has been described.       *)
LEMMA InitIInv == Init => IInv
  <1> SUFFICES ASSUME Init PROVE IInv
    OBVIOUS
  <1>1. InputInv /\ LayersInv
    BY InitLayers
  <1>2. DescribedInv
    BY DEF Init, DescribedInv
  <1>3. SeenInv
    <2>1. Len(process) = 0
      BY EmptySeq DEF Init
    <2> QED
      BY <2>1 DEF Init, SeenInv
  <1> QED
    BY <1>1, <1>2, <1>3 DEF IInv

(* Nothing that has been written or read is lost when only pc moves on, as *)
(* it does when a call fails.                                              *)
LEMMA FailsIInv == IInv /\ Fails => IInv'
  <1> SUFFICES ASSUME IInv, Fails PROVE IInv'
    OBVIOUS
  <1>1. InputInv' /\ LayersInv'
    BY DEF IInv, Fails, InputInv, LayersInv, Recorded
  <1>2. DescribedInv'
    <2>1. Complete' = Complete
      BY DEF Fails, Complete
    <2>2. (\A i \in DOMAIN layers : to_descriptor(i)' = to_descriptor(i)) /\ layers' = layers
      BY DEF Fails, to_descriptor, Characters
    <2> QED
      BY <2>1, <2>2 DEF IInv, DescribedInv, Fails
  <1>3. SeenInv'
    <2>1. Complete' = Complete /\ AsRecorded' = AsRecorded /\ base_path' = base_path
      BY DEF Fails, Complete, AsRecorded, Recorded, base_path
    <2>2. /\ pc' = "threw"
          /\ UNCHANGED <<conf, layers, descriptors, created, prepared, container, process>>
      BY DEF Fails
    <2> QED
      BY <2>1, <2>2 DEF IInv, SeenInv
  <1> QED
    BY <1>1, <1>2, <1>3 DEF IInv

(* While the vector grows nothing has been described.                      *)
LEMMA CollectIInv == IInv /\ collect_acsendant_layers => IInv'
  <1> SUFFICES ASSUME IInv, collect_acsendant_layers PROVE IInv'
    OBVIOUS
  <1>0. pc = "collect"
    BY DEF collect_acsendant_layers
  <1>1. CASE /\ ~Collected
             /\ Next_el # NotText
             /\ Emplace
             /\ buffer' \in {buffer, buffer + 1}
             /\ UNCHANGED <<conf, chain, descriptors, created, prepared, container, process, pc>>
    <2>1. InputInv' /\ LayersInv'
      BY <1>1, EmplaceLayers DEF IInv
    <2>2. DescribedInv'
      BY <1>0, <1>1 DEF IInv, DescribedInv
    <2>3. SeenInv'
      BY <1>0, <1>1 DEF IInv, SeenInv, DescribedInv
    <2> QED
      BY <2>1, <2>2, <2>3 DEF IInv
  <1>2. CASE /\ Collected
             /\ pc' = "describe"
             /\ UNCHANGED <<conf, chain, layers, buffer, descriptors, created, prepared,
                            container, process>>
    <2>1. InputInv' /\ LayersInv'
      BY <1>2 DEF IInv, InputInv, LayersInv, Recorded
    <2>2. Complete'
      BY <1>2, RecordedPaths DEF IInv, LayersInv, Collected, Complete
    <2>3. DescribedInv'
      BY <1>0, <1>2, <2>2 DEF IInv, DescribedInv
    <2>4. SeenInv'
      BY <1>0, <1>2 DEF IInv, SeenInv, DescribedInv
    <2> QED
      BY <2>1, <2>3, <2>4 DEF IInv
  <1>3. CASE ~Collected /\ Next_el = NotText /\ Fails
    BY <1>3, FailsIInv
  <1> QED
    BY <1>1, <1>2, <1>3 DEF collect_acsendant_layers

(* The descriptors are made of the complete vector.                        *)
LEMMA DescribeIInv == IInv /\ create_ascendant_descriptors => IInv'
  <1> SUFFICES ASSUME IInv, create_ascendant_descriptors PROVE IInv'
    OBVIOUS
  <1>0. pc = "describe" /\ Complete
    BY DEF create_ascendant_descriptors, IInv, DescribedInv
  <1>1. CASE /\ descriptors' = [i \in DOMAIN layers |-> to_descriptor(i)]
             /\ pc' = "create"
             /\ UNCHANGED <<conf, chain, layers, buffer, created, prepared, container, process>>
    <2>1. InputInv' /\ LayersInv' /\ Complete'
      BY <1>0, <1>1 DEF IInv, InputInv, LayersInv, Recorded, Complete
    <2>2. \A i \in DOMAIN layers : to_descriptor(i)' = to_descriptor(i)
      BY <1>1 DEF to_descriptor, Characters
    <2>3. DescribedInv'
      BY <1>1, <2>1, <2>2 DEF DescribedInv
    <2>4. SeenInv'
      BY <1>0, <1>1 DEF IInv, SeenInv, DescribedInv
    <2> QED
      BY <2>1, <2>3, <2>4 DEF IInv
  <1>2. CASE Fails
    BY <1>2, FailsIInv
  <1> QED
    BY <1>1, <1>2 DEF create_ascendant_descriptors

(* The layers a complete vector is described by are not none.              *)
LEMMA SomeDescribed ==
  ASSUME InputInv, LayersInv, Complete
  PROVE  /\ Len(AsRecorded) = Len(chain) + 1 /\ DOMAIN AsRecorded = 1 .. Len(chain) + 1
         /\ DOMAIN layers = 1 .. Len(chain) + 1
         /\ Len([i \in DOMAIN layers |-> to_descriptor(i)]) = Len(chain) + 1
         /\ [i \in DOMAIN layers |-> to_descriptor(i)] # <<>>
  <1>1. DOMAIN layers = 1 .. Len(chain) + 1 /\ Len(chain) \in Nat
    BY RecordedPaths, LenProperties DEF LayersInv, Complete
  <1>2. DOMAIN Recorded = 1 .. Len(chain) + 1
    BY RecordedPaths
  <1>3. 1 \in DOMAIN [i \in DOMAIN layers |-> to_descriptor(i)]
    BY <1>1
  <1>4. DOMAIN <<>> = {}
    OBVIOUS
  <1>5. Len(AsRecorded) = Len(chain) + 1
    BY <1>1, <1>2 DEF AsRecorded
  <1>6. Len([i \in DOMAIN layers |-> to_descriptor(i)]) = Len(chain) + 1
    BY <1>1
  <1>7. DOMAIN AsRecorded = 1 .. Len(chain) + 1
    BY <1>2 DEF AsRecorded
  <1>8. [i \in DOMAIN layers |-> to_descriptor(i)] # <<>>
    BY <1>3, <1>4
  <1> QED
    BY <1>1, <1>5, <1>6, <1>7, <1>8

(* What was described stays described while the vector stays where it is.  *)
LEMMA StillDescribed ==
  ASSUME IInv, pc \in {"create", "prepare", "container", "process"},
         pc' \in {"prepare", "container", "process", "done"},
         UNCHANGED <<conf, chain, layers, buffer, descriptors>>
  PROVE  /\ InputInv' /\ LayersInv' /\ DescribedInv'
         /\ Complete /\ Complete' /\ AsRecorded' = AsRecorded
         /\ descriptors = [i \in DOMAIN layers |-> to_descriptor(i)]
         /\ descriptors # <<>>
         /\ descriptors' # <<>>
  <1>1. InputInv' /\ LayersInv'
    BY DEF IInv, InputInv, LayersInv, Recorded
  <1>2. Complete /\ descriptors = [i \in DOMAIN layers |-> to_descriptor(i)]
    BY DEF IInv, DescribedInv
  <1>3. Complete' /\ AsRecorded' = AsRecorded
    BY <1>2 DEF Complete, AsRecorded, Recorded
  <1>4. \A i \in DOMAIN layers : to_descriptor(i)' = to_descriptor(i)
    BY DEF to_descriptor, Characters
  <1>5. DescribedInv'
    BY <1>2, <1>3, <1>4 DEF DescribedInv
  <1>6. descriptors # <<>>
    BY <1>2, SomeDescribed, Zenon DEF IInv
  <1> QED
    BY <1>1, <1>2, <1>3, <1>5, <1>6

(* The driver creates the container's layer on what it reads.              *)
LEMMA CreateIInv == IInv /\ hcs_create_layer => IInv'
  <1> SUFFICES ASSUME IInv, hcs_create_layer PROVE IInv'
    OBVIOUS
  <1>0. pc = "create"
    BY DEF hcs_create_layer
  <1>1. CASE /\ created' = ReadDescriptors
             /\ pc' = "prepare"
             /\ UNCHANGED <<conf, chain, layers, buffer, descriptors, prepared, container,
                            process>>
    <2>1. /\ InputInv' /\ LayersInv' /\ DescribedInv'
          /\ Complete /\ Complete' /\ AsRecorded' = AsRecorded
          /\ descriptors = [i \in DOMAIN layers |-> to_descriptor(i)]
          /\ descriptors' # <<>>
      BY <1>0, <1>1, StillDescribed
    <2>2. created' = AsRecorded
      BY <1>1, <2>1, ReadBack DEF IInv
    <2>3. SeenInv'
      BY <1>0, <1>1, <2>1, <2>2 DEF IInv, SeenInv
    <2> QED
      BY <2>1, <2>3 DEF IInv
  <1>2. CASE Fails
    BY <1>2, FailsIInv
  <1> QED
    BY <1>1, <1>2 DEF hcs_create_layer

(* It prepares the layer on what it reads then.                            *)
LEMMA PrepareIInv == IInv /\ hcs_prepare_layer => IInv'
  <1> SUFFICES ASSUME IInv, hcs_prepare_layer PROVE IInv'
    OBVIOUS
  <1>0. pc = "prepare"
    BY DEF hcs_prepare_layer
  <1>1. CASE /\ prepared' = ReadDescriptors
             /\ pc' = "container"
             /\ UNCHANGED <<conf, chain, layers, buffer, descriptors, created, container,
                            process>>
    <2>1. /\ InputInv' /\ LayersInv' /\ DescribedInv'
          /\ Complete /\ Complete' /\ AsRecorded' = AsRecorded
          /\ descriptors = [i \in DOMAIN layers |-> to_descriptor(i)]
          /\ descriptors' # <<>>
      BY <1>0, <1>1, StillDescribed
    <2>2. prepared' = AsRecorded
      BY <1>1, <2>1, ReadBack DEF IInv
    <2>3. SeenInv'
      BY <1>0, <1>1, <2>1, <2>2 DEF IInv, SeenInv
    <2> QED
      BY <2>1, <2>3 DEF IInv
  <1>2. CASE Fails
    BY <1>2, FailsIInv
  <1> QED
    BY <1>1, <1>2 DEF hcs_prepare_layer

(* The document is made of the layers the driver has read.                 *)
LEMMA DocumentIInv == IInv /\ hcs_create_compute_system => IInv'
  <1> SUFFICES ASSUME IInv, hcs_create_compute_system PROVE IInv'
    OBVIOUS
  <1> DEFINE doc == container_json(conf, base_path, VolumePath,
                                   clone(container_layer(base_path, OwnName)),
                                   cloned(layers), HostName)
  <1>0. pc = "container"
    BY DEF hcs_create_compute_system
  <1>1. CASE /\ container' = <<doc>>
             /\ pc' = "process"
             /\ UNCHANGED <<conf, chain, layers, buffer, descriptors, created, prepared, process>>
    <2>1. /\ InputInv' /\ LayersInv' /\ DescribedInv'
          /\ Complete /\ Complete' /\ AsRecorded' = AsRecorded
          /\ descriptors' # <<>>
      BY <1>0, <1>1, StillDescribed
    <2>2. doc' = doc
      BY <1>1 DEF base_path
    <2> HIDE DEF doc
    <2>3. container' = <<doc'>> /\ prepared' = AsRecorded'
      BY <1>0, <1>1, <2>1, <2>2 DEF IInv, SeenInv
    <2>4. SeenInv'
      <3>1. \A seen \in {created', prepared'} :
              seen = <<>> \/ (seen = AsRecorded' /\ Complete' /\ descriptors' # <<>>)
        BY <1>1, <2>1 DEF IInv, SeenInv
      <3>2. process' = <<>>
        BY <1>0, <1>1 DEF IInv, SeenInv
      <3> QED
        BY <1>0, <1>1, <2>1, <2>3, <3>1, <3>2 DEF SeenInv, doc
    <2> QED
      BY <2>1, <2>4 DEF IInv
  <1>2. CASE Fails
    BY <1>2, FailsIInv
  <1> QED
    BY <1>1, <1>2 DEF hcs_create_compute_system

(* The process gets a document of its own.                                 *)
LEMMA ProcessIInv == IInv /\ hcs_create_process => IInv'
  <1> SUFFICES ASSUME IInv, hcs_create_process PROVE IInv'
    OBVIOUS
  <1>0. pc = "process"
    BY DEF hcs_create_process
  <1>1. CASE /\ process' = <<process_json(conf)>>
             /\ pc' = "done"
             /\ UNCHANGED <<conf, chain, layers, buffer, descriptors, created, prepared,
                            container>>
    <2>1. /\ InputInv' /\ LayersInv' /\ DescribedInv'
          /\ Complete /\ Complete' /\ AsRecorded' = AsRecorded
          /\ descriptors' # <<>>
      BY <1>0, <1>1, StillDescribed
    <2>2. base_path' = base_path
      BY <1>1 DEF base_path
    <2>3. Len(process') \in 0..1
      BY <1>1
    <2>4. SeenInv'
      BY <1>0, <1>1, <2>1, <2>2, <2>3 DEF IInv, SeenInv
    <2> QED
      BY <2>1, <2>4 DEF IInv
  <1>2. CASE Fails
    BY <1>2, FailsIInv
  <1> QED
    BY <1>1, <1>2 DEF hcs_create_process

(* Every step keeps the invariant.                                         *)
LEMMA NextIInv == IInv /\ [Next]_vars => IInv'
  <1> SUFFICES ASSUME IInv, [Next]_vars PROVE IInv'
    OBVIOUS
  <1>1. CASE UNCHANGED vars
    <2>1. InputInv' /\ LayersInv' /\ Complete' = Complete /\ AsRecorded' = AsRecorded
      BY <1>1 DEF IInv, InputInv, LayersInv, Complete, AsRecorded, Recorded, vars
    <2>2. (\A i \in DOMAIN layers : to_descriptor(i)' = to_descriptor(i)) /\ layers' = layers
      BY <1>1 DEF to_descriptor, Characters, vars
    <2>3. DescribedInv'
      BY <1>1, <2>1, <2>2 DEF IInv, DescribedInv, vars
    <2>4. base_path' = base_path
      BY <1>1 DEF base_path, vars
    <2>5. SeenInv'
      BY <1>1, <2>1, <2>4 DEF IInv, SeenInv, vars
    <2> QED
      BY <2>1, <2>3, <2>5 DEF IInv
  <1>2. CASE Next
    BY <1>1, <1>2, CollectIInv, DescribeIInv, CreateIInv, PrepareIInv, DocumentIInv, ProcessIInv
       DEF Next
  <1> QED
    BY <1>1, <1>2

(* The state that spawn_and_wait can be in between two of these calls.     *)
THEOREM Invariant == Spec => []IInv
  BY InitIInv, NextIInv, PTL DEF Spec

(* The vector never outgrows what was written down, and no list is of      *)
(* another length than its elements are.                                   *)
THEOREM TypeCorrect == Spec => []TypeOK
  <1>1. IInv => TypeOK
    <2> SUFFICES ASSUME IInv PROVE TypeOK
      OBVIOUS
    <2>1. Len(chain) \in Nat /\ Len(layers) \in 1 .. Len(chain) + 1 /\ buffer \in 0..Len(chain)
      BY RecordedPaths DEF IInv, LayersInv
    <2>2. pc \in {"collect", "describe", "create", "prepare", "container", "process", "done",
                  "threw"}
      BY DEF IInv, DescribedInv
    <2>3. Len(<<>>) = 0
      OBVIOUS
    <2>4. \/ Len(descriptors) = 0
          \/ Complete /\ Len(descriptors) = Len(chain) + 1
      BY <2>3, SomeDescribed DEF IInv, DescribedInv
    <2>5. ASSUME NEW seen \in {created, prepared} PROVE Len(seen) \in {0, Len(descriptors)}
      <3>1. CASE seen = <<>>
        BY <2>3, <3>1
      <3>2. CASE seen = AsRecorded /\ Complete /\ descriptors # <<>>
        <4>1. Len(seen) = Len(chain) + 1
          BY <3>2, SomeDescribed DEF IInv
        <4>2. Len(descriptors) = Len(chain) + 1
          BY <3>2, SomeDescribed DEF IInv, DescribedInv
        <4> QED
          BY <4>1, <4>2
      <3> QED
        BY <3>1, <3>2 DEF IInv, SeenInv
    <2>6. Len(container) \in 0..1
      <3>1. CASE container = <<>>
        BY <2>3, <3>1
      <3>2. CASE container # <<>>
        <4>1. PICK doc : container = <<doc>>
          BY <3>2, Zenon DEF IInv, SeenInv
        <4> QED
          BY <4>1
      <3> QED
        BY <3>1, <3>2
    <2> QED
      BY <2>1, <2>2, <2>4, <2>5, <2>6 DEF TypeOK, IInv, SeenInv
  <1> QED
    BY Invariant, <1>1, PTL

(* Whenever the driver follows the descriptors it finds the layers that    *)
(* were written down, in their order, under the GUIDs of their own names:  *)
(* however often the vector has moved its elements and wherever the        *)
(* characters of a path are kept.                                          *)
THEOREM DriverSees == Spec => []DriverSeesChain
  <1>1. IInv => DriverSeesChain
    BY DEF IInv, SeenInv, DriverSeesChain, Describes, AsRecorded
  <1> QED
    BY Invariant, <1>1, PTL

(* A layer of the document is the one the driver has been given: the path  *)
(* is put together again as it was, and the identifier is the same GUID.   *)
LEMMA DocumentLayer ==
  ASSUME InputInv, NEW path \in Paths
  PROVE  SameLayer(layer_json(clone(AsLayer(path))),
                   [LayerId |-> NameToGuid[strip_parent_dir(path)], Path |-> path])
  <1> DEFINE name == strip_parent_dir(path)
             in_document == layer_json(clone(AsLayer(path)))
  <1>1. in_document = [ID |-> to_id(name), Path |-> path]
    BY LayerOfPath DEF layer_json
  <1>2. NameToGuid[name] \in Text
    BY LayerChainAssumption
  <1> HIDE DEF name, in_document
  <1>3. /\ Len(to_id(name)) = Len(NameToGuid[name])
        /\ DOMAIN to_id(name) = 1..Len(NameToGuid[name])
        /\ \A i \in 1..Len(NameToGuid[name]) : to_id(name)[i] = tolower(NameToGuid[name][i])
    BY <1>2, Identifier
  <1> QED
    BY <1>1, <1>3 DEF SameLayer, name, in_document

(* The document stacks the container on the very layers the driver has     *)
(* prepared, although it is made from clones of them and asks for their    *)
(* identifiers again, and its own layer is beside the parent's.            *)
THEOREM DocumentStacks == Spec => []DocumentStacksSameLayers
  <1>1. IInv => DocumentStacksSameLayers
    <2> SUFFICES ASSUME IInv, container # <<>> PROVE DocumentStacksSameLayers
      BY DEF DocumentStacksSameLayers
    <2> DEFINE doc == container_json(conf, base_path, VolumePath,
                                     clone(container_layer(base_path, OwnName)),
                                     cloned(layers), HostName)
    <2>1. container[1] = doc /\ prepared = AsRecorded /\ Complete
      BY DEF IInv, SeenInv
    <2>2. DOMAIN layers = 1 .. Len(chain) + 1 /\ Len(chain) \in Nat
      BY <2>1, SomeDescribed, RecordedPaths DEF IInv
    <2>3. doc.Layers = [i \in DOMAIN layers |-> layer_json(clone(layers[i]))]
      BY DEF container_json, cloned
    <2>4. doc.LayerFolderPath = base_path \o OwnName
      BY DEF container_json, get_path, clone, container_layer
    <2> HIDE DEF doc
    <2>5. Len(doc.Layers) = Len(prepared)
      BY <2>1, <2>2, <2>3, SomeDescribed DEF IInv
    <2>6. ASSUME NEW i \in DOMAIN prepared PROVE SameLayer(doc.Layers[i], prepared[i])
      <3>1. i \in DOMAIN layers /\ i \in DOMAIN Recorded
        BY <2>1, <2>2, SomeDescribed, RecordedPaths DEF IInv
      <3>2. Recorded[i] \in Paths /\ layers[i] = AsLayer(Recorded[i])
        BY <2>1, <2>2, <3>1 DEF IInv, LayersInv, Complete
      <3>3. prepared[i] = [LayerId |-> NameToGuid[strip_parent_dir(Recorded[i])],
                           Path |-> Recorded[i]]
        BY <2>1, <3>1 DEF AsRecorded
      <3>4. doc.Layers[i] = layer_json(clone(AsLayer(Recorded[i])))
        BY <2>3, <3>1, <3>2
      <3> QED
        BY <3>2, <3>3, <3>4, DocumentLayer, Zenon DEF IInv
    <2> QED
      BY <2>1, <2>4, <2>5, <2>6, Zenon DEF DocumentStacksSameLayers
  <1> QED
    BY Invariant, <1>1, PTL

-------------------------------------------------------------------------------
(* The mask is printed in hexadecimal and read again.                      *)

DigitValue(digit) == (CHOOSE d \in DOMAIN Digits : Digits[d] = digit) - 1

HexDigits == {Digits[d] : d \in 1..16}

(* There are sixteen digits, and none of them is a blank.                  *)
LEMMA DigitsDiffer ==
  /\ DOMAIN Digits = 1..16
  /\ \A n \in 0..15 : /\ Digits[n + 1] \in HexDigits
                      /\ DigitValue(Digits[n + 1]) = n
  /\ Blank \notin HexDigits
  <1>1. DOMAIN Digits = 1..16
    BY DEF Digits
  <1>2. \A c, d \in 1..16 : Digits[c] = Digits[d] => c = d
    BY DEF Digits
  <1>3. ASSUME NEW n \in 0..15 PROVE Digits[n + 1] \in HexDigits /\ DigitValue(Digits[n + 1]) = n
    <2>1. n + 1 \in 1..16 /\ (n + 1) - 1 = n
      OBVIOUS
    <2>2. (CHOOSE d \in DOMAIN Digits : Digits[d] = Digits[n + 1]) = n + 1
      BY <1>1, <1>2, <2>1
    <2> QED
      BY <2>1, <2>2 DEF HexDigits, DigitValue
  <1>4. ASSUME NEW d \in 1..16 PROVE Digits[d] # Blank
    <2> DEFINE Printed == {"0", "1", "2", "3", "4", "5", "6", "7", "8", "9",
                           "a", "b", "c", "d", "e", "f"}
    <2>1. Digits[d] \in Printed
      BY DEF Digits
    <2>2. Blank \notin Printed
      BY DEF Blank
    <2> QED
      BY <2>1, <2>2
  <1> QED
    BY <1>1, <1>3, <1>4 DEF HexDigits

(* What has been read of a number after each of its digits.                *)
Values(digits) ==
  CHOOSE v : v = [i \in 0..Len(digits) |-> IF i = 0 THEN 0
                                           ELSE 16 * v[i - 1] + DigitValue(digits[i])]

LEMMA Reading ==
  ASSUME NEW digits, Len(digits) \in Nat
  PROVE  /\ Hexadecimal(digits) = Values(digits)[Len(digits)]
         /\ Values(digits)[0] = 0
         /\ \A i \in 1..Len(digits) :
              Values(digits)[i] = 16 * Values(digits)[i - 1] + DigitValue(digits[i])
  <1> DEFINE Step(v, i) == IF i = 0 THEN 0 ELSE 16 * v[i - 1] + DigitValue(digits[i])
             Good == {n \in Nat : \E v : v = [i \in 0..n |-> Step(v, i)]}
  <1>1. 0 \in Good
    <2> DEFINE nothing == [i \in 0..0 |-> 0]
    <2>1. nothing = [i \in 0..0 |-> Step(nothing, i)]
      OBVIOUS
    <2>2. \E v : v = [i \in 0..0 |-> Step(v, i)]
      BY <2>1, Zenon
    <2> QED
      BY <2>2
  <1>2. ASSUME NEW n \in Nat, n \in Good PROVE n + 1 \in Good
    <2>1. PICK v : v = [i \in 0..n |-> Step(v, i)]
      BY <1>2
    <2> DEFINE w == [i \in 0 .. n + 1 |-> IF i <= n THEN v[i] ELSE Step(v, i)]
    <2>2. ASSUME NEW i \in 0 .. n + 1 PROVE w[i] = Step(w, i)
      <3>1. i # 0 => i - 1 \in 0..n /\ w[i - 1] = v[i - 1]
        OBVIOUS
      <3>2. w[i] = Step(v, i)
        <4>1. \A k \in 0..n : v[k] = Step(v, k)
          BY <2>1
        <4>2. i \in 0..n \/ ~ (i <= n)
          OBVIOUS
        <4> HIDE DEF Step
        <4> QED
          BY <4>1, <4>2
      <3> HIDE DEF w
      <3> QED
        BY <3>1, <3>2
    <2>3. w = [i \in 0 .. n + 1 |-> Step(w, i)]
      <3>1. w = [i \in 0 .. n + 1 |-> w[i]]
        OBVIOUS
      <3> HIDE DEF w
      <3> QED
        BY <2>2, <3>1
    <2>4. \E u : u = [i \in 0 .. n + 1 |-> Step(u, i)]
      <3> HIDE DEF w
      <3> QED
        BY <2>3, Zenon
    <2>5. n + 1 \in Nat
      OBVIOUS
    <2> QED
      BY <2>4, <2>5, Zenon
  <1>3. Len(digits) \in Good
    <2> HIDE DEF Good
    <2> QED
      BY <1>1, <1>2, Induction
  <1>4. PICK v : v = [i \in 0..Len(digits) |-> Step(v, i)]
    BY <1>3
  <1>5. Values(digits) = [i \in 0..Len(digits) |-> Step(Values(digits), i)]
    BY <1>4 DEF Values
  <1>6. Hexadecimal(digits) = Values(digits)[Len(digits)]
    BY DEF Hexadecimal, Values, DigitValue
  <1>7. \A i \in 0..Len(digits) : Values(digits)[i] = Step(Values(digits), i)
    BY <1>5
  <1>8. Values(digits)[0] = 0
    BY <1>7
  <1>9. ASSUME NEW i \in 1..Len(digits)
        PROVE  Values(digits)[i] = 16 * Values(digits)[i - 1] + DigitValue(digits[i])
    <2>1. i \in 0..Len(digits) /\ i # 0
      OBVIOUS
    <2> QED
      BY <1>7, <2>1
  <1> QED
    BY <1>6, <1>8, <1>9

(* One more digit makes it sixteen times what it was and as much more as   *)
(* the digit says.                                                         *)
LEMMA ReadDigit ==
  ASSUME NEW digits \in Seq(HexDigits), NEW digit \in HexDigits
  PROVE  Hexadecimal(Append(digits, digit)) = 16 * Hexadecimal(digits) + DigitValue(digit)
  <1> DEFINE more == Append(digits, digit)
             Same == {n \in Nat : n <= Len(digits) => Values(more)[n] = Values(digits)[n]}
  <1>1. /\ Len(digits) \in Nat /\ Len(more) = Len(digits) + 1 /\ more[Len(digits) + 1] = digit
        /\ \A i \in 1..Len(digits) : more[i] = digits[i]
    BY LenProperties, AppendProperties
  <1> HIDE DEF more
  <1>2. 0 \in Same
    BY <1>1, Reading
  <1>3. ASSUME NEW n \in Nat, n \in Same PROVE n + 1 \in Same
    <2> SUFFICES ASSUME n + 1 <= Len(digits) PROVE Values(more)[n + 1] = Values(digits)[n + 1]
      OBVIOUS
    <2>1. n + 1 \in 1..Len(digits) /\ n + 1 \in 1..Len(more) /\ (n + 1) - 1 = n
      BY <1>1
    <2>2. more[n + 1] = digits[n + 1] /\ Values(more)[n] = Values(digits)[n]
      BY <1>1, <1>3, <2>1
    <2>3. /\ Values(more)[n + 1] = 16 * Values(more)[n] + DigitValue(more[n + 1])
          /\ Values(digits)[n + 1] = 16 * Values(digits)[n] + DigitValue(digits[n + 1])
      BY <1>1, <2>1, Reading
    <2> QED
      BY <2>2, <2>3
  <1>4. Len(digits) \in Same
    <2> HIDE DEF Same
    <2> QED
      BY <1>1, <1>2, <1>3, Induction
  <1>5. Len(more) \in 1..Len(more) /\ Len(more) \in Nat /\ Len(more) - 1 = Len(digits)
    BY <1>1
  <1>6. Hexadecimal(more) = 16 * Values(more)[Len(digits)] + DigitValue(digit)
    BY <1>1, <1>5, Reading
  <1> QED
    BY <1>1, <1>4, <1>6, Reading DEF more

(* A number printed in hexadecimal is read as itself.                      *)
LEMMA PrintedNumber ==
  ASSUME NEW number \in Nat
  PROVE  /\ Numeral(16, number) \in Seq(HexDigits)
         /\ Hexadecimal(Numeral(16, number)) = number
  <1> DEFINE Step(p, n) == IF n < 16 THEN <<Digits[n + 1]>>
                           ELSE Append(p[n \div 16], Digits[(n % 16) + 1])
             Good == {n \in Nat : \E p : p = [i \in 0..n |-> Step(p, i)]}
             printed == CHOOSE p : p = [n \in 0..number |-> Step(p, n)]
  <1>1. 0 \in Good
    <2> DEFINE zero == [n \in 0..0 |-> <<Digits[1]>>]
    <2>1. zero = [n \in 0..0 |-> Step(zero, n)]
      OBVIOUS
    <2>2. \E p : p = [n \in 0..0 |-> Step(p, n)]
      BY <2>1, Zenon
    <2> QED
      BY <2>2
  <1>2. ASSUME NEW n \in Nat, n \in Good PROVE n + 1 \in Good
    <2>1. PICK p : p = [i \in 0..n |-> Step(p, i)]
      BY <1>2
    <2> DEFINE q == [i \in 0 .. n + 1 |-> IF i <= n THEN p[i] ELSE Step(p, i)]
    <2>2. ASSUME NEW i \in 0 .. n + 1 PROVE q[i] = Step(q, i)
      <3>1. ~ (i < 16) => i \div 16 \in 0..n /\ q[i \div 16] = p[i \div 16]
        <4>1. ~ (i < 16) => i \div 16 \in 0..n
          OBVIOUS
        <4> QED
          BY <4>1
      <3>2. q[i] = Step(p, i)
        <4>1. \A k \in 0..n : p[k] = Step(p, k)
          BY <2>1
        <4>2. i \in 0..n \/ ~ (i <= n)
          OBVIOUS
        <4> HIDE DEF Step
        <4> QED
          BY <4>1, <4>2
      <3> HIDE DEF q
      <3> QED
        BY <3>1, <3>2
    <2>3. q = [i \in 0 .. n + 1 |-> Step(q, i)]
      <3>1. q = [i \in 0 .. n + 1 |-> q[i]]
        OBVIOUS
      <3> HIDE DEF q
      <3> QED
        BY <2>2, <3>1
    <2>4. \E p_ : p_ = [i \in 0 .. n + 1 |-> Step(p_, i)]
      <3> HIDE DEF q
      <3> QED
        BY <2>3, Zenon
    <2>5. n + 1 \in Nat
      OBVIOUS
    <2> QED
      BY <2>4, <2>5, Zenon
  <1>3. number \in Good
    <2> HIDE DEF Good
    <2> QED
      BY <1>1, <1>2, Induction
  <1>4. PICK p : p = [n \in 0..number |-> Step(p, n)]
    BY <1>3
  <1>5. printed = [n \in 0..number |-> Step(printed, n)]
    BY <1>4
  <1>6. Numeral(16, number) = printed[number]
    BY DEF Numeral
  <1> HIDE DEF printed
  <1>7. \A n \in 0..number : printed[n] = Step(printed, n)
    BY <1>5
  <1> DEFINE Right(n) == printed[n] \in Seq(HexDigits) /\ Hexadecimal(printed[n]) = n
             Known == {m \in Nat : \A n \in 0..number : n <= m => Right(n)}
  <1>8. ASSUME NEW n \in 0..number, n < 16 PROVE Right(n)
    <2>1. printed[n] = <<Digits[n + 1]>>
      BY <1>7, <1>8
    <2>2. Digits[n + 1] \in HexDigits /\ DigitValue(Digits[n + 1]) = n
      BY <1>8, DigitsDiffer
    <2> DEFINE one == <<Digits[n + 1]>>
    <2>3. one \in Seq(HexDigits) /\ Len(one) = 1 /\ one[1] = Digits[n + 1]
      BY <2>2
    <2> HIDE DEF one
    <2>4. Hexadecimal(one) = Values(one)[1] /\ Values(one)[0] = 0
          /\ Values(one)[1] = 16 * Values(one)[0] + DigitValue(one[1])
      <3>1. Len(one) \in Nat /\ 1 \in 1..Len(one) /\ 1 - 1 = 0
        BY <2>3
      <3> QED
        BY <2>3, <3>1, Reading
    <2> QED
      BY <2>1, <2>2, <2>3, <2>4 DEF one
  <1>9. ASSUME NEW n \in 0..number, ~ (n < 16), Right(n \div 16) PROVE Right(n)
    <2>1. printed[n] = Append(printed[n \div 16], Digits[(n % 16) + 1])
      BY <1>7, <1>9
    <2>2. n \in Nat /\ n % 16 \in 0..15 /\ n = 16 * (n \div 16) + (n % 16)
      <3>1. n \in Nat
        OBVIOUS
      <3>2. n % 16 \in 0..15
        BY <3>1
      <3>3. n % 16 = n - 16 * (n \div 16)
        BY <3>1
      <3> QED
        BY <3>1, <3>2, <3>3
    <2>3. Digits[(n % 16) + 1] \in HexDigits /\ DigitValue(Digits[(n % 16) + 1]) = n % 16
      BY <2>2, DigitsDiffer
    <2>4. Hexadecimal(printed[n]) = 16 * (n \div 16) + (n % 16)
      <3> DEFINE digit == Digits[(n % 16) + 1]
                 before == printed[n \div 16]
      <3>1. /\ before \in Seq(HexDigits) /\ Hexadecimal(before) = n \div 16
            /\ digit \in HexDigits /\ DigitValue(digit) = n % 16
            /\ printed[n] = Append(before, digit)
        BY <1>9, <2>1, <2>3
      <3> HIDE DEF digit, before
      <3>2. Hexadecimal(Append(before, digit)) = 16 * Hexadecimal(before) + DigitValue(digit)
        BY <3>1, ReadDigit
      <3> QED
        BY <3>1, <3>2
    <2>5. printed[n] \in Seq(HexDigits)
      BY <1>9, <2>1, <2>3, AppendProperties
    <2> QED
      BY <2>2, <2>4, <2>5
  <1> HIDE DEF Right
  <1>10. 0 \in Known
    BY <1>8
  <1>11. ASSUME NEW m \in Nat, m \in Known PROVE m + 1 \in Known
    <2>1. ASSUME NEW n \in 0..number, n <= m + 1 PROVE Right(n)
      <3>1. CASE n < 16
        BY <1>8, <3>1
      <3>2. CASE ~ (n < 16)
        <4>1. n \div 16 \in 0..number /\ n \div 16 <= m
          BY <2>1, <3>2
        <4>2. Right(n \div 16)
          BY <1>11, <4>1
        <4> QED
          BY <1>9, <3>2, <4>2
      <3> QED
        BY <3>1, <3>2
    <2>2. m + 1 \in Nat
      OBVIOUS
    <2> QED
      BY <2>1, <2>2
  <1>12. number \in Known
    <2> HIDE DEF Known
    <2> QED
      BY <1>10, <1>11, Induction
  <1>13. Right(number)
    BY <1>12
  <1> QED
    BY <1>6, <1>13 DEF Right

-------------------------------------------------------------------------------
(* How start reads the command line.                                       *)

WithoutBlank(text) == \A i \in 1..Len(text) : text[i] # Blank

(* A word is what stands between its place and the next blank.             *)
LEMMA WordFound ==
  ASSUME NEW S, NEW line \in Seq(S), NEW word \in Seq(S), NEW first \in Nat \ {0},
         first + Len(word) <= Len(line), line[first + Len(word)] = Blank,
         Stands(line, first - 1, word), WithoutBlank(word)
  PROVE  WordEnd(line, first) = first + Len(word) /\ WordAt(line, first) = word
  <1> DEFINE end == first + Len(word)
             I == {i \in first .. Len(line) + 1 : i = Len(line) + 1 \/ line[i] = Blank}
  <1>1. Len(line) \in Nat /\ Len(word) \in Nat /\ end \in Nat
    BY LenProperties
  <1>2. ASSUME NEW i \in I PROVE end <= i
    <2> SUFFICES ASSUME i < end PROVE FALSE
      BY <1>1
    <2>1. i - first + 1 \in 1..Len(word) /\ (first - 1) + (i - first + 1) = i /\ i # Len(line) + 1
      BY <1>1
    <2>2. line[i] # Blank
      BY <2>1 DEF Stands, WithoutBlank
    <2> QED
      BY <2>1, <2>2
  <1>3. end \in I /\ I \in SUBSET Int
    BY <1>1
  <1>4. Min(I) = end
    <2> HIDE DEF I, end
    <2> QED
      BY <1>2, <1>3, Extremes
  <1>5. WordEnd(line, first) = end
    BY <1>4 DEF WordEnd
  <1> HIDE DEF I, end
  <1>6. WordAt(line, first) = SubSeq(line, first, end - 1)
    BY <1>5 DEF WordAt
  <1>7. \A i \in first .. end - 1 : line[i] \in S
    BY <1>1, ElementOfSeq DEF end
  <1>8. (end - 1) - first + 1 = Len(word) /\ end - 1 \in Int
    BY <1>1 DEF end
  <1>9. /\ SubSeq(line, first, end - 1) \in Seq(S)
        /\ Len(SubSeq(line, first, end - 1)) = Len(word)
        /\ \A i \in 1..Len(word) : SubSeq(line, first, end - 1)[i] = line[first + i - 1]
    <2>1. first <= end - 1 \/ Len(word) = 0
      BY <1>1 DEF end
    <2> QED
      BY <1>1, <1>7, <1>8, <2>1, SubSeqProperties DEF end
  <1>10. \A i \in 1..Len(word) : SubSeq(line, first, end - 1)[i] = word[i]
    <2>1. \A i \in 1..Len(word) : first + i - 1 = (first - 1) + i
      BY <1>1
    <2> QED
      BY <1>9, <2>1 DEF Stands
  <1>11. SubSeq(line, first, end - 1) = word
    BY <1>9, <1>10, SeqEqual
  <1> QED
    BY <1>5, <1>6, <1>11 DEF end

(* What a command line is made of.                                         *)
Opening == <<"cmd.exe", Blank, "/c", Blank, "start", Blank, "/b", Blank, "/wait", Blank,
             "/affinity", Blank, "0x">>

Pieces == STRING \cup HexDigits
          \cup {"cmd.exe", Blank, "/c", "start", "/b", "/wait", "/affinity", "0x", ">>", "2>&1",
                Separator}

LEMMA OpeningPieces ==
  /\ Opening \in Seq(Pieces) /\ Len(Opening) = 13
  /\ Opening[13] = "0x" /\ Opening[11] = "/affinity"
  /\ \A i \in 1..10 : Opening[i] # "/affinity"
  <1>1. Opening \in Seq(Pieces)
    BY DEF Opening, Pieces
  <1>2. Len(Opening) = 13 /\ Opening[13] = "0x" /\ Opening[11] = "/affinity"
    BY DEF Opening
  <1>3. ASSUME NEW i \in 1..10 PROVE Opening[i] # "/affinity"
    <2>1. Opening[i] \in {"cmd.exe", Blank, "/c", "start", "/b", "/wait"}
      BY DEF Opening
    <2>2. "/affinity" \notin {"cmd.exe", Blank, "/c", "start", "/b", "/wait"}
      BY DEF Blank
    <2> QED
      BY <2>1, <2>2
  <1> QED
    BY <1>1, <1>2, <1>3

(* Every argument brings a blank before it.                                *)
LEMMA ArgumentsApart ==
  ASSUME NEW arguments \in Seq(Text)
  PROVE  LET following == FlattenSeq([i \in DOMAIN arguments |-> <<Blank>> \o arguments[i]])
         IN  /\ following \in Seq(Pieces)
             /\ Len(following) > 0 => following[1] = Blank
  <1> DEFINE lists == [i \in DOMAIN arguments |-> <<Blank>> \o arguments[i]]
             Begun(text) == text \in Seq(Pieces) /\ Len(text) > 0 /\ text[1] = Blank
             Good == {n \in Nat : \A i \in 1..Len(lists) : i <= n => Begun(Gathered(lists)[i])}
  <1>1. Len(arguments) \in Nat /\ DOMAIN arguments = 1..Len(arguments)
    BY LenProperties
  <1>2. Len(lists) = Len(arguments)
    BY <1>1
  <1>3. ASSUME NEW i \in 1..Len(lists) PROVE Begun(lists[i])
    <2>1. arguments[i] \in Seq(Pieces)
      <3>1. arguments[i] \in Text
        BY <1>1, <1>2, ElementOfSeq
      <3> QED
        BY <3>1, SeqMonotonic DEF Text, Pieces
    <2> DEFINE one == <<Blank>>
               argument == arguments[i]
    <2>2. one \in Seq(Pieces) /\ Len(one) = 1 /\ one[1] = Blank
      BY DEF Pieces
    <2>3. lists[i] = one \o argument
      BY <1>1, <1>2
    <2> HIDE DEF one, lists, argument
    <2>4. argument \in Seq(Pieces)
      BY <2>1 DEF argument
    <2>5. /\ one \o argument \in Seq(Pieces)
          /\ Len(one \o argument) = Len(one) + Len(argument)
          /\ (one \o argument)[1] = one[1]
      <3>1. 1 \in 1..Len(one)
        BY <2>2
      <3>2. /\ one \o argument \in Seq(Pieces)
            /\ Len(one \o argument) = Len(one) + Len(argument)
            /\ \A k \in 1..Len(one) : (one \o argument)[k] = one[k]
        BY <2>2, <2>4, Joined
      <3> QED
        BY <3>1, <3>2, Zenon
    <2>6. Len(argument) \in Nat
      BY <2>4, LenProperties
    <2> QED
      BY <2>2, <2>3, <2>5, <2>6
  <1>4. Len(lists) \in Nat
    BY <1>1, <1>2
  <1>5. Len(lists) = 0 => FlattenSeq(lists) \in Seq(Pieces) /\ Len(FlattenSeq(lists)) = 0
    <2> SUFFICES ASSUME Len(lists) = 0 PROVE lists \in Seq(Pieces)
      BY DEF FlattenSeq
    <2>1. lists = <<>>
      BY <1>1, <1>2
    <2> QED
      BY <2>1, EmptySeq
  <1> HIDE DEF lists, Begun
  <1>6. 0 \in Good
    OBVIOUS
  <1>7. ASSUME NEW n \in Nat, n \in Good PROVE n + 1 \in Good
    <2>1. ASSUME NEW i \in 1..Len(lists), i <= n + 1 PROVE Begun(Gathered(lists)[i])
      <3>1. CASE i <= n
        BY <1>7, <3>1
      <3>2. CASE i = 1
        <4>1. Len(lists) > 0
          BY <1>4, <2>1
        <4>2. Gathered(lists)[1] = lists[1]
          BY <1>4, <4>1, Gathering, Zenon
        <4> QED
          BY <1>3, <3>2, <4>2
      <3>3. CASE i = n + 1 /\ i # 1
        <4> DEFINE before == Gathered(lists)[n]
                   next == lists[i]
        <4>1. n \in 1..Len(lists) /\ i > 1 /\ i - 1 = n
          BY <1>4, <3>3
        <4>2. /\ Begun(before) /\ Begun(next)
              /\ Gathered(lists)[i] = before \o next
          <5>1. Begun(before) /\ Begun(next)
            BY <1>3, <1>7, <4>1
          <5>2. Gathered(lists)[i] = Gathered(lists)[i - 1] \o lists[i]
            BY <1>4, <4>1, Gathering, Zenon
          <5> QED
            BY <4>1, <5>1, <5>2
        <4> HIDE DEF before, next
        <4>3. Len(next) \in Nat /\ 1 \in 1..Len(before) /\ Len(before) \in Nat
          BY <4>2, LenProperties DEF Begun
        <4>4. /\ before \o next \in Seq(Pieces)
              /\ Len(before \o next) = Len(before) + Len(next)
              /\ (before \o next)[1] = before[1]
          BY <4>2, <4>3, Joined DEF Begun
        <4> QED
          BY <4>2, <4>3, <4>4 DEF Begun
      <3> QED
        BY <2>1, <3>1, <3>2, <3>3
    <2>2. n + 1 \in Nat
      OBVIOUS
    <2> QED
      BY <2>1, <2>2
  <1>8. Len(lists) \in Good
    <2> HIDE DEF Good
    <2> QED
      BY <1>4, <1>6, <1>7, Induction
  <1>9. ASSUME Len(lists) > 0 PROVE Begun(FlattenSeq(lists))
    <2>1. FlattenSeq(lists) = Gathered(lists)[Len(lists)]
      BY <1>4, <1>9, Gathering, Zenon
    <2>2. Len(lists) \in 1..Len(lists) /\ Len(lists) <= Len(lists)
      BY <1>4, <1>9
    <2> QED
      BY <1>8, <2>1, <2>2
  <1>10. /\ FlattenSeq(lists) \in Seq(Pieces)
         /\ Len(FlattenSeq(lists)) > 0 => FlattenSeq(lists)[1] = Blank
    BY <1>4, <1>5, <1>9 DEF Begun
  <1> QED
    BY <1>10 DEF lists

(* What else a command line is made of.                                    *)
Gap == <<Blank>>

Redirection == <<Blank, ">>", Blank>>

Closing == <<Blank, "2>&1">>

LEMMA SmallPieces ==
  /\ Gap \in Seq(Pieces) /\ Len(Gap) = 1 /\ Gap[1] = Blank
  /\ Redirection \in Seq(Pieces) /\ Len(Redirection) = 3
  /\ Redirection[1] = Blank /\ Redirection[2] = ">>" /\ Redirection[3] = Blank
  /\ Closing \in Seq(Pieces) /\ Len(Closing) = 2
  /\ Closing[1] = Blank /\ Closing[2] = "2>&1"
  /\ Blank # ">>" /\ "2>&1" # ">>"
  <1>1. Gap \in Seq(Pieces) /\ Redirection \in Seq(Pieces) /\ Closing \in Seq(Pieces)
    BY DEF Gap, Redirection, Closing, Pieces
  <1>2. Len(Gap) = 1 /\ Len(Redirection) = 3 /\ Len(Closing) = 2
    BY DEF Gap, Redirection, Closing
  <1>3. Gap[1] = Blank /\ Closing[1] = Blank /\ Closing[2] = "2>&1"
    BY DEF Gap, Closing
  <1>4. Redirection[1] = Blank /\ Redirection[2] = ">>" /\ Redirection[3] = Blank
    BY DEF Redirection
  <1>5. Blank # ">>" /\ "2>&1" # ">>"
    BY DEF Blank
  <1> QED
    BY <1>1, <1>2, <1>3, <1>4, <1>5

(* A file name that is a word of the command line by itself.               *)
OneWord(text) == WithoutBlank(text) /\ \A i \in 1..Len(text) : text[i] # ">>"

AsLine(line, mask, program, following, output) ==
  line = Opening \o mask \o Gap \o program \o following \o Redirection \o output \o Closing

(* The pieces of a command line by which it is read.                       *)
LEMMA Marks ==
  ASSUME NEW mask \in Seq(HexDigits), NEW program \in Seq(Pieces),
         NEW following \in Seq(Pieces), Len(following) > 0 => following[1] = Blank,
         NEW output \in Seq(Pieces),
         NEW line, AsLine(line, mask, program, following, output)
  PROVE  LET p == 14 + Len(mask) + Len(program)
             r == p + Len(following) + 3
         IN  /\ Len(mask) \in Nat /\ Len(program) \in Nat /\ Len(following) \in Nat
             /\ Len(output) \in Nat
             /\ line \in Seq(Pieces) /\ Len(line) = r + Len(output) + 2
             /\ Stands(line, 0, Opening)
             /\ Stands(line, 13, mask)
             /\ line[14 + Len(mask)] = Blank
             /\ Stands(line, 14 + Len(mask), program)
             /\ line[p + 1] = Blank
             /\ line[r - 1] = ">>" /\ line[r] = Blank
             /\ Stands(line, r, output)
             /\ line[r + Len(output) + 1] = Blank
             /\ line[r + Len(output) + 2] = "2>&1"
  <1> DEFINE m == 13 + Len(mask)
             p == 14 + Len(mask) + Len(program)
             r == p + Len(following) + 3
             o == r + Len(output)
  <1>1. mask \in Seq(Pieces)
    BY SeqMonotonic DEF Pieces
  <1>2. /\ Len(mask) \in Nat /\ Len(program) \in Nat /\ Len(following) \in Nat
        /\ Len(output) \in Nat
    BY <1>1, LenProperties
  <1>3. /\ line \in Seq(Pieces) /\ Len(line) = o + 2
        /\ Stands(line, 0, Opening)
        /\ Stands(line, 13, mask)
        /\ Stands(line, m, Gap)
        /\ Stands(line, m + 1, program)
        /\ Stands(line, p, following)
        /\ Stands(line, p + Len(following), Redirection)
        /\ Stands(line, r, output)
        /\ Stands(line, o, Closing)
    <2> DEFINE m_ == Len(Opening) + Len(mask)
               p_ == m_ + Len(Gap) + Len(program)
               r_ == p_ + Len(following) + Len(Redirection)
               o_ == r_ + Len(output)
    <2>1. /\ line \in Seq(Pieces) /\ Len(line) = o_ + Len(Closing)
          /\ Stands(line, 0, Opening)
          /\ Stands(line, Len(Opening), mask)
          /\ Stands(line, m_, Gap)
          /\ Stands(line, m_ + Len(Gap), program)
          /\ Stands(line, p_, following)
          /\ Stands(line, p_ + Len(following), Redirection)
          /\ Stands(line, r_, output)
          /\ Stands(line, o_, Closing)
      <3>1. line = Opening \o mask \o Gap \o program \o following \o Redirection \o output
                   \o Closing
        BY DEF AsLine
      <3>2. /\ Opening \in Seq(Pieces) /\ Gap \in Seq(Pieces)
            /\ Redirection \in Seq(Pieces) /\ Closing \in Seq(Pieces)
        BY OpeningPieces, SmallPieces
      <3> QED
        <4>1. LaidOut(line, Pieces, Opening, mask, Gap, program, following, Redirection, output,
                      Closing)
          BY <1>1, <3>1, <3>2, Layout, Zenon
        <4> QED
          BY <4>1 DEF LaidOut
    <2>2. m_ = m /\ m_ + Len(Gap) = m + 1 /\ p_ = p /\ r_ = r /\ o_ = o /\ o_ + Len(Closing) = o + 2
      BY <1>2, OpeningPieces, SmallPieces
    <2> HIDE DEF m_, p_, r_, o_, m, p, r, o
    <2> QED
      BY <2>1, <2>2, OpeningPieces
  <1>4. /\ line[m + 1] = Blank /\ line[p + Len(following) + 1] = Blank
        /\ line[p + Len(following) + 2] = ">>" /\ line[p + Len(following) + 3] = Blank
        /\ line[o + 1] = Blank /\ line[o + 2] = "2>&1"
    <2> HIDE DEF m, p, r, o
    <2>1. 1 \in 1..Len(Gap) /\ 1 \in 1..Len(Redirection) /\ 2 \in 1..Len(Redirection)
          /\ 3 \in 1..Len(Redirection) /\ 1 \in 1..Len(Closing) /\ 2 \in 1..Len(Closing)
      BY SmallPieces
    <2> QED
      BY <1>3, <2>1, SmallPieces DEF Stands
  <1>5. line[p + 1] = Blank
    <2>1. CASE Len(following) = 0
      BY <1>2, <1>4, <2>1
    <2>2. CASE Len(following) > 0
      <3>1. 1 \in 1..Len(following)
        BY <1>2, <2>2
      <3> QED
        BY <1>3, <2>2, <3>1 DEF Stands
    <2> QED
      BY <1>2, <2>1, <2>2
  <1>6. /\ m + 1 = 14 + Len(mask) /\ p + Len(following) + 2 = r - 1
        /\ p + Len(following) + 3 = r
    BY <1>2
  <1> QED
    BY <1>2, <1>3, <1>4, <1>5, <1>6

(* The option is found, and after it the mask and the program.             *)
LEMMA MaskAndProgram ==
  ASSUME NEW mask \in Seq(HexDigits), NEW program \in Seq(Pieces),
         NEW following \in Seq(Pieces), Len(following) > 0 => following[1] = Blank,
         NEW output \in Seq(Pieces),
         NEW line, AsLine(line, mask, program, following, output)
  PROVE  /\ Started(line).mask = mask
         /\ WithoutBlank(program) => Started(line).executable = program
  <1> DEFINE I == {i \in 1..Len(line) : IsAffinity(line[i])}
             word == <<"0x">> \o mask
  <1>1. /\ Len(mask) \in Nat /\ Len(program) \in Nat
        /\ line \in Seq(Pieces) /\ Len(line) \in Nat
        /\ 14 + Len(mask) + Len(program) + 1 <= Len(line)
        /\ Stands(line, 0, Opening)
        /\ Stands(line, 13, mask)
        /\ line[14 + Len(mask)] = Blank
        /\ Stands(line, 14 + Len(mask), program)
        /\ line[14 + Len(mask) + Len(program) + 1] = Blank
    <2>1. /\ Len(mask) \in Nat /\ Len(program) \in Nat /\ Len(following) \in Nat
          /\ Len(output) \in Nat
          /\ Len(line) = 14 + Len(mask) + Len(program) + Len(following) + 3 + Len(output) + 2
          /\ line \in Seq(Pieces)
      BY Marks
    <2>2. Len(line) \in Nat /\ 14 + Len(mask) + Len(program) + 1 <= Len(line)
      BY <2>1
    <2> QED
      BY <2>1, <2>2, Marks
  <1>2. \A i \in 1..13 : line[i] = Opening[i]
    <2>1. \A i \in 1..13 : 0 + i = i
      OBVIOUS
    <2> QED
      BY <1>1, <2>1, OpeningPieces DEF Stands
  <1>3. SelectInSeq(line, IsAffinity) = 11
    <2>1. 11 \in I
      BY <1>1, <1>2, OpeningPieces DEF IsAffinity
    <2>2. ASSUME NEW i \in I PROVE 11 <= i
      <3>1. ASSUME i \in 1..10 PROVE line[i] = Opening[i] /\ Opening[i] # "/affinity"
        <4>1. i \in 1..13
          BY <3>1
        <4> QED
          BY <1>2, <3>1, <4>1, OpeningPieces
      <3>2. line[i] = "/affinity" /\ i \in Nat /\ i # 0
        BY <1>1 DEF IsAffinity
      <3> QED
        BY <3>1, <3>2
    <2>3. I \in SUBSET Int
      BY <1>1
    <2>4. SelectInSeq(line, IsAffinity) = IF I # {} THEN Min(I) ELSE 0
      BY DEF SelectInSeq
    <2> HIDE DEF I
    <2>5. Min(I) = 11
      BY <2>1, <2>2, <2>3, Extremes
    <2> QED
      BY <2>1, <2>4, <2>5
  <1>4. /\ word \in Seq(Pieces) /\ Len(word) = 1 + Len(mask)
        /\ word[1] = "0x" /\ \A i \in 1..Len(mask) : word[1 + i] = mask[i]
        /\ Tail(word) = mask
    <2> DEFINE zero == <<"0x">>
    <2>1. zero \in Seq(Pieces) /\ Len(zero) = 1 /\ zero[1] = "0x"
      BY DEF Pieces
    <2>2. mask \in Seq(Pieces)
      BY SeqMonotonic DEF Pieces
    <2> HIDE DEF zero
    <2>3. zero \o mask \in Seq(Pieces) /\ Extends(zero \o mask, zero, mask)
      BY <2>1, <2>2, Extending
    <2>4. word = zero \o mask
      BY DEF zero
    <2> HIDE DEF word
    <2>5. /\ word \in Seq(Pieces) /\ Len(word) = 1 + Len(mask)
          /\ word[1] = "0x" /\ \A i \in 1..Len(mask) : word[1 + i] = mask[i]
      <3>1. 1 \in 1..Len(zero) /\ 0 + 1 = 1
        BY <2>1
      <3> QED
        BY <2>1, <2>3, <2>4, <3>1 DEF Extends, Stands
    <2>6. Tail(word) = mask
      <3>1. word # <<>>
        BY <1>1, <2>5, EmptySeq
      <3>2. /\ Tail(word) \in Seq(Pieces) /\ Len(Tail(word)) = Len(word) - 1
            /\ \A i \in 1..Len(Tail(word)) : Tail(word)[i] = word[i + 1]
        BY <2>5, <3>1, HeadTailProperties
      <3>3. Len(Tail(word)) = Len(mask)
        BY <1>1, <2>5, <3>2
      <3>4. ASSUME NEW i \in 1..Len(mask) PROVE Tail(word)[i] = mask[i]
        <4>1. i + 1 = 1 + i
          BY <1>1
        <4> QED
          BY <2>5, <3>2, <3>3, <4>1
      <3> QED
        BY <2>2, <3>2, <3>3, <3>4, SeqEqual
    <2> QED
      BY <2>5, <2>6
  <1> HIDE DEF word, I
  <1>5. WordEnd(line, 13) = 14 + Len(mask) /\ WordAt(line, 13) = word
    <2>1. ASSUME NEW i \in 1..Len(word)
          PROVE  word[i] # Blank /\ line[(13 - 1) + i] = word[i]
      <3>1. CASE i = 1
        <4>1. "0x" # Blank
          BY DEF Blank
        <4>2. line[13] = "0x"
          BY <1>2, OpeningPieces
        <4> QED
          BY <1>4, <3>1, <4>1, <4>2
      <3>2. CASE i # 1
        <4>1. i - 1 \in 1..Len(mask) /\ 1 + (i - 1) = i /\ 13 + (i - 1) = (13 - 1) + i
          BY <1>1, <1>4, <3>2
        <4>2. line[13 + (i - 1)] = mask[i - 1] /\ word[1 + (i - 1)] = mask[i - 1]
          BY <1>1, <1>4, <4>1 DEF Stands
        <4>3. mask[i - 1] # Blank
          <5>1. mask[i - 1] \in HexDigits
            BY <4>1, ElementOfSeq
          <5> QED
            BY <5>1, DigitsDiffer
        <4> QED
          BY <4>1, <4>2, <4>3
      <3> QED
        BY <3>1, <3>2
    <2>2. 13 + Len(word) = 14 + Len(mask) /\ 13 + Len(word) <= Len(line) /\ 13 \in Nat \ {0}
      BY <1>1, <1>4
    <2>3. Stands(line, 13 - 1, word) /\ WithoutBlank(word)
      BY <2>1 DEF Stands, WithoutBlank
    <2>4. line[13 + Len(word)] = Blank
      BY <1>1, <2>2
    <2>5. WordEnd(line, 13) = 13 + Len(word) /\ WordAt(line, 13) = word
      BY <1>1, <1>4, <2>2, <2>3, <2>4, WordFound
    <2> QED
      BY <2>2, <2>5
  <1>6. 11 + 2 = 13 /\ (14 + Len(mask)) + 1 = 15 + Len(mask)
    BY <1>1
  <1>7. Started(line).mask = mask
    BY <1>3, <1>4, <1>5, <1>6 DEF Started
  <1>8. Started(line).executable = WordAt(line, 15 + Len(mask))
    BY <1>3, <1>5, <1>6 DEF Started
  <1>9. ASSUME WithoutBlank(program) PROVE WordAt(line, 15 + Len(mask)) = program
    <2> DEFINE first == 15 + Len(mask)
    <2>1. first \in Nat \ {0} /\ first - 1 = 14 + Len(mask)
          /\ first + Len(program) = 14 + Len(mask) + Len(program) + 1
      BY <1>1
    <2>2. /\ Stands(line, first - 1, program) /\ WithoutBlank(program)
          /\ first + Len(program) <= Len(line) /\ line[first + Len(program)] = Blank
      BY <1>1, <1>9, <2>1
    <2> HIDE DEF first
    <2>3. WordAt(line, first) = program
      BY <1>1, <2>1, <2>2, WordFound
    <2> QED
      BY <2>3 DEF first
  <1> QED
    BY <1>7, <1>8, <1>9

(* The output goes to the word after the last redirection.                 *)
LEMMA OutputNamed ==
  ASSUME NEW mask \in Seq(HexDigits), NEW program \in Seq(Pieces),
         NEW following \in Seq(Pieces), Len(following) > 0 => following[1] = Blank,
         NEW output \in Seq(Pieces), OneWord(output),
         NEW line, AsLine(line, mask, program, following, output)
  PROVE  Started(line).output = output
  <1> DEFINE r == 14 + Len(mask) + Len(program) + Len(following) + 3
             I == {i \in 1..Len(line) : IsRedirection(line[i])}
  <1>1. /\ r \in Nat /\ r > 1 /\ Len(output) \in Nat
        /\ line \in Seq(Pieces) /\ Len(line) = r + Len(output) + 2
        /\ line[r - 1] = ">>" /\ line[r] = Blank
        /\ Stands(line, r, output)
        /\ line[r + Len(output) + 1] = Blank
        /\ line[r + Len(output) + 2] = "2>&1"
    <2>1. /\ Len(mask) \in Nat /\ Len(program) \in Nat /\ Len(following) \in Nat
          /\ Len(output) \in Nat
          /\ line \in Seq(Pieces) /\ Len(line) = r + Len(output) + 2
          /\ line[r - 1] = ">>" /\ line[r] = Blank
          /\ Stands(line, r, output)
          /\ line[r + Len(output) + 1] = Blank
          /\ line[r + Len(output) + 2] = "2>&1"
      BY Marks
    <2>2. r \in Nat /\ r > 1
      BY <2>1
    <2> QED
      BY <2>1, <2>2
  <1> HIDE DEF r
  <1>2. r - 1 \in I /\ I \in SUBSET Int
    BY <1>1 DEF IsRedirection
  <1>3. ASSUME NEW i \in I PROVE i <= r - 1
    <2> SUFFICES ASSUME i > r - 1 PROVE FALSE
      BY <1>1
    <2>1. line[i] = ">>" /\ i \in Nat
      BY <1>1 DEF IsRedirection
    <2>2. CASE i \in r + 1 .. r + Len(output)
      <3>1. i - r \in 1..Len(output) /\ r + (i - r) = i
        BY <1>1, <2>2
      <3>2. line[r + (i - r)] = output[i - r] /\ output[i - r] # ">>"
        BY <1>1, <3>1 DEF Stands, OneWord
      <3> QED
        BY <2>1, <3>1, <3>2
    <2>3. CASE i = r \/ i = r + Len(output) + 1 \/ i = r + Len(output) + 2
      BY <1>1, <2>1, <2>3, SmallPieces
    <2>4. \/ i \in r + 1 .. r + Len(output)
          \/ i = r \/ i = r + Len(output) + 1 \/ i = r + Len(output) + 2
      <3> DEFINE l == Len(output)
      <3>1. i \in Int /\ r \in Int /\ l \in Int /\ i <= r + l + 2 /\ r <= i
        BY <1>1
      <3> HIDE DEF l, I
      <3>2. i = r \/ (r + 1 <= i /\ i <= r + l) \/ i = r + l + 1 \/ i = r + l + 2
        BY <3>1
      <3> QED
        BY <3>1, <3>2 DEF l
    <2> QED
      BY <2>2, <2>3, <2>4
  <1>4. SelectLastInSeq(line, IsRedirection) = r - 1
    <2>1. SelectLastInSeq(line, IsRedirection) = IF I # {} THEN Max(I) ELSE 0
      BY DEF SelectLastInSeq
    <2> HIDE DEF I
    <2>2. Max(I) = r - 1
      BY <1>2, <1>3, Extremes
    <2> QED
      BY <1>2, <2>1, <2>2
  <1>5. Started(line).output = WordAt(line, r + 1)
    <2>1. (r - 1) + 2 = r + 1
      BY <1>1
    <2> QED
      BY <1>4, <2>1 DEF Started
  <1>6. WordAt(line, r + 1) = output
    <2> DEFINE first == r + 1
    <2>1. /\ first \in Nat \ {0} /\ first - 1 = r /\ first + Len(output) <= Len(line)
          /\ first + Len(output) = r + Len(output) + 1
      BY <1>1
    <2>2. /\ Stands(line, first - 1, output) /\ WithoutBlank(output)
          /\ line[first + Len(output)] = Blank
      BY <1>1, <2>1 DEF OneWord
    <2> HIDE DEF first
    <2>3. WordAt(line, first) = output
      BY <1>1, <2>1, <2>2, WordFound
    <2> QED
      BY <2>3 DEF first
  <1> QED
    BY <1>5, <1>6

-------------------------------------------------------------------------------
(* The one mounted directory.                                              *)
LEMMA Mounted ==
  ASSUME NEW S, NEW mount, mount.ContainerPath \in Seq(S), NEW rest \in Seq(S)
  PROVE  OnHost(<<mount>>, mount.ContainerPath \o rest) = {mount.HostPath \o rest}
  <1> DEFINE inside == mount.ContainerPath
             path == inside \o rest
  <1>1. /\ SubSeq(path, 1, Len(inside)) = inside
        /\ SubSeq(path, Len(inside) + 1, Len(path)) = rest
    BY Cut
  <1>2. Len(inside) <= Len(path)
    <2>1. Len(path) = Len(inside) + Len(rest) /\ Len(inside) \in Nat /\ Len(rest) \in Nat
      BY Joined, LenProperties
    <2> QED
      BY <2>1
  <1>3. SubSeq(inside, 1, Len(inside)) = inside
    BY SubSeqFull
  <1>4. IsPrefix(inside, path)
    BY <1>1, <1>2, <1>3 DEF IsPrefix
  <1>5. ToSet(<<mount>>) = {mount}
    BY DEF ToSet
  <1> HIDE DEF path
  <1>6. {m \in ToSet(<<mount>>) : IsPrefix(m.ContainerPath, path)} = {mount}
    BY <1>4, <1>5
  <1>7. OnHost(<<mount>>, path) = {mount.HostPath \o rest}
    BY <1>1, <1>6 DEF OnHost
  <1> QED
    BY <1>7 DEF path

LeadsTo(mounts, path, place) == OnHost(mounts, path) = {place}

LEMMA MountedFile ==
  ASSUME NEW S, NEW between \in Seq(S), NEW name \in Seq(S)
  PROVE  \A inside, host \in Seq(S) : \A mount :
           mount.ContainerPath = inside /\ mount.HostPath = host
             => LeadsTo(<<mount>>, (inside \o between) \o name, (host \o between) \o name)
  <1>1. between \o name \in Seq(S)
    BY Joined
  <1>2. \A directory \in Seq(S) : (directory \o between) \o name = directory \o (between \o name)
    BY ConcatAssociative
  <1> SUFFICES ASSUME NEW inside \in Seq(S), NEW host \in Seq(S), NEW mount,
                      mount.ContainerPath = inside, mount.HostPath = host
               PROVE  LeadsTo(<<mount>>, (inside \o between) \o name, (host \o between) \o name)
    OBVIOUS
  <1>3. OnHost(<<mount>>, inside \o (between \o name)) = {host \o (between \o name)}
    BY <1>1, Mounted
  <1>4. (inside \o between) \o name = inside \o (between \o name)
    BY <1>2, Zenon
  <1>5. (host \o between) \o name = host \o (between \o name)
    BY <1>2, Zenon
  <1> QED
    BY <1>3, <1>4, <1>5, Zenon DEF LeadsTo

(* The settings, as the command line is made of them.                      *)
LEMMA LineOfSettings ==
  ASSUME NEW c \in Configs
  PROVE  LET following == FlattenSeq([i \in DOMAIN c.process_arguments
                                        |-> <<Blank>> \o c.process_arguments[i]])
         IN  /\ AsLine(command_line(c), cpu_affinity_hex_str(c), executable(c), following,
                       c.stdout_filename)
             /\ following \in Seq(Pieces) /\ (Len(following) > 0 => following[1] = Blank)
             /\ cpu_affinity_hex_str(c) \in Seq(HexDigits)
             /\ Hexadecimal(cpu_affinity_hex_str(c)) = c.cpu_affinity_hex
             /\ {c.process_directory, c.process_executable, c.mapped_directory,
                 c.stdout_filename, <<Separator>>, executable(c)} \subseteq Seq(Pieces)
  <1> DEFINE following == FlattenSeq([i \in DOMAIN c.process_arguments
                                        |-> <<Blank>> \o c.process_arguments[i]])
  <1>1. /\ {c.process_directory, c.process_executable, c.mapped_directory,
            c.stdout_filename} \subseteq Text
        /\ c.process_arguments \in Seq(Text) /\ c.cpu_affinity_hex \in Nat
    BY LayerChainAssumption
  <1>2. Text \subseteq Seq(Pieces)
    BY SeqMonotonic DEF Text, Pieces
  <1>3. <<Separator>> \in Seq(Pieces)
    BY DEF Pieces
  <1>4. executable(c) \in Seq(Pieces)
    <2> DEFINE between == <<Separator>>
    <2>1. between \in Seq(Pieces) /\ c.mapped_directory \in Seq(Pieces)
          /\ c.process_executable \in Seq(Pieces)
      BY <1>1, <1>2, <1>3
    <2> HIDE DEF between
    <2>2. c.mapped_directory \o between \in Seq(Pieces)
      BY <2>1, Joined
    <2>3. (c.mapped_directory \o between) \o c.process_executable \in Seq(Pieces)
      BY <2>1, <2>2, Joined
    <2> QED
      BY <2>3 DEF between, executable
  <1>5. following \in Seq(Pieces) /\ (Len(following) > 0 => following[1] = Blank)
    BY <1>1, ArgumentsApart
  <1>6. /\ cpu_affinity_hex_str(c) \in Seq(HexDigits)
        /\ Hexadecimal(cpu_affinity_hex_str(c)) = c.cpu_affinity_hex
    BY <1>1, PrintedNumber DEF cpu_affinity_hex_str
  <1>7. AsLine(command_line(c), cpu_affinity_hex_str(c), executable(c), following,
               c.stdout_filename)
    BY DEF AsLine, command_line, Opening, Gap, Redirection, Closing
  <1> HIDE DEF following
  <1>8. {c.process_directory, c.process_executable, c.mapped_directory,
         c.stdout_filename, <<Separator>>, executable(c)} \subseteq Seq(Pieces)
    BY <1>1, <1>2, <1>3, <1>4
  <1> QED
    BY <1>5, <1>6, <1>7, <1>8 DEF following

(* What is read from the command line of some settings.                    *)
LEMMA ReadAsSet ==
  ASSUME NEW c \in Configs
  PROVE  /\ Started(command_line(c)).mask = cpu_affinity_hex_str(c)
         /\ Hexadecimal(cpu_affinity_hex_str(c)) = c.cpu_affinity_hex
         /\ WithoutBlank(executable(c)) => Started(command_line(c)).executable = executable(c)
         /\ OneWord(c.stdout_filename)
              => Started(command_line(c)).output = c.stdout_filename
  <1> DEFINE following == FlattenSeq([i \in DOMAIN c.process_arguments
                                        |-> <<Blank>> \o c.process_arguments[i]])
             line == command_line(c)
             mask == cpu_affinity_hex_str(c)
             program == executable(c)
             output == c.stdout_filename
  <1>1. /\ AsLine(line, mask, program, following, output)
        /\ following \in Seq(Pieces) /\ (Len(following) > 0 => following[1] = Blank)
        /\ mask \in Seq(HexDigits) /\ Hexadecimal(mask) = c.cpu_affinity_hex
        /\ program \in Seq(Pieces) /\ output \in Seq(Pieces)
    BY LineOfSettings
  <1> HIDE DEF following, line, mask, program, output
  <1>2. /\ Started(line).mask = mask
        /\ WithoutBlank(program) => Started(line).executable = program
    BY <1>1, MaskAndProgram
  <1>3. OneWord(output) => Started(line).output = output
    BY <1>1, OutputNamed
  <1> QED
    BY <1>1, <1>2, <1>3 DEF line, mask, program, output

-------------------------------------------------------------------------------
(* Read as start reads it, the mask on the command line is the number in   *)
(* the settings, whatever that number is and whatever else is on the line. *)
THEOREM AffinityRead == Spec => []AffinityMaskRead
  <1>1. IInv => AffinityMaskRead
    <2> SUFFICES ASSUME IInv, process # <<>>
                 PROVE  Hexadecimal(Started(process[1].CommandLine).mask) = conf.cpu_affinity_hex
      BY DEF AffinityMaskRead
    <2>1. process[1].CommandLine = command_line(conf) /\ conf \in Configs
      BY DEF IInv, SeenInv, InputInv, process_json
    <2>2. /\ Started(command_line(conf)).mask = cpu_affinity_hex_str(conf)
          /\ Hexadecimal(cpu_affinity_hex_str(conf)) = conf.cpu_affinity_hex
      BY <2>1, ReadAsSet
    <2> QED
      BY <2>1, <2>2
  <1> QED
    BY Invariant, <1>1, PTL

(* The files in the settings are one word each for cmd: it would take a    *)
(* blank for the end of the word, and what follows a second >> for the name*)
(* of the output.                                                          *)
FilesAreWords ==
  \A c \in Configs : /\ WithoutBlank(c.mapped_directory)
                     /\ WithoutBlank(c.process_executable)
                     /\ OneWord(c.stdout_filename)

LEMMA ExecutableIsWord ==
  ASSUME FilesAreWords, NEW c \in Configs
  PROVE  WithoutBlank(executable(c))
  <1> DEFINE between == <<Separator>>
             directory == c.mapped_directory
             file == c.process_executable
  <1>1. between \in Seq(Pieces) /\ directory \in Seq(Pieces) /\ file \in Seq(Pieces)
    BY LineOfSettings
  <1>2. WithoutBlank(between)
    <2>1. Separator # Blank
      BY DEF Separator, Blank
    <2>2. Len(between) = 1 /\ between[1] = Separator
      OBVIOUS
    <2> QED
      BY <2>1, <2>2 DEF WithoutBlank
  <1>3. WithoutBlank(directory) /\ WithoutBlank(file)
    BY DEF FilesAreWords
  <1>4. executable(c) = (directory \o between) \o file
    BY DEF executable
  <1> HIDE DEF between, directory, file
  <1>5. \A s, t \in Seq(Pieces) : WithoutBlank(s) /\ WithoutBlank(t) => WithoutBlank(s \o t)
    <2> SUFFICES ASSUME NEW s \in Seq(Pieces), NEW t \in Seq(Pieces),
                        WithoutBlank(s), WithoutBlank(t), NEW i \in 1..Len(s \o t)
                 PROVE  (s \o t)[i] # Blank
      BY DEF WithoutBlank
    <2>1. /\ Len(s) \in Nat /\ Len(t) \in Nat /\ i \in 1 .. Len(s) + Len(t)
          /\ (s \o t)[i] = IF i <= Len(s) THEN s[i] ELSE t[i - Len(s)]
      BY ConcatProperties, LenProperties
    <2> QED
      BY <2>1 DEF WithoutBlank
  <1>6. directory \o between \in Seq(Pieces)
    BY <1>1, Joined
  <1> QED
    BY <1>1, <1>2, <1>3, <1>4, <1>5, <1>6

(* The executable the process starts and the file its output goes to are,  *)
(* through the directory mounted by the other document, the ones in the    *)
(* settings.                                                               *)
THEOREM RunsInItsDirectory ==
  ASSUME FilesAreWords
  PROVE  Spec => []ProcessRunsInItsDirectory
  <1>1. IInv => ProcessRunsInItsDirectory
    <2> SUFFICES ASSUME IInv, process # <<>> PROVE ProcessRunsInItsDirectory
      BY DEF ProcessRunsInItsDirectory
    <2> DEFINE between == <<Separator>>
               host == conf.process_directory
               inside == conf.mapped_directory
               file == conf.process_executable
               output == conf.stdout_filename
               mount == [HostPath         |-> host,
                         ContainerPath    |-> inside,
                         IOPSMaximum      |-> conf.max_storage_iops,
                         BandwidthMaximum |-> conf.max_storage_bandwidth_bytes_per_sec]
               run == Started(process[1].CommandLine)
    <2>1. /\ process[1].CommandLine = command_line(conf)
          /\ process[1].WorkingDirectory = inside
          /\ conf \in Configs
      BY DEF IInv, SeenInv, InputInv, process_json
    <2>2. container[1].MappedDirectories = <<mount>>
      BY DEF IInv, SeenInv, container_json
    <2>3. run.executable = executable(conf)
      BY <2>1, ExecutableIsWord, ReadAsSet
    <2>4. run.output = output
      BY <2>1, ReadAsSet DEF FilesAreWords
    <2>5. /\ host \in Seq(Pieces) /\ inside \in Seq(Pieces) /\ file \in Seq(Pieces)
          /\ output \in Seq(Pieces) /\ between \in Seq(Pieces)
      BY <2>1, LineOfSettings
    <2>6. executable(conf) = (inside \o between) \o file
      BY DEF executable
    <2>7. mount.ContainerPath = inside /\ mount.HostPath = host
      OBVIOUS
    <2> HIDE DEF between, host, inside, file, output, mount, run
    <2>8. ASSUME NEW name \in Seq(Pieces)
          PROVE  LeadsTo(<<mount>>, (inside \o between) \o name, (host \o between) \o name)
      BY <2>5, <2>7, MountedFile, Zenon
    <2>9. /\ OnHost(container[1].MappedDirectories, run.executable) = {(host \o between) \o file}
          /\ OnHost(container[1].MappedDirectories,
                    (process[1].WorkingDirectory \o between) \o run.output)
               = {(host \o between) \o output}
      BY <2>1, <2>2, <2>3, <2>4, <2>5, <2>6, <2>8 DEF LeadsTo
    <2> QED
      BY <2>9 DEF ProcessRunsInItsDirectory, between, host, file, output, run
  <1> QED
    BY Invariant, <1>1, PTL

===============================================================================
