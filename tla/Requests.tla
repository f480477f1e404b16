------------------------------- MODULE Requests -------------------------------
(***************************************************************************)
(* What the gRPC handlers of the driver make of a request before they hand *)
(* it to the union or to the mounter: the validators, the checks at the    *)
(* top of each handler, and the parameters of CreateVolume.                *)
(*                                                                         *)
(* A validator collects errors; here it is the predicate that there are    *)
(* none.  A field access the code guards with a validation alone is        *)
(* modelled with what it does without: a nil dereference panics.           *)
(*                                                                         *)
(* Of a name or an id it matters whether it is "", of a path whether it    *)
(* is "", "relative" or "absolute", of a label whether it is "malformed".  *)
(***************************************************************************)
EXTENDS Integers, Sequences, FiniteSets

CONSTANT Nil  \* a message or an interface that is not there

-----------------------------------------------------------------------------
(* Capabilities *)

pluginCapabilities == {"CONTROLLER_SERVICE"}

controllerCapabilities == {"CREATE_DELETE_VOLUME", "PUBLISH_UNPUBLISH_VOLUME"}

nodeCapabilities == {}

volumeCapabilities == {"SINGLE_NODE_WRITER"}

validPluginCapTypes ==
  {"CONTROLLER_SERVICE", "VOLUME_ACCESSIBILITY_CONSTRAINTS", "GROUP_CONTROLLER_SERVICE"}

validControllerCapTypes ==
  {"CREATE_DELETE_VOLUME", "PUBLISH_UNPUBLISH_VOLUME", "LIST_VOLUMES", "GET_CAPACITY",
   "CREATE_DELETE_SNAPSHOT", "LIST_SNAPSHOTS", "CLONE_VOLUME", "PUBLISH_READONLY",
   "EXPAND_VOLUME", "LIST_VOLUMES_PUBLISHED_NODES", "VOLUME_CONDITION", "GET_VOLUME",
   "SINGLE_NODE_MULTI_WRITER"}

validNodeCapTypes ==
  {"STAGE_UNSTAGE_VOLUME", "GET_VOLUME_STATS", "EXPAND_VOLUME", "VOLUME_CONDITION",
   "SINGLE_NODE_MULTI_WRITER", "VOLUME_MOUNT_GROUP"}

validVolumeCapTypes ==
  {"SINGLE_NODE_WRITER", "SINGLE_NODE_READER_ONLY", "MULTI_NODE_READER_ONLY",
   "MULTI_NODE_SINGLE_WRITER", "MULTI_NODE_MULTI_WRITER",
   "SINGLE_NODE_SINGLE_WRITER", "SINGLE_NODE_MULTI_WRITER"}

NewVolumeValidator == volumeCapabilities \subseteq validVolumeCapTypes

NewIdentityValidator == pluginCapabilities \subseteq validPluginCapTypes

NewControllerValidator ==
  controllerCapabilities \subseteq validControllerCapTypes /\ NewVolumeValidator

NewNodeValidator == nodeCapabilities \subseteq validNodeCapTypes /\ NewVolumeValidator

-----------------------------------------------------------------------------
(* Validation of fields *)

\* filled: neither the typed value nor the message in it is nil.
validateAccessType(cap) == cap.type \in {"block", "mount"} /\ cap.filled

validateMode(mode) == mode \in validVolumeCapTypes

\* Mutant of validateVolumeCapability: a missing accessMode is let through.
validateVolumeCapabilityModeless(cap) ==
  /\ cap # Nil
  /\ validateAccessType(cap)
  /\ cap.mode = Nil \/ validateMode(cap.mode)

\* mode is Nil if there is no accessMode.
validateVolumeCapability(cap) ==
  /\ cap # Nil
  /\ validateAccessType(cap)
  /\ validateMode(cap.mode)

validateVolumeCapabilities(caps) ==
  caps # << >> /\ \A i \in DOMAIN caps : validateVolumeCapability(caps[i])

\* Mutant of validateCapacityRange: the two sizes are not compared.
validateCapacityRangeLoosely(range) ==
  range = Nil \/ (range.required >= 0 /\ range.limit >= 0 /\ range.required + range.limit > 0)

validateCapacityRange(range) ==
  \/ range = Nil
  \/ /\ ~ (range.required = 0 /\ range.limit = 0)
     /\ range.required >= 0
     /\ range.limit >= 0
     /\ range.limit > 0 => range.required <= range.limit

validateVolumeContentSource(source) ==
  \/ source = Nil
  \/ source.type \in {"snapshot", "volume"} /\ source.filled /\ source.id # ""

\* A topology is the set of its labels.
validateTopology(labels) == labels # Nil /\ labels # {} /\ "malformed" \notin labels

validateAccessibilityRequirements(topology) ==
  \/ topology = Nil
  \/ /\ topology.requisite \cup topology.preferred # {}
     /\ \A t \in topology.requisite \cup topology.preferred : validateTopology(t)

validateTargetPath(path) == path = "absolute"

-----------------------------------------------------------------------------
(* Validation of requests *)

\* One after another, is the mode of each capability one of the plugin's?
checkModes(caps) ==
  LET mode(i)     == IF caps[i] = Nil THEN Nil ELSE caps[i].mode
      unsupported == {i \in DOMAIN caps : mode(i) \notin volumeCapabilities}
      first       == CHOOSE i \in unsupported : \A j \in unsupported : i <= j
  IN IF unsupported = {} THEN "OK"
     ELSE IF mode(first) = Nil THEN "panic" ELSE "InvalidArgument"

CreateVolumeRequestValidate(req) ==
  IF /\ req.name # ""
     /\ validateCapacityRange(req.range)
     /\ validateVolumeCapabilities(req.caps)
     /\ validateVolumeContentSource(req.source)
     /\ validateAccessibilityRequirements(req.topology)
  THEN checkModes(req.caps)
  ELSE "InvalidArgument"

DeleteVolumeRequestValidate(req) == IF req.volume # "" THEN "OK" ELSE "InvalidArgument"

ControllerPublishVolumeRequestValidate(req) ==
  IF req.volume # "" /\ req.node # "" /\ validateVolumeCapability(req.cap)
  THEN IF /\ checkModes(<<req.cap>>) = "OK"
          /\ req.readonly
          /\ "PUBLISH_READONLY" \notin controllerCapabilities
       THEN "InvalidArgument"
       ELSE checkModes(<<req.cap>>)
  ELSE "InvalidArgument"

ControllerUnpublishVolumeRequestValidate(req) ==
  IF req.volume # "" THEN "OK" ELSE "InvalidArgument"

\* Mutant of NodePublishVolumeRequestValidate: a staging path is required.
NodePublishVolumeRequestValidateStaged(req) ==
  IF /\ req.volume # ""
     /\ validateTargetPath(req.staging)
     /\ validateTargetPath(req.target)
     /\ validateVolumeCapability(req.cap)
  THEN checkModes(<<req.cap>>)
  ELSE "InvalidArgument"

NodePublishVolumeRequestValidate(req) ==
  IF /\ req.volume # ""
     /\ req.staging # "" => validateTargetPath(req.staging)
     /\ validateTargetPath(req.target)
     /\ validateVolumeCapability(req.cap)
  THEN IF /\ checkModes(<<req.cap>>) = "OK"
          /\ req.staging = ""
          /\ "STAGE_UNSTAGE_VOLUME" \in nodeCapabilities
       THEN "InvalidArgument"
       ELSE checkModes(<<req.cap>>)
  ELSE "InvalidArgument"

NodeUnpublishVolumeRequestValidate(req) ==
  IF req.volume # "" /\ validateTargetPath(req.target) THEN "OK" ELSE "InvalidArgument"

-----------------------------------------------------------------------------
(* CreateVolume's options *)

DefaultLowerNamespace == "union"
DefaultCapacityBytes  == 1024

IgnoredParamKeys ==
  {"csi.storage.k8s.io/pvc/name", "csi.storage.k8s.io/pvc/namespace",
   "csi.storage.k8s.io/pv/name"}

ParamKeys == IgnoredParamKeys \cup {"lowernamespace", "lowerstorageclassname"}

\* The values given for a key that is spelled in any mixture of cases.
Given(params, key) == {p.value : p \in {q \in params : q.key = key}}

\* Mutant of LowerNamespaces: the namespace of the PVC counts as well.
LowerNamespacesOfPVC(params) ==
  LET given == Given(params, "lowernamespace")
               \cup Given(params, "csi.storage.k8s.io/pvc/namespace")
  IN IF given = {} THEN {DefaultLowerNamespace} ELSE given

LowerNamespaces(params) ==
  LET given == Given(params, "lowernamespace")
  IN IF given = {} THEN {DefaultLowerNamespace} ELSE given

LowerStorageClassNames(params) ==
  LET given == Given(params, "lowerstorageclassname")
  IN IF given = {} THEN {"nil"} ELSE given

\* A map with spellings for keys is walked in any order, and the last one wins:
\* the set of the options parseParameters may come to; none, it is an error.
parseParameters(params) ==
  IF \E p \in params : p.key \notin ParamKeys \/ (p.key = "lowerstorageclassname" /\ p.value = "")
  THEN {}
  ELSE [ns : LowerNamespaces(params), class : LowerStorageClassNames(params)]

getCapacityBytes(range) == IF range = Nil THEN DefaultCapacityBytes ELSE range.required

csiToK8sAccessMode(mode) ==
  CASE mode \in {"SINGLE_NODE_WRITER", "SINGLE_NODE_SINGLE_WRITER",
                 "SINGLE_NODE_MULTI_WRITER"}                         -> "RWO"
    [] mode \in {"SINGLE_NODE_READER_ONLY", "MULTI_NODE_READER_ONLY"} -> "ROX"
    [] mode = "MULTI_NODE_MULTI_WRITER"                              -> "RWX"
    [] OTHER                                                         -> Nil

getAccessModes(caps) == {csiToK8sAccessMode(caps[i].mode) : i \in DOMAIN caps}

-----------------------------------------------------------------------------
(* The handlers, up to their call of the union or the mounter: the replies *)
(* each may give.  "OK" stands for "accepted"; spec is what CreateLower    *)
(* asks the splitter for.                                                  *)

Reply(code) == [code |-> code, spec |-> Nil]

CreateVolume(req) ==
  LET verdict == CreateVolumeRequestValidate(req)
      options == parseParameters(req.params)
      modes   == getAccessModes(req.caps)
  IN IF verdict # "OK" THEN {Reply(verdict)}
     ELSE IF (\E i \in DOMAIN req.caps : req.caps[i].type = "block") \/ options = {}
     THEN {Reply("InvalidArgument")}
     ELSE IF Nil \in modes THEN {Reply("Internal")}
     ELSE {[code |-> "OK", spec |-> [ns    |-> o.ns,
                                     class |-> o.class,
                                     size  |-> getCapacityBytes(req.range),
                                     modes |-> modes]] : o \in options}

DeleteVolume(req) == {Reply(DeleteVolumeRequestValidate(req))}

ControllerPublishVolume(req) == {Reply(ControllerPublishVolumeRequestValidate(req))}

ControllerUnpublishVolume(req) ==
  {Reply(IF req.node = "" THEN "InvalidArgument"
         ELSE ControllerUnpublishVolumeRequestValidate(req))}

\* context is the set of its keys.  The mounter dereferences the options, which
\* are set for a mount alone.
NodePublishVolume(req) ==
  {Reply(IF NodePublishVolumeRequestValidate(req) # "OK"
         THEN NodePublishVolumeRequestValidate(req)
         ELSE IF "path" \notin req.context \/ req.cap.type = "block" THEN "InvalidArgument"
         ELSE IF req.cap.type = "mount" THEN "OK" ELSE "panic")}

NodeUnpublishVolume(req) == {Reply(NodeUnpublishVolumeRequestValidate(req))}
=============================================================================
