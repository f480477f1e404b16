------------------------------- MODULE MCDriver -------------------------------
(* Small instances of Driver for TLC. *)
EXTENDS Driver

\* Protobuf leaves no access type and no typed value nil that is there at all.
Capabilities ==
  {c \in Capability :
     /\ c.filled
     /\ c.mode \in {Nil, "UNKNOWN", "SINGLE_NODE_WRITER", "SINGLE_NODE_MULTI_WRITER",
                    "MULTI_NODE_SINGLE_WRITER"}}

Good == [type |-> "mount", filled |-> TRUE, mode |-> "SINGLE_NODE_WRITER"]

CapabilityLists ==
  {<< >>} \cup {<<c>> : c \in Capabilities} \cup {<<Good, c>> : c \in Capabilities}
          \cup {<<c, Good>> : c \in Capabilities}

Ranges == {Nil} \cup [required : {-1, 0, 1, 2}, limit : {-1, 0, 1, 2}]

Sources == {Nil} \cup [type : {"none", "snapshot"}, filled : {TRUE}, id : {"", "s"}]

Topologies ==
  {Nil} \cup [requisite : {{}, {{}}, {{"l"}}}, preferred : {{}, {{"malformed", "l"}}, {{"l"}}}]

Param(key, spelling, value) == [key |-> key, spelling |-> spelling, value |-> value]

Params ==
  SUBSET {Param("lowernamespace", 1, "a"), Param("lowernamespace", 2, "b"),
          Param("lowerstorageclassname", 1, ""), Param("lowerstorageclassname", 2, "c"),
          Param("csi.storage.k8s.io/pvc/namespace", 1, "p"), Param("replicas", 1, "1")}

Create == [rpc |-> "CreateVolume", name |-> "v", range |-> Nil, caps |-> <<Good>>,
           source |-> Nil, topology |-> Nil, params |-> {}]

\* All fields but one or two as in Create.
Creates ==
  {[Create EXCEPT !.caps = c] : c \in CapabilityLists}
  \cup {[Create EXCEPT !.range = r] : r \in Ranges}
  \cup {[Create EXCEPT !.name = n, !.source = s] : n \in {"", "v"}, s \in Sources}
  \cup {[Create EXCEPT !.topology = t] : t \in Topologies}
  \cup {[Create EXCEPT !.params = p] : p \in Params}

VolumeIds == {"", "v"}

Uses ==
  [rpc : {"DeleteVolume"}, volume : VolumeIds]
  \cup [rpc : {"ControllerPublishVolume"}, volume : VolumeIds, node : {"", "n"},
        cap : {Nil} \cup Capabilities, readonly : BOOLEAN]
  \cup [rpc : {"ControllerUnpublishVolume"}, volume : VolumeIds, node : {"", "n"}]
  \cup [rpc : {"NodePublishVolume"}, volume : VolumeIds, staging : {"", "relative", "absolute"},
        target : {"", "relative", "absolute"}, cap : {Nil} \cup Capabilities,
        context : {{}, {"other"}, {"path", "other"}}]
  \cup [rpc : {"NodeUnpublishVolume"}, volume : VolumeIds, target : {"", "relative", "absolute"}]

\* Requests of which no field matters.
Others ==
  [rpc : RPCs \ {"CreateVolume", "DeleteVolume", "ControllerPublishVolume",
                 "ControllerUnpublishVolume", "NodePublishVolume", "NodeUnpublishVolume"}]

AllMessages == Creates \cup Uses \cup Others

AllConfigs == [mode : Modes \cup {"unknown"}, scheme : {"unix", "tcp", "other"},
               kube : BOOLEAN, nodeName : BOOLEAN, removable : BOOLEAN]
=============================================================================
