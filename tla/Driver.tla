-------------------------------- MODULE Driver --------------------------------
(***************************************************************************)
(* The process union-csi-driver: it reads its options, builds the servers  *)
(* of its mode, waits for the informers, listens on its endpoint and       *)
(* answers requests.  The container is started again whenever the process  *)
(* ends; what outlives it is the socket file.  Handlers keep no state, so  *)
(* the requests of different goroutines are taken one by one.              *)
(***************************************************************************)
EXTENDS Requests

CONSTANTS
  Configs,    \* the flags and the surroundings to consider, see below
  Messages,   \* the requests clients may send
  MaxCrashes  \* bound: times the process is killed

(***************************************************************************)
(*   mode       the flag of that name; Modes are the known ones            *)
(*   scheme     of the endpoint                                            *)
(*   kube       a client configuration can be built                        *)
(*   nodeName   NODE_NAME is set                                           *)
(*   removable  what is in the way of the socket can be removed            *)
(***************************************************************************)
Modes == {"all", "controller", "node"}

ASSUME ConfigsAssumption ==
  Configs \subseteq [mode : Modes \cup {"unknown"}, scheme : {"unix", "tcp", "other"},
                     kube : BOOLEAN, nodeName : BOOLEAN, removable : BOOLEAN]

ASSUME CrashesAssumption == MaxCrashes \in Nat

ASSUME NilAssumption == Nil \notin validVolumeCapTypes

\* A capability of a decoded request: the mode is one of the enumeration, where
\* "UNKNOWN" stands for any number without a name as well, or Nil if left out.
Capability ==
  [type : {"none", "block", "mount"}, filled : BOOLEAN,
   mode : validVolumeCapTypes \cup {Nil, "UNKNOWN"}]

(***************************************************************************)
(* What the encoding of a request fixes, whatever the client fills in: a   *)
(* repeated field is a list of messages, a size is an integer, and a path  *)
(* is one of the three kinds.                                              *)
(***************************************************************************)
ASSUME MessagesAssumption ==
  \A req \in Messages :
    /\ req.rpc = "CreateVolume" =>
         /\ req.caps \in Seq(Capability)
         /\ req.range = Nil \/ req.range \in [required : Int, limit : Int]
    /\ req.rpc = "NodePublishVolume" => req.staging \in {"", "relative", "absolute"}

VARIABLES
  config,    \* of this behaviour
  phase,     \* how far main has come
  built,     \* the servers the driver has
  services,  \* the services registered with the gRPC server
  synced,    \* whether the informers have caught up
  file,      \* whether the socket file exists
  last,      \* the last request and its reply, or Nil
  granted,   \* the capabilities of volumes CreateVolume accepted
  crashes    \* times the process was killed so far

process == <<phase, built, services, synced>>
traffic == <<last, granted>>
vars == <<config, process, file, traffic, crashes>>

Phases == {"main", "config", "newDriver", "sync", "parseEndpoint", "listen", "register",
           "serve", "exited"}

Services == {"identity", "controller", "node"}

\* Every variable keeps its type, and no service is registered whose server was
\* not built (hazard: NewDriver and Run each switch over the mode).
TypeOK ==
  /\ config \in Configs
  /\ phase \in Phases
  /\ built \subseteq Services
  /\ services \subseteq built
  /\ synced \in BOOLEAN
  /\ file \in BOOLEAN
  /\ last # Nil => last.req \in Messages
  /\ crashes \in 0 .. MaxCrashes

\* A container starts on an empty directory or on its predecessor's socket.
Init ==
  /\ config \in Configs
  /\ phase = "main"
  /\ built = {}
  /\ services = {}
  /\ synced = FALSE
  /\ file \in BOOLEAN
  /\ last = Nil
  /\ granted = {}
  /\ crashes = 0

-----------------------------------------------------------------------------
(* main *)

\* A fatal error, os.Exit or a panic.
Exits ==
  /\ phase' = "exited"
  /\ built' = {}
  /\ services' = {}
  /\ synced' = FALSE

\* main goes on from here to there, or ends.
Step(here, ok, there) ==
  /\ phase = here
  /\ IF ok THEN phase' = there /\ UNCHANGED <<built, services, synced>> ELSE Exits

Aside == UNCHANGED <<config, traffic, crashes>>

GetOptions == Step("main", config.mode \in Modes, "config") /\ Aside /\ UNCHANGED file

NewClients == Step("config", config.kube, "newDriver") /\ Aside /\ UNCHANGED file

\* NewDriver builds the servers of a mode; Run registers their services.
ServersOf(mode) ==
  {"identity"} \cup IF mode = "all" THEN {"controller", "node"} ELSE {mode}

\* Mutant of NewServers: a node server for the mode "all" only.
NewServersOfAll(mode) ==
  {"identity"} \cup IF mode = "all" THEN {"controller", "node"} ELSE {mode} \ {"node"}

NewServers(mode) == ServersOf(mode)

\* A server panics on a capability it does not know, the node server also without
\* a node name.
Buildable(server) ==
  CASE server = "identity"   -> NewIdentityValidator
    [] server = "controller" -> NewControllerValidator
    [] server = "node"       -> NewNodeValidator /\ config.nodeName

NewDriver ==
  /\ phase = "newDriver"
  /\ IF \A server \in NewServers(config.mode) : Buildable(server)
     THEN phase' = "sync" /\ built' = NewServers(config.mode) /\ UNCHANGED <<services, synced>>
     ELSE Exits
  /\ Aside /\ UNCHANGED file

\* The informers are running from here on.
CachesSync ==
  /\ phase = "sync"
  /\ synced' = TRUE
  /\ Aside /\ UNCHANGED <<phase, built, services, file>>

\* The context is never done, so the wait ends with all caches in sync.
WaitForCacheSync ==
  synced /\ Step("sync", TRUE, "parseEndpoint") /\ Aside /\ UNCHANGED file

\* Mutant of parseEndpoint: the socket file is left where it is.
parseEndpointOnly ==
  /\ Step("parseEndpoint", config.scheme \in {"unix", "tcp"}, "listen")
  /\ Aside /\ UNCHANGED file

\* The file of a unix socket is removed if it is there; it is an error that it
\* cannot be removed, but none that there is no such file.
parseEndpoint ==
  /\ Step("parseEndpoint",
          config.scheme = "tcp" \/ (config.scheme = "unix" /\ (file => config.removable)),
          "listen")
  /\ file' = (file /\ ~ (config.scheme = "unix" /\ config.removable))
  /\ Aside

\* A socket cannot be bound to a file that exists.
Listen ==
  /\ Step("listen", ~ (config.scheme = "unix" /\ file), "register")
  /\ file' = (file \/ config.scheme = "unix")
  /\ Aside

Register ==
  /\ phase = "register"
  /\ phase' = "serve"
  /\ services' = ServersOf(config.mode)
  /\ Aside /\ UNCHANGED <<built, synced, file>>

\* The kernel or the kubelet kills the process; main installs no handler.
Crash ==
  /\ phase # "exited"
  /\ crashes < MaxCrashes
  /\ crashes' = crashes + 1
  /\ Exits
  /\ UNCHANGED <<config, file, traffic>>

Restart == Step("exited", TRUE, "main") /\ Aside /\ UNCHANGED file

-----------------------------------------------------------------------------
(* Requests *)

ControllerRPCs ==
  {"CreateVolume", "DeleteVolume", "ControllerPublishVolume", "ControllerUnpublishVolume",
   "ValidateVolumeCapabilities", "ListVolumes", "GetCapacity", "ControllerGetCapabilities",
   "CreateSnapshot", "DeleteSnapshot", "ListSnapshots", "ControllerExpandVolume",
   "ControllerGetVolume"}

NodeRPCs ==
  {"NodeStageVolume", "NodeUnstageVolume", "NodePublishVolume", "NodeUnpublishVolume",
   "NodeGetVolumeStats", "NodeExpandVolume", "NodeGetCapabilities", "NodeGetInfo"}

IdentityRPCs == {"GetPluginInfo", "GetPluginCapabilities", "Probe"}

RPCs == ControllerRPCs \cup NodeRPCs \cup IdentityRPCs

\* What answers OK whatever it is asked.
Answering == IdentityRPCs \cup {"ControllerGetCapabilities", "NodeGetCapabilities", "NodeGetInfo"}

ServiceOf(rpc) ==
  CASE rpc \in ControllerRPCs -> "controller"
    [] rpc \in NodeRPCs       -> "node"
    [] rpc \in IdentityRPCs   -> "identity"

Handle(req) ==
  CASE req.rpc = "CreateVolume"              -> CreateVolume(req)
    [] req.rpc = "DeleteVolume"              -> DeleteVolume(req)
    [] req.rpc = "ControllerPublishVolume"   -> ControllerPublishVolume(req)
    [] req.rpc = "ControllerUnpublishVolume" -> ControllerUnpublishVolume(req)
    [] req.rpc = "NodePublishVolume"         -> NodePublishVolume(req)
    [] req.rpc = "NodeUnpublishVolume"       -> NodeUnpublishVolume(req)
    [] req.rpc \in Answering                 -> {Reply("OK")}
    [] OTHER                                 -> {Reply("Unimplemented")}

\* The gRPC server does not know a service that is not registered; a server the
\* driver has not built is a nil interface.
Replies(req) ==
  LET service == ServiceOf(req.rpc)
  IN IF service \notin services THEN {Reply("Unimplemented")}
     ELSE IF service \notin built THEN {Reply("panic")}
     ELSE Handle(req)

\* A panic of a handler ends the process.
Answer(req, reply) ==
  /\ phase = "serve"
  /\ last' = [req |-> req, reply |-> reply]
  /\ granted' = IF req.rpc = "CreateVolume" /\ reply.code = "OK"
                THEN granted \cup {req.caps[i] : i \in DOMAIN req.caps}
                ELSE granted
  /\ IF reply.code = "panic" THEN Exits ELSE UNCHANGED process
  /\ UNCHANGED <<config, file, crashes>>

Serve ==
  /\ last = Nil
  /\ \E req \in Messages : \E reply \in Replies(req) : Answer(req, reply)

\* The client repeats its request: the reply was lost, or took too long.
Again ==
  /\ last # Nil
  /\ \E reply \in Replies(last.req) : Answer(last.req, reply)

\* The client has its reply.
Received ==
  /\ last # Nil
  /\ last' = Nil
  /\ UNCHANGED <<config, process, file, granted, crashes>>

-----------------------------------------------------------------------------

Main == \/ GetOptions \/ NewClients \/ NewDriver \/ CachesSync \/ WaitForCacheSync
        \/ parseEndpoint \/ Listen \/ Register

Next ==
  \/ Main
  \/ Serve
  \/ Again
  \/ Received
  \/ Crash
  \/ Restart

Spec == Init /\ [][Next]_vars

(***************************************************************************)
(* The process runs, its informers reach the API server, and the kubelet   *)
(* starts a container that has ended again.                                *)
(***************************************************************************)
Fairness == WF_vars(Main) /\ WF_vars(Restart)

FairSpec == Spec /\ Fairness

-----------------------------------------------------------------------------
(* Properties *)

\* The API server, the process and its surroundings allow it to serve.
Sound ==
  /\ config.mode \in Modes
  /\ config.scheme \in {"unix", "tcp"}
  /\ config.kube
  /\ config.mode # "controller" => config.nodeName
  /\ config.scheme = "unix" => config.removable

\* No request makes a handler dereference a nil field or call a server that was
\* not built: what the code reads unguarded, validation has seen before, and the
\* two switches over the mode agree (the validators, NewDriver, Run).
NeverPanics == last # Nil => last.reply.code # "panic"

\* What the rest of the controller takes for granted of the specs it works on: a
\* size within the range asked for, a storage class that is not "", and access
\* modes, all of which Kubernetes has (CreateVolume up to CreateLower).
SpecsAsAssumed ==
  last # Nil /\ last.req.rpc = "CreateVolume" /\ last.reply.code = "OK" =>
    LET spec  == last.reply.spec
        range == last.req.range
    IN /\ spec.size >= 0
       /\ spec.class # ""
       /\ spec.modes # {} /\ Nil \notin spec.modes
       /\ range # Nil => /\ spec.size >= range.required
                         /\ range.limit > 0 => spec.size <= range.limit

\* A well-formed request to use a volume in the way it was created for: with the
\* ids and paths set, writable at the controller, and with the publish context.
WellFormed(req) ==
  /\ req.volume # ""
  /\ \/ req.rpc = "ControllerPublishVolume" /\ req.node # "" /\ ~ req.readonly
     \/ /\ req.rpc = "NodePublishVolume"
        /\ req.target = "absolute"
        /\ req.staging # "relative"
        /\ "path" \in req.context

\* A capability CreateVolume has accepted is never refused when the volume is
\* attached or published later on, by the same or by another process of the
\* driver: three validators and two handlers check it (CreateVolume,
\* ControllerPublishVolume, NodePublishVolume).
CreatedMeansUsable ==
  /\ last # Nil
  /\ last.req.rpc \in {"ControllerPublishVolume", "NodePublishVolume"}
  /\ last.req.cap \in granted
  /\ WellFormed(last.req)
  => last.reply.code # "InvalidArgument"

\* Parameter keys that differ in more than their case.
Unambiguous(params) == \A p, q \in params : p.key = q.key => p = q

\* A CreateVolume that is repeated, be it to another process of the driver, asks
\* for the same VolumeSplit, although the parameters are walked in a random
\* order: else the repetition is refused with AlreadyExists (parseParameters).
SameRequestSameSpec ==
  [][/\ last # Nil /\ last' # Nil
     /\ last.req.rpc = "CreateVolume"
     /\ Unambiguous(last.req.params)
     /\ last.reply.code = "OK"
     => last'.reply = last.reply]_vars

\* With sound surroundings the process comes to serve again whenever it was
\* killed, in spite of the socket file it left behind (parseEndpoint, main).
ServesAgain == Sound => []<>(phase = "serve")
=============================================================================
