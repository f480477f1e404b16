------------------------------ MODULE UnionVolume ------------------------------
(***************************************************************************)
(* One volume on one node, with everybody who has a hand in it: the        *)
(* controller that attaches and detaches it, the container of the attach   *)
(* pod that mounts the union, and the node server that binds the union to  *)
(* the targets of the consumers.                                           *)
(*                                                                         *)
(* The controller is VolumeAttachment, which Attachment implements; the    *)
(* container is Gogomergerfs; the node server is NodePublish, which sees   *)
(* of the container what the source path shows.  The orchestrator keeps    *)
(* the order CSI asks for: attach, publish, unpublish, detach.             *)
(*                                                                         *)
(* The attach pod counts as attached before its container has merged, and  *)
(* the node server takes the plain directory at the source path for a      *)
(* source: a consumer that is early gets that directory.  The properties   *)
(* say what a consumer can rely on all the same.                           *)
(***************************************************************************)
EXTENDS Naturals, Sequences, FiniteSets

CONSTANTS
  Here,       \* the node
  NoNode,     \* where a volume is that is not attached
  Targets,    \* target paths kubelet asks for
  NoTarget,   \* an idle call is about no target
  Regimes,    \* what may happen besides, see below
  MaxUnions,  \* bound: times mergerfs mounts
  MaxFaults   \* bound: failed system calls and crashes of the node server

(***************************************************************************)
(* A regime is a set of disturbances:                                      *)
(*   crash   the container is killed, mergerfs dies, the mount is busy     *)
(*   evict   somebody else deletes the attach pod                          *)
(***************************************************************************)
ASSUME RegimesAssumption == Regimes \subseteq SUBSET {"crash", "evict"}

ASSUME VolumeBoundsAssumption == MaxUnions \in Nat /\ MaxFaults \in Nat

ASSUME NullsAssumption == NoNode # Here /\ NoTarget \notin Targets

VARIABLES
  mu, running, manualStop, stopped, mounts, cancelled, pc,
  process, signals, taken, daemon, inUse, deleting, forced,  \* Gogomergerfs'
  place, stage, attachment,                                  \* VolumeAttachment's
  sourceDir, started, target, call, belief, faults,          \* NodePublish's
  regime      \* of this behaviour

container == <<mu, running, manualStop, stopped, mounts, cancelled, pc,
               process, signals, taken, daemon, inUse, deleting, forced>>
controller == <<place, stage, attachment>>
nodeServer == <<sourceDir, target, call, belief, faults>>
vars == <<container, controller, nodeServer, started, regime>>

Pod == INSTANCE Gogomergerfs WITH Faults <- TRUE, Resends <- FALSE

VA == INSTANCE VolumeAttachment WITH Nodes <- {Here}, belief <- attachment

Plain == 0

\* What the node server sees of the container: the unions are numbered.
source == IF mounts = 0 THEN Plain ELSE started
served == IF daemon THEN {started} ELSE {}

\* kubelet has one call in flight for the volume.
Environment(limit) ==
  [calls |-> {"call"}, stops |-> TRUE, unions |-> MaxUnions, faults |-> limit]

Node == INSTANCE NodePublish WITH
  Calls    <- {"call"},
  Settings <- {Environment(MaxFaults)},
  setting  <- Environment(MaxFaults)

\* Every variable keeps its type, those of the three parts included: no pod mounts
\* a second union.
TypeOK ==
  /\ Pod!TypeOK
  /\ VA!TypeOK
  /\ Node!TypeOK
  /\ daemon => mounts = 1
  /\ deleting => stage = "stopping"
  /\ regime \in Regimes

Init ==
  /\ Pod!Init
  /\ VA!Init
  /\ sourceDir = FALSE
  /\ started = 0
  /\ target = [t \in Targets |-> [dir |-> FALSE, mounts |-> << >>]]
  /\ call = [c \in {"call"} |-> Node!Idle]
  /\ belief = [t \in Targets |-> "none"]
  /\ faults = 0
  /\ regime \in Regimes

-----------------------------------------------------------------------------
(* The controller: what it and the orchestrator decide, and what becomes of *)
(* the attach pod                                                          *)

ElsewhereSame == UNCHANGED <<nodeServer, started, regime>>

Ask == VA!Publish(Here) /\ UNCHANGED container /\ ElsewhereSame

Occupy ==
  /\ started < MaxUnions
  /\ VA!Occupy(Here)
  /\ UNCHANGED container /\ ElsewhereSame

\* A pod is Running once its container has started, merged or not.
Run ==
  /\ process # "down"
  /\ VA!Run
  /\ UNCHANGED container /\ ElsewhereSame

Promise == VA!Promise(Here) /\ UNCHANGED container /\ ElsewhereSame

\* The orchestrator detaches a volume that no consumer has a trace of any more.
Withdraw ==
  /\ \A t \in Targets : belief[t] \in {"none", "removed"}
  /\ VA!Withdraw(Here)
  /\ UNCHANGED container /\ ElsewhereSame

Stop == VA!Stop /\ Pod!DeletePod /\ ElsewhereSame

Evict ==
  /\ "evict" \in regime
  /\ stage \in {"starting", "running"}
  /\ stage' = "stopping"
  /\ Pod!DeletePod
  /\ UNCHANGED <<place, attachment>> /\ ElsewhereSame

\* A deleted pod goes when its container has ended.
Vacate ==
  /\ process = "down"
  /\ VA!Vacate
  /\ deleting' = FALSE
  /\ UNCHANGED <<mu, running, manualStop, stopped, mounts, cancelled, pc,
                 process, signals, taken, daemon, inUse, forced>>
  /\ ElsewhereSame

Release == VA!Release(Here) /\ UNCHANGED container /\ ElsewhereSame

-----------------------------------------------------------------------------
(* The container *)

\* kubelet makes the hostPath directory before it starts the container.
MakeSourceDir ==
  /\ stage \in {"starting", "running"}
  /\ UNCHANGED <<container, controller, started, regime>>
  /\ Node!MakeSourceDir

StartContainer ==
  /\ stage \in {"starting", "running"}
  /\ sourceDir
  /\ Pod!Start
  /\ UNCHANGED controller /\ ElsewhereSame

Merge ==
  /\ Pod!Merge
  /\ started' = started + 1
  /\ UNCHANGED <<controller, nodeServer, regime>>

MainStep ==
  /\ \/ Pod!SetupSignalHandler \/ Pod!MergeFails \/ Pod!SeeCancelled
     \/ Pod!RunReturns \/ Pod!StartCleanUp \/ Pod!CleanUp
  /\ UNCHANGED controller /\ ElsewhereSame

Signal ==
  /\ Pod!SendSignal \/ Pod!FirstSignal
  /\ UNCHANGED controller /\ ElsewhereSame

Disturb ==
  /\ "crash" \in regime
  /\ Pod!Kill \/ Pod!DaemonDies \/ Pod!Use
  /\ UNCHANGED controller /\ ElsewhereSame

-----------------------------------------------------------------------------
(* The node server *)

\* kubelet publishes a volume that it has been told is attached.
Publish(t) ==
  /\ attachment[Here] = "published"
  /\ UNCHANGED <<container, controller, started, regime>>
  /\ Node!StartPublish("call", t)

Unpublish(t) ==
  /\ UNCHANGED <<container, controller, started, regime>>
  /\ Node!StartUnpublish("call", t)

CallStep ==
  /\ UNCHANGED <<container, controller, started, regime>>
  /\ Node!CallStep("call")

Crash ==
  /\ UNCHANGED <<container, controller, started, regime>>
  /\ Node!Crash

-----------------------------------------------------------------------------

Next ==
  \/ Ask \/ Occupy \/ Run \/ Promise \/ Withdraw \/ Stop \/ Evict \/ Vacate \/ Release
  \/ MakeSourceDir \/ StartContainer \/ Merge \/ MainStep \/ Signal \/ Disturb
  \/ \E t \in Targets : Publish(t) \/ Unpublish(t)
  \/ CallStep
  \/ Crash

Spec == Init /\ [][Next]_vars

(***************************************************************************)
(* The node server runs, and kubelet repeats NodePublishVolume until it is *)
(* answered OK.                                                            *)
(***************************************************************************)
RetryPublish(t) == belief[t] = "unsure" /\ Publish(t)

Fairness ==
  /\ WF_vars(CallStep)
  /\ \A t \in Targets : SF_vars(RetryPublish(t))

FairSpec == Spec /\ Fairness

-----------------------------------------------------------------------------
(* Properties *)

Top(t) == target[t].mounts[Len(target[t].mounts)]

\* The container behaves towards the node server as NodePublish assumes: a union
\* appears where nothing is mounted, and served from the first; it goes unmounted,
\* or leaves its mount dead behind; so what is checked of NodePublish holds here
\* (Merge and Unmerge against the looks of Publish at the source).
ImplementsNode == Node!Init /\ [][Node!Next]_(Node!vars)

\* Undisturbed, what a consumer was given is there and alive until kubelet
\* unpublishes it: the union, or the directory that an early Publish bound, but never
\* nothing and never a union whose mergerfs has gone.  The detach that stops mergerfs
\* comes later, and a container that fails and starts again does so unmerged.
NeverDeadWhilePublished ==
  regime = {} =>
    \A t \in Targets :
      belief[t] = "published" => target[t].mounts # << >> /\ Top(t) \in served \cup {Plain}

\* The union goes from the source path only when no call is in flight and nothing is
\* bound at any target, also when mergerfs dies, is killed, or starts again on its
\* predecessor's dead mount: so Publish never loses the union between its looks at
\* the source and its bind mount, and binds the plain directory only before the
\* merge.  An eviction does unmount it under a call.
UnionOutlivesConsumers ==
  [][ "evict" \notin regime /\ mounts # 0 /\ mounts' = 0 =>
        /\ call["call"].at = "idle"
        /\ \A t \in Targets : target[t].mounts = << >> ]_vars

\* Once the volume is released nothing of it is left at the node: no process, no
\* bind mount at a target and, if nothing prevented the container's CleanUp, no
\* union at the source, so that the next attachment finds the path free.
ReleasedMeansClean ==
  attachment[Here] = "released" =>
    /\ process = "down"
    /\ \A t \in Targets : target[t].mounts = << >>
    /\ forced = "no" => mounts = 0

\* No other consumer has a trace of the volume.
Only(t) == \A u \in Targets \ {t} : belief[u] \in {"none", "removed"}

\* The plain directory under the union is bound at the target.
PlainAt(t) == \E j \in DOMAIN target[t].mounts : target[t].mounts[j] = Plain

\* Undisturbed, the only consumer of an attached volume eventually gets the union,
\* whatever failed before and although mounts whose answer was lost are in the way
\* of the next call; unless Publish binds the plain directory first, before the
\* merge, which no repetition after the merge repairs ("already mounted by a
\* different device").
PublishCompletes ==
  regime = {} =>
    \A t \in Targets :
      belief[t] = "unsure" /\ Only(t) /\ ~ PlainAt(t)
        ~> \/ belief[t] = "published" /\ target[t].mounts # << >> /\ Top(t) \in served
           \/ belief[t] = "removing" \/ ~ Only(t)
           \/ source = Plain /\ PlainAt(t)
=============================================================================
