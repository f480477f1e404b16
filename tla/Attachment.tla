----------------------------- MODULE Attachment -----------------------------
(***************************************************************************)
(* ControllerPublishVolume and ControllerUnpublishVolume of the Union CSI  *)
(* controller, for one volume.                                             *)
(*                                                                         *)
(* A volume is attached to a node by an attach pod that runs there.  Its   *)
(* name depends on the volume only, so there is one attach pod at a time.  *)
(* Publish creates it if need be and polls the informer's cache until it   *)
(* runs; Unpublish deletes it and polls until it is gone.  The cache       *)
(* trails the API server; requests may fail with or without effect; a      *)
(* deadline may end a wait; the controller may crash.  Scheduler, kubelet  *)
(* and the container orchestrator (CO) are the environment.                *)
(***************************************************************************)
EXTENDS Naturals, Sequences, FiniteSets

CONSTANTS
  Calls,     \* the goroutines that can serve a call at the same time
  Nodes,     \* the node ids the CO can ask for
  NoNode,    \* an idle call is about no node
  NoPod,     \* there is no attach pod
  MaxPolls,  \* attempts of a wait (Steps of the backoff)
  Settings   \* the environments to consider, see below

(***************************************************************************)
(* What the calls may meet:                                                *)
(*   calls    the goroutines the CO keeps busy with the volume; CSI asks   *)
(*            for one, but allows for more                                 *)
(*   prompt   calls start further apart than the watch trails              *)
(*   unsure   the CO also unpublishes after a failed Publish               *)
(*   evicting others end or delete the attach pod                          *)
(*   leaving  nodes leave the cluster, the volume is deleted               *)
(*   lag      bound: pod events the informer has yet to see                *)
(*   faults   bound: failed requests, expired deadlines, crashes           *)
(***************************************************************************)
Environments == [calls    : SUBSET Calls,
                 prompt   : BOOLEAN,
                 unsure   : BOOLEAN,
                 evicting : BOOLEAN,
                 leaving  : BOOLEAN,
                 lag      : Nat,
                 faults   : Nat]

ASSUME BoundsAssumption == MaxPolls \in Nat \ {0}

ASSUME SettingsAssumption == Settings \subseteq Environments

\* node is where the selector sends the pod; it is there unless "Pending".
\* "Ended" stands for the phases Succeeded and Failed.
Pods == [node     : Nodes,
         phase    : {"Pending", "Scheduled", "Running", "Ended"},
         deleting : BOOLEAN]

ASSUME NoPodAssumption == NoPod \notin Pods

ASSUME NoNodeAssumption == NoNode \notin Nodes

VARIABLES
  pod,        \* the API server's attach pod
  podCache,   \* the informer's
  podEvents,  \* watch events on their way to the informer, oldest first
  split,      \* whether the VolumeSplit exists
  nodes,      \* the nodes there are
  setting,    \* the environment of this behaviour
  call,       \* the calls being served
  belief,     \* what the CO believes of the volume at each node
  faults      \* failed requests, expired deadlines and crashes so far

watch == <<podCache, podEvents>>
cluster == <<split, nodes, setting>>
vars == <<pod, watch, cluster, call, belief, faults>>

Steps == {"idle", "getSplit", "getNode", "attach", "createPod", "pollAttach",
          "detach", "deletePod", "pollDetach", "replied"}
Codes == {"none", "OK", "Internal", "NotFound", "FailedPrecondition"}
Beliefs == {"none", "unsure", "published", "detaching", "released"}

\* publish tells the two calls apart.
Call == [at      : Steps,
         publish : BOOLEAN,
         node    : Nodes \cup {NoNode},
         polls   : 0 .. MaxPolls - 1,
         code    : Codes]

Idle == [at |-> "idle", publish |-> FALSE, node |-> NoNode, polls |-> 0, code |-> "none"]

\* Every variable keeps its type, the informer's backlog and the polls of a
\* wait their bound (hazard: a wait that polls once too often).
TypeOK ==
  /\ pod \in Pods \cup {NoPod}
  /\ podCache \in Pods \cup {NoPod}
  /\ podEvents \in Seq(Pods \cup {NoPod})
  /\ Len(podEvents) <= setting.lag
  /\ split \in BOOLEAN
  /\ nodes \subseteq Nodes
  /\ setting \in Settings
  /\ call \in [Calls -> Call]
  /\ belief \in [Nodes -> Beliefs]
  /\ faults \in 0 .. setting.faults

\* The informer is in sync before the server starts to serve.
Init ==
  /\ pod = NoPod
  /\ podCache = NoPod
  /\ podEvents = << >>
  /\ split = TRUE
  /\ nodes = Nodes
  /\ setting \in Settings
  /\ call = [c \in Calls |-> Idle]
  /\ belief = [n \in Nodes |-> "none"]
  /\ faults = 0

-----------------------------------------------------------------------------
(* Requests, replies and the watch *)

Answered == UNCHANGED faults

Fault == faults < setting.faults /\ faults' = faults + 1

Becomes(c, state) == call' = [call EXCEPT ![c] = state]

Goto(c, step) == Becomes(c, [call[c] EXCEPT !.at = step])

Reply(c, code) == Becomes(c, [call[c] EXCEPT !.at = "replied", !.code = code])

\* The server stores p and tells its watchers.
SetPod(p) ==
  /\ Len(podEvents) < setting.lag
  /\ pod' = p
  /\ podEvents' = Append(podEvents, p)
  /\ UNCHANGED podCache

SamePod == UNCHANGED <<pod, watch>>

\* Mutant of KeepPolling: attempts are not counted.
KeepPollingUncounted(c) == UNCHANGED call

\* Mutant of KeepPolling: attempts are counted but not limited.
KeepPollingUnbounded(c) == Becomes(c, [call[c] EXCEPT !.polls = @ + 1])

\* Mutant of KeepPolling: a wait that ran out of polls counts as successful.
KeepPollingToOK(c) ==
  IF call[c].polls + 1 < MaxPolls
  THEN Becomes(c, [call[c] EXCEPT !.polls = @ + 1])
  ELSE Reply(c, "OK")

\* The condition of a wait does not hold yet: poll again, or give up.
KeepPolling(c) ==
  IF call[c].polls + 1 < MaxPolls
  THEN Becomes(c, [call[c] EXCEPT !.polls = @ + 1])
  ELSE Reply(c, "Internal")

\* A new attach pod, with the selector that sends it to n.
Build(n) == [node |-> n, phase |-> "Pending", deleting |-> FALSE]

\* Spec.NodeName is n.
AssignedTo(p, n) == p.phase # "Pending" /\ p.node = n

isPodTerminating(p) == p.phase = "Ended"

isPodRunning(p) == p.phase = "Running"

-----------------------------------------------------------------------------
(* The CO starts a call *)

Start(c, publish, n) ==
  /\ c \in setting.calls
  /\ call[c] = Idle
  /\ setting.prompt => podEvents = << >>
  /\ Becomes(c, [Idle EXCEPT !.at = "getSplit", !.publish = publish, !.node = n])
  /\ UNCHANGED <<pod, watch, cluster, faults>>

\* A node it is being detached from has to be detached first.
StartPublish(c, n) ==
  /\ belief[n] # "detaching"
  /\ Start(c, TRUE, n)
  /\ belief' = [belief EXCEPT ![n] = IF @ = "published" THEN @ ELSE "unsure"]

StartUnpublish(c, n) ==
  /\ \/ belief[n] \in {"published", "detaching"}
     \/ setting.unsure /\ belief[n] = "unsure"
  /\ Start(c, FALSE, n)
  /\ belief' = [belief EXCEPT ![n] = "detaching"]

(* AttachLower and DetachLower begin alike *)

GetSplit(c) ==
  /\ call[c].at = "getSplit"
  /\ \/ Answered /\ split /\ Goto(c, "getNode")
     \/ Answered /\ ~ split /\ Reply(c, "NotFound")
     \/ Fault /\ Reply(c, "Internal")
  /\ UNCHANGED <<pod, watch, cluster, belief>>

GetNode(c) ==
  /\ call[c].at = "getNode"
  /\ IF call[c].node \in nodes
     THEN Goto(c, IF call[c].publish THEN "attach" ELSE "detach")
     ELSE Reply(c, "NotFound")
  /\ UNCHANGED <<pod, watch, cluster, belief, faults>>

-----------------------------------------------------------------------------
(* Attach *)

Attach(c) ==
  /\ call[c].at = "attach"
  /\ Goto(c, IF podCache = NoPod THEN "createPod" ELSE "pollAttach")
  /\ UNCHANGED <<pod, watch, cluster, belief, faults>>

CreatePod(c) ==
  /\ call[c].at = "createPod"
  /\ LET Stored == /\ pod = NoPod
                   /\ SetPod(Build(call[c].node))
     IN
     \/ Answered /\ Stored /\ Goto(c, "pollAttach")
     \/ Answered /\ pod # NoPod /\ SamePod /\ Goto(c, "pollAttach")
     \/ Fault /\ (Stored \/ SamePod) /\ Reply(c, "Internal")
  /\ UNCHANGED <<cluster, belief>>

\* Mutant of PollAttach: the node the pod runs on is not compared.
PollAttachAnyNode(c) ==
  /\ call[c].at = "pollAttach"
  /\ IF podCache # NoPod /\ isPodRunning(podCache)
     THEN Reply(c, "OK")
     ELSE KeepPolling(c)
  /\ UNCHANGED <<pod, watch, cluster, belief, faults>>

\* One attempt of waitForAttach.  A deletion timestamp is not looked at.
PollAttach(c) ==
  /\ call[c].at = "pollAttach"
  /\ \/ /\ Answered
        /\ \/ podCache = NoPod /\ KeepPolling(c)
           \/ /\ podCache # NoPod
              /\ \/ isPodTerminating(podCache) /\ Reply(c, "Internal")
                 \/ /\ ~ isPodTerminating(podCache)
                    /\ ~ isPodRunning(podCache)
                    /\ KeepPolling(c)
                 \/ /\ isPodRunning(podCache)
                    /\ Reply(c, IF podCache.node = call[c].node
                                THEN "OK" ELSE "FailedPrecondition")
     \/ Fault /\ Reply(c, "Internal")
  /\ UNCHANGED <<pod, watch, cluster, belief>>

-----------------------------------------------------------------------------
(* Detach; an attachment that is not found is answered OK *)

\* Mutant of Detach: the pod of another node is deleted as well.
DetachAnyNode(c) ==
  /\ call[c].at = "detach"
  /\ IF podCache # NoPod
     THEN Goto(c, IF podCache.deleting THEN "pollDetach" ELSE "deletePod")
     ELSE Reply(c, "OK")
  /\ UNCHANGED <<pod, watch, cluster, belief, faults>>

\* Mutant of Detach: deletion timestamp tested the wrong way round.
DetachInverted(c) ==
  /\ call[c].at = "detach"
  /\ IF podCache # NoPod /\ AssignedTo(podCache, call[c].node)
     THEN Goto(c, IF podCache.deleting THEN "deletePod" ELSE "pollDetach")
     ELSE Reply(c, "OK")
  /\ UNCHANGED <<pod, watch, cluster, belief, faults>>

Detach(c) ==
  /\ call[c].at = "detach"
  /\ IF podCache # NoPod /\ AssignedTo(podCache, call[c].node)
     THEN Goto(c, IF podCache.deleting THEN "pollDetach" ELSE "deletePod")
     ELSE Reply(c, "OK")
  /\ UNCHANGED <<pod, watch, cluster, belief, faults>>

\* What deleting the pod by its name does: a pod that is on no node goes at
\* once, another is marked for its kubelet.
MarkDeleted ==
  \/ pod.phase = "Pending" /\ SetPod(NoPod)
  \/ /\ pod.phase # "Pending"
     /\ ~ pod.deleting
     /\ SetPod([pod EXCEPT !.deleting = TRUE])
  \/ pod.deleting /\ SamePod

DeletePod(c) ==
  /\ call[c].at = "deletePod"
  /\ \/ Answered /\ pod = NoPod /\ SamePod /\ Reply(c, "OK")
     \/ Answered /\ pod # NoPod /\ MarkDeleted /\ Goto(c, "pollDetach")
     \/ /\ Fault
        /\ SamePod \/ (pod # NoPod /\ MarkDeleted)
        /\ Reply(c, "Internal")
  /\ UNCHANGED <<cluster, belief>>

\* Mutant of PollDetach: it is enough to have asked for the deletion.
PollDetachAtOnce(c) ==
  /\ call[c].at = "pollDetach"
  /\ Reply(c, "OK")
  /\ UNCHANGED <<pod, watch, cluster, belief, faults>>

\* One attempt of waitForDetach.
PollDetach(c) ==
  /\ call[c].at = "pollDetach"
  /\ \/ /\ Answered
        /\ IF podCache # NoPod /\ AssignedTo(podCache, call[c].node)
           THEN KeepPolling(c)
           ELSE Reply(c, "OK")
     \/ Fault /\ Reply(c, "Internal")
  /\ UNCHANGED <<pod, watch, cluster, belief>>

-----------------------------------------------------------------------------
(* The reply reaches the CO; the rest of the cluster; crashes *)

Return(c) ==
  /\ call[c].at = "replied"
  /\ LET n  == call[c].node
         ok == call[c].code = "OK"
     IN belief' =
          IF ok /\ call[c].publish /\ belief[n] # "detaching"
          THEN [belief EXCEPT ![n] = "published"]
          ELSE IF ok /\ ~ call[c].publish /\ belief[n] = "detaching"
          THEN [belief EXCEPT ![n] = "released"]
          ELSE belief
  /\ Becomes(c, Idle)
  /\ UNCHANGED <<pod, watch, cluster, faults>>

\* Scheduler and kubelet take the pod to Running, unless it is being deleted.
Advance ==
  /\ pod # NoPod
  /\ ~ pod.deleting
  /\ pod.node \in nodes
  /\ \/ pod.phase = "Pending" /\ SetPod([pod EXCEPT !.phase = "Scheduled"])
     \/ pod.phase = "Scheduled" /\ SetPod([pod EXCEPT !.phase = "Running"])
  /\ UNCHANGED <<cluster, call, belief, faults>>

\* The kubelet is done with a deleted pod, or its node is gone for good.
RemovePod ==
  /\ pod # NoPod
  /\ \/ pod.deleting
     \/ pod.phase # "Pending" /\ pod.node \notin nodes
  /\ SetPod(NoPod)
  /\ UNCHANGED <<cluster, call, belief, faults>>

\* A node drain deletes the pod; node pressure ends it.
Evict ==
  /\ setting.evicting
  /\ pod # NoPod
  /\ ~ pod.deleting
  /\ \/ MarkDeleted
     \/ /\ pod.phase \in {"Scheduled", "Running"}
        /\ SetPod([pod EXCEPT !.phase = "Ended"])
  /\ UNCHANGED <<cluster, call, belief, faults>>

LoseNode(n) ==
  /\ setting.leaving
  /\ nodes' = nodes \ {n}
  /\ UNCHANGED <<pod, watch, split, setting, call, belief, faults>>

\* DeleteVolume, which the CO calls when it believes the volume is nowhere.
LoseSplit ==
  /\ setting.leaving
  /\ \A n \in Nodes : belief[n] \in {"none", "released"}
  /\ split' = FALSE
  /\ UNCHANGED <<pod, watch, nodes, setting, call, belief, faults>>

Deliver ==
  /\ podEvents # << >>
  /\ podCache' = Head(podEvents)
  /\ podEvents' = Tail(podEvents)
  /\ UNCHANGED <<pod, cluster, call, belief, faults>>

\* The controller restarts: calls are lost, the informer lists the pods anew.
Crash ==
  /\ Fault
  /\ call' = [c \in Calls |-> Idle]
  /\ podCache' = pod
  /\ podEvents' = << >>
  /\ UNCHANGED <<pod, cluster, belief>>

-----------------------------------------------------------------------------

CallStep(c) ==
  \/ GetSplit(c) \/ GetNode(c)
  \/ Attach(c) \/ CreatePod(c) \/ PollAttach(c)
  \/ Detach(c) \/ DeletePod(c) \/ PollDetach(c)
  \/ Return(c)

Next ==
  \/ \E c \in Calls, n \in Nodes : StartPublish(c, n) \/ StartUnpublish(c, n)
  \/ \E c \in Calls : CallStep(c)
  \/ Advance
  \/ RemovePod
  \/ Evict
  \/ \E n \in Nodes : LoseNode(n)
  \/ LoseSplit
  \/ Deliver
  \/ Crash

Spec == Init /\ [][Next]_vars

(***************************************************************************)
(* Goroutines run, the watch delivers, kubelets finish deleted pods, and   *)
(* the external-attacher repeats ControllerUnpublishVolume until it is     *)
(* answered OK.  Nothing obliges the scheduler to find room for a pod.     *)
(* (Strong fairness, because the bound on the lag holds requests back.)    *)
(***************************************************************************)
RetryUnpublish(n) ==
  belief[n] = "detaching" /\ \E c \in Calls : StartUnpublish(c, n)

Fairness ==
  /\ \A c \in Calls : SF_vars(CallStep(c))
  /\ \A n \in Nodes : SF_vars(RetryUnpublish(n))
  /\ WF_vars(Deliver)
  /\ SF_vars(RemovePod)

FairSpec == Spec /\ Fairness

-----------------------------------------------------------------------------
(* Properties *)

\* The CO has one call in flight at a time.
Serial == \A c, d \in setting.calls : c = d

\* Nobody but the controller ends the attach pod.
Undisturbed == ~ setting.evicting /\ ~ setting.leaving

\* Unpublish for a node never deletes the attach pod of another node, although
\* it decides on a cached pod and deletes by name whatever pod is there by then:
\* with one call at a time it suffices that either the cache has caught up
\* before each call, or nobody else takes pods away (Detach).
OnlyOwnPodDeleted ==
  [][\A c \in Calls :
       /\ Serial
       /\ setting.prompt \/ Undisturbed
       /\ call[c].at = "deletePod"
       /\ call'[c] # call[c]
       /\ pod' # pod
       => AssignedTo(pod, call[c].node)]_vars

\* As long as the CO believes the volume published at a node, the attach pod
\* runs there and is not on its way out, whatever is asked for other nodes
\* meanwhile; so it is published at one node at most (Attach, Detach).
PublishedMeansAttached ==
  Serial /\ setting.prompt /\ Undisturbed =>
    \A n \in Nodes :
      belief[n] = "published" =>
        /\ pod # NoPod
        /\ pod.node = n
        /\ isPodRunning(pod)
        /\ ~ pod.deleting

\* Once Unpublish is answered OK for a node no attach pod is left there, nor one
\* that may yet get there (DetachLower's table: OK means "not attached at node").
DetachedMeansGone ==
  Serial /\ setting.prompt /\ ~ setting.unsure /\ Undisturbed =>
    \A n \in Nodes : belief[n] = "released" => pod = NoPod \/ pod.node # n

\* The CO sends one call at a time, not before the cache has caught up, and does
\* not unpublish what it was never told to be published; nobody else ends pods.
Contract ==
  Serial /\ setting.prompt /\ ~ setting.unsure /\ Undisturbed

VA == INSTANCE VolumeAttachment WITH
  place <- IF pod = NoPod THEN NoNode ELSE pod.node,
  stage <- IF pod = NoPod THEN "none"
           ELSE IF pod.deleting THEN "stopping"
           ELSE IF pod.phase = "Running" THEN "running" ELSE "starting"

\* Under that contract the two calls keep the promises of VolumeAttachment, step
\* by step: whatever a failed request, a deadline or a crash leaves behind, the
\* volume comes and goes only on the CO's word, and the CO is told the truth.
ImplementsVolumeAttachment ==
  (Contract => VA!Init) /\ [][Contract => VA!Next]_(VA!vars)

\* Every call is answered, be there a node with room for the pod or not
\* (waitForAttach and waitForDetach poll a bounded number of times).
CallsAnswered == \A c \in Calls : call[c].at # "idle" ~> call[c].at = "idle"

\* A CO that keeps calling Unpublish for a node that stays is eventually answered
\* OK, whatever earlier attempts had done when they failed (Detach is idempotent).
DetachCompletes ==
  ~ setting.leaving =>
    \A n \in Nodes : belief[n] = "detaching" ~> belief[n] = "released"
=============================================================================
