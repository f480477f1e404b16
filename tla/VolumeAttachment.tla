--------------------------- MODULE VolumeAttachment ---------------------------
(***************************************************************************)
(* What ControllerPublishVolume and ControllerUnpublishVolume promise to a *)
(* container orchestrator (CO) that keeps its side of the CSI contract and *)
(* whose cluster leaves attach pods alone: a volume takes one place at a   *)
(* time, the CO is told so only once the union runs there, the place is    *)
(* given up only after the CO has asked for it, and the CO is told so only *)
(* once nothing of the volume is left there.                               *)
(***************************************************************************)
CONSTANTS Nodes, NoNode

VARIABLES
  place,   \* the node the volume is at or on its way to, or NoNode
  stage,   \* what the union does there
  belief   \* what the CO believes of the volume at each node

vars == <<place, stage, belief>>

Stages == {"none", "starting", "running", "stopping"}
Beliefs == {"none", "unsure", "published", "detaching", "released"}

TypeOK ==
  /\ place \in Nodes \cup {NoNode}
  /\ stage \in Stages
  /\ belief \in [Nodes -> Beliefs]
  /\ place = NoNode <=> stage = "none"

Init ==
  /\ place = NoNode
  /\ stage = "none"
  /\ belief = [n \in Nodes |-> "none"]

-----------------------------------------------------------------------------

Becomes(n, b) == belief' = [belief EXCEPT ![n] = b]

\* The CO asks for the volume at a node.
Publish(n) ==
  /\ belief[n] \in {"none", "unsure", "released"}
  /\ Becomes(n, "unsure")
  /\ UNCHANGED <<place, stage>>

\* The volume takes the place; somebody must have asked for it.
Occupy(n) ==
  /\ place = NoNode
  /\ belief[n] = "unsure"
  /\ place' = n
  /\ stage' = "starting"
  /\ UNCHANGED belief

Run ==
  /\ stage = "starting"
  /\ stage' = "running"
  /\ UNCHANGED <<place, belief>>

\* The CO is told that the volume is there.
Promise(n) ==
  /\ place = n
  /\ stage = "running"
  /\ belief[n] = "unsure"
  /\ Becomes(n, "published")
  /\ UNCHANGED <<place, stage>>

\* The CO gives the volume up at a node.
Withdraw(n) ==
  /\ belief[n] = "published"
  /\ Becomes(n, "detaching")
  /\ UNCHANGED <<place, stage>>

Stop ==
  /\ stage \in {"starting", "running"}
  /\ belief[place] = "detaching"
  /\ stage' = "stopping"
  /\ UNCHANGED <<place, belief>>

Vacate ==
  /\ stage = "stopping"
  /\ place' = NoNode
  /\ stage' = "none"
  /\ UNCHANGED belief

\* The CO is told that nothing of the volume is left at a node.
Release(n) ==
  /\ belief[n] = "detaching"
  /\ place # n
  /\ Becomes(n, "released")
  /\ UNCHANGED <<place, stage>>

Next ==
  \/ \E n \in Nodes : Publish(n) \/ Occupy(n) \/ Promise(n) \/ Withdraw(n) \/ Release(n)
  \/ Run
  \/ Stop
  \/ Vacate

Spec == Init /\ [][Next]_vars

-----------------------------------------------------------------------------
(* What follows from the promises *)

\* The volume is published at one node at most, and runs there.
PublishedAtOnePlace ==
  \A n \in Nodes : belief[n] = "published" => place = n /\ stage = "running"

\* Where the volume has been released it is not, nor on its way there.
ReleasedMeansGone == \A n \in Nodes : belief[n] = "released" => place # n
=============================================================================
