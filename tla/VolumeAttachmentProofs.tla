------------------------ MODULE VolumeAttachmentProofs ------------------------
(* What follows from the promises of VolumeAttachment, for any set of nodes. *)
EXTENDS VolumeAttachment, TLAPS

\* A published volume runs where it is published, a released one is not there.
\* TypeOK alone does not carry over a step: that a place is empty before it is
\* taken is what keeps the two apart.
Kept == TypeOK /\ PublishedAtOnePlace /\ ReleasedMeansGone

\* At the start nothing is published or released.
LEMMA InitKept == ASSUME NoNode \notin Nodes PROVE Init => Kept
  BY DEF Init, Kept, TypeOK, PublishedAtOnePlace, ReleasedMeansGone, Stages, Beliefs

\* The CO changes its mind at one node, and nothing moves.
LEMMA BecomesKept ==
  ASSUME Kept, NEW n \in Nodes, NEW b \in Beliefs, Becomes(n, b),
         UNCHANGED <<place, stage>>,
         b = "published" => place = n /\ stage = "running",
         b = "released" => place # n
  PROVE  Kept'
  BY DEF Kept, TypeOK, PublishedAtOnePlace, ReleasedMeansGone, Becomes

\* The volume moves, and the CO does not change its mind.
LEMMA MoveKept ==
  ASSUME NoNode \notin Nodes, Kept, Run \/ Stop \/ Vacate \/ \E n \in Nodes : Occupy(n)
  PROVE  Kept'
  <1>1. CASE \E n \in Nodes : Occupy(n)
    BY <1>1 DEF Occupy, Kept, TypeOK, PublishedAtOnePlace, ReleasedMeansGone, Stages
  <1>2. CASE Run
    BY <1>2 DEF Run, Kept, TypeOK, PublishedAtOnePlace, ReleasedMeansGone, Stages
  <1>3. CASE Stop
    BY <1>3 DEF Stop, Kept, TypeOK, PublishedAtOnePlace, ReleasedMeansGone, Stages
  <1>4. CASE Vacate
    BY <1>4 DEF Vacate, Kept, TypeOK, PublishedAtOnePlace, ReleasedMeansGone, Stages
  <1> QED
    BY <1>1, <1>2, <1>3, <1>4

\* Every step of the abstract attachment keeps Kept.
LEMMA StepKept == ASSUME NoNode \notin Nodes PROVE Kept /\ [Next]_vars => Kept'
  <1> SUFFICES ASSUME Kept, [Next]_vars PROVE Kept'
    OBVIOUS
  <1>1. ASSUME NEW n \in Nodes, Publish(n) PROVE Kept'
    BY <1>1, BecomesKept DEF Publish, Beliefs
  <1>2. ASSUME NEW n \in Nodes, Promise(n) PROVE Kept'
    BY <1>2, BecomesKept DEF Promise, Beliefs
  <1>3. ASSUME NEW n \in Nodes, Withdraw(n) PROVE Kept'
    BY <1>3, BecomesKept DEF Withdraw, Beliefs
  <1>4. ASSUME NEW n \in Nodes, Release(n) PROVE Kept'
    BY <1>4, BecomesKept DEF Release, Beliefs
  <1>5. CASE UNCHANGED vars
    BY <1>5 DEF vars, Kept, TypeOK, PublishedAtOnePlace, ReleasedMeansGone
  <1> QED
    BY <1>1, <1>2, <1>3, <1>4, <1>5, MoveKept DEF Next

\* A volume is published at one node at most, where it runs, and a node it has
\* been released from is free of it (ControllerPublishVolume and
\* ControllerUnpublishVolume as ImplementsVolumeAttachment of Attachment has them).
THEOREM PromisesSuffice ==
  ASSUME NoNode \notin Nodes
  PROVE  Spec => [](PublishedAtOnePlace /\ ReleasedMeansGone)
  <1>1. Kept => PublishedAtOnePlace /\ ReleasedMeansGone
    BY DEF Kept
  <1> QED
    BY <1>1, InitKept, StepKept, PTL DEF Spec
=============================================================================
