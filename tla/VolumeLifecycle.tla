--------------------------- MODULE VolumeLifecycle ---------------------------
(***************************************************************************)
(* What CreateVolume and DeleteVolume promise of a volume, whatever they   *)
(* store and in whichever order: a volume is built up, it is promised only *)
(* when complete, it does not change while promised, and once given up it  *)
(* is only ever taken down, until nothing of it is left.                   *)
(***************************************************************************)
EXTENDS Naturals

CONSTANTS
  Volumes,
  Parts      \* what a complete volume consists of

VARIABLES
  parts,     \* the parts of each volume that exist
  promised,  \* volumes the CO was told exist
  retired    \* volumes the CO has given up

vars == <<parts, promised, retired>>

Init ==
  /\ parts = [v \in Volumes |-> {}]
  /\ promised = {}
  /\ retired = {}

Build(v) ==
  /\ v \notin retired
  /\ \E p \in Parts \ parts[v] : parts' = [parts EXCEPT ![v] = @ \cup {p}]
  /\ UNCHANGED <<promised, retired>>

Promise(v) ==
  /\ v \notin retired
  /\ parts[v] = Parts
  /\ promised' = promised \cup {v}
  /\ UNCHANGED <<parts, retired>>

Retire(v) ==
  /\ promised' = promised \ {v}
  /\ retired' = retired \cup {v}
  /\ UNCHANGED parts

TakeDown(v) ==
  /\ v \in retired
  /\ \E p \in parts[v] : parts' = [parts EXCEPT ![v] = @ \ {p}]
  /\ UNCHANGED <<promised, retired>>

Next == \E v \in Volumes : Build(v) \/ Promise(v) \/ Retire(v) \/ TakeDown(v)

\* A volume that was given up is taken down to the last part.
Fairness == \A v \in Volumes : WF_vars(TakeDown(v))

Spec == Init /\ [][Next]_vars /\ Fairness
=============================================================================
