------------------------- MODULE GogomergerfsProofs -------------------------
(***************************************************************************)
(* What the container of an attach pod leaves behind, whatever is done to  *)
(* it.                                                                     *)
(***************************************************************************)
EXTENDS Gogomergerfs, TLAPS

Places == [{"main", "exit"} -> BM!Places]

\* Until the merge, a mount is one that an earlier container left behind.
Unmerged == process \in {"down", "boot"} \/ pc["main"] = "run"

\* Nobody calls Stop, and CleanUp only starts when Run has returned.
Inv ==
  /\ mounts \in Nat
  /\ pc \in Places
  /\ pc["main"] # "stopByRequest"
  /\ process = "cleanUp" => pc["main"] = "idle"
  /\ Unmerged /\ mounts > 0 => forced # "no"

\* The state Init describes satisfies the invariant.
LEMMA InvInit == Init => Inv
BY DEF Init, Inv, Unmerged, Places, BM!Init, BM!Goroutines, BM!Places, BM!Blocked

\* However a process dies, a mount that is still there has a reason recorded.
LEMMA InvDies == ASSUME Inv, NEW reason \in {"signal", "kill"}, Dies(reason) PROVE Inv'
<1>1. mounts' = mounts /\ process' = "down"
  BY DEF Dies, Gone
<1>2. pc' \in Places /\ pc'["main"] = "idle"
  BY DEF Dies, Places, BM!Places, BM!Blocked
<1>3. mounts' > 0 => forced' # "no"
  BY DEF Dies, LeftFor
<1> QED
  BY <1>1, <1>2, <1>3 DEF Inv

\* Every step keeps the invariant.  Merge leaves the states it speaks of, and
\* the only ways back are a failed CleanUp and a death.
LEMMA InvNext == Inv /\ [Next]_vars => Inv'
<1> SUFFICES ASSUME Inv, [Next]_vars PROVE Inv'
  OBVIOUS
<1> USE DEF Inv, Unmerged, Places, BM!Places, BM!Blocked, BM!Moves, BM!Locked
<1>1. CASE Start
  BY <1>1 DEF Start, merger
<1>2. CASE MainStep
  <2>1. CASE SetupSignalHandler
    BY <2>1 DEF SetupSignalHandler, BM!StartRun, BM!fields
  <2>2. CASE Merge
    BY <2>2 DEF Merge, BM!Merge
  <2>3. CASE MergeFails
    BY <2>3 DEF MergeFails, BM!MergeFails, BM!fields, Gone
  <2>4. CASE SeeCancelled
    BY <2>4 DEF SeeCancelled, BM!SeeCancelled, BM!fields
  <2>5. CASE RunReturns
    BY <2>5 DEF RunReturns, BM!stopRunning
  <2>6. CASE StartCleanUp
    BY <2>6 DEF StartCleanUp, BM!StartCleanUp, BM!fields
  <2>7. CASE CleanUp
    <3>1. mounts' \in Nat /\ pc' \in Places /\ pc'["main"] # "stopByRequest"
      BY <2>7 DEF CleanUp, BM!Unmerge
    <3>2. process' = "down"
      BY <2>7 DEF CleanUp, Gone
    <3>3. mounts' > 0 => forced' = "busy"
      BY <2>7 DEF CleanUp, LeftFor
    <3> QED
      BY <3>1, <3>2, <3>3
  <2> QED
    BY <1>2, <2>1, <2>2, <2>3, <2>4, <2>5, <2>6, <2>7 DEF MainStep
<1>3. CASE DeletePod
  BY <1>3 DEF DeletePod, merger
<1>4. CASE SendSignal
  <2>1. CASE Dies("signal")
    BY <2>1, InvDies
  <2>2. CASE ~ Dies("signal")
    BY <1>4, <2>2 DEF SendSignal, merger
  <2> QED
    BY <2>1, <2>2
<1>5. CASE FirstSignal
  BY <1>5 DEF FirstSignal, BM!Cancel, BM!fields
<1>6. CASE SecondSignal \/ Kill
  BY <1>6, InvDies DEF SecondSignal, Kill
<1>7. CASE DaemonDies \/ Use
  BY <1>7 DEF DaemonDies, Use, merger
<1>8. CASE UNCHANGED vars
  BY <1>8 DEF vars, merger
<1> QED
  BY <1>1, <1>2, <1>3, <1>4, <1>5, <1>6, <1>7, <1>8 DEF Next

\* A mount is left behind on the host only for a reason: whenever the first
\* signal comes, the process unmounts before it ends (runCommand).
THEOREM MountsNotForgotten == Spec => []LeftBehindOnlyIfForced
<1>1. Inv => LeftBehindOnlyIfForced
  BY DEF Inv, Unmerged, LeftBehindOnlyIfForced
<1> QED
  BY <1>1, InvInit, InvNext, PTL DEF Spec

\* No step fills a channel beyond its capacity or stacks a second mount: Merge
\* finds the target free, and the signal handler takes one signal at most.
LEMMA TypeNext == TypeOK /\ [Next]_vars => TypeOK'
<1> SUFFICES ASSUME TypeOK, [Next]_vars PROVE TypeOK'
  OBVIOUS
<1>a. Gone => /\ process' \in {"down", "boot", "run", "cleanUp"} /\ signals' \in 0 .. 2
              /\ taken' \in 0 .. 1 /\ daemon' \in BOOLEAN /\ inUse' \in BOOLEAN
  <2>1. 0 \in 0 .. 2 /\ 0 \in 0 .. 1
    OBVIOUS
  <2> QED
    BY <2>1, Zenon DEF Gone, TypeOK
<1> USE DEF TypeOK, BM!TypeOK, BM!Places, BM!Blocked, BM!Goroutines, BM!Moves, BM!Locked,
            BM!fields
<1>0. UNCHANGED merger => BM!TypeOK'
  BY DEF merger
<1>1. ASSUME NEW reason \in {"signal", "kill"}, Dies(reason), deleting' = deleting PROVE TypeOK'
  <2>1. forced' \in {"no", "signal", "kill", "busy"}
    BY <1>1 DEF Dies, LeftFor
  <2>2. BM!TypeOK'
    <3>1. /\ mu' = "nobody" /\ running' = FALSE /\ manualStop' = 0 /\ stopped' = 0
          /\ cancelled' = {} /\ mounts' = mounts
          /\ pc' = [g \in {"main", "exit"} |-> "idle"]
      BY <1>1 DEF Dies
    <3>2. 0 \in 0 .. 1 /\ [g \in {"main", "exit"} |-> "idle"] \in [BM!Goroutines -> BM!Places]
      OBVIOUS
    <3> QED
      BY <3>1, <3>2, Zenon
  <2>3. Gone
    BY <1>1 DEF Dies
  <2> QED
    BY <1>1, <1>a, <2>1, <2>2, <2>3 DEF TypeOK
<1>2. CASE Start \/ DeletePod \/ DaemonDies \/ Use
  BY <1>0, <1>2 DEF Start, DeletePod, DaemonDies, Use, handler, filesystem
<1>3. CASE SetupSignalHandler
  BY <1>3 DEF SetupSignalHandler, BM!StartRun, handler, filesystem
<1>4. CASE Merge
  <2>1. mounts' \in 0 .. 1
    BY <1>4 DEF Merge, BM!Merge
  <2> QED
    BY <1>4, <2>1 DEF Merge, BM!Merge, handler
<1>5. CASE MergeFails
  <2>1. BM!TypeOK' /\ Gone /\ UNCHANGED <<deleting, forced>>
    BY <1>5 DEF MergeFails, BM!MergeFails
  <2> QED
    BY <1>a, <2>1
<1>6. CASE SeeCancelled
  BY <1>6 DEF SeeCancelled, BM!SeeCancelled, handler, filesystem
<1>7. CASE RunReturns
  BY <1>7 DEF RunReturns, BM!stopRunning, handler, filesystem
<1>8. CASE StartCleanUp
  BY <1>8 DEF StartCleanUp, BM!StartCleanUp, handler, filesystem
<1>9. CASE CleanUp
  <2>1. mounts' \in 0 .. 1
    BY <1>9 DEF CleanUp, BM!Unmerge
  <2>2. forced' \in {"no", "signal", "kill", "busy"}
    BY <1>9 DEF CleanUp, LeftFor
  <2>3. BM!TypeOK' /\ Gone /\ UNCHANGED deleting
    BY <1>9, <2>1 DEF CleanUp, BM!Unmerge
  <2> QED
    BY <1>a, <2>2, <2>3
<1>10. CASE SendSignal
  <2>1. CASE Dies("signal")
    BY <1>1, <1>10, <2>1 DEF SendSignal
  <2>2. CASE ~ Dies("signal")
    <3>1. signals' \in 0 .. 2
      BY <1>10, <2>2 DEF SendSignal
    <3> QED
      BY <1>0, <1>10, <2>2, <3>1 DEF SendSignal, filesystem
  <2> QED
    BY <2>1, <2>2
<1>11. CASE FirstSignal
  <2>1. signals' \in 0 .. 2 /\ taken' = 1
    BY <1>11 DEF FirstSignal
  <2> QED
    BY <1>11, <2>1 DEF FirstSignal, BM!Cancel, filesystem
<1>12. CASE SecondSignal \/ Kill
  BY <1>1, <1>12 DEF SecondSignal, Kill
<1>13. CASE UNCHANGED vars
  BY <1>0, <1>13 DEF vars, handler, filesystem
<1> QED
  BY <1>2, <1>3, <1>4, <1>5, <1>6, <1>7, <1>8, <1>9, <1>10, <1>11, <1>12, <1>13
  DEF Next, MainStep

\* The process starts with its types.
LEMMA TypeInit == Init => TypeOK
<1> SUFFICES ASSUME Init PROVE TypeOK
  OBVIOUS
<1>1. 0 \in 0 .. 1 /\ 0 \in 0 .. 2
  OBVIOUS
<1>2. pc \in [BM!Goroutines -> BM!Places]
  BY DEF Init, BM!Init, BM!Goroutines, BM!Places
<1>3. BM!TypeOK
  BY <1>1, <1>2, Zenon DEF Init, BM!Init, BM!TypeOK
<1> QED
  BY <1>1, <1>3, Zenon DEF Init, TypeOK

\* The merger of the container keeps to its types, and the channel of
\* SetupSignalHandler to its capacity, across any number of deaths.
THEOREM ContainerTypes == Spec => []TypeOK
BY TypeInit, TypeNext, PTL DEF Spec
=============================================================================
