-------------------------- MODULE UnionVolumeProofs --------------------------
(***************************************************************************)
(* One volume on one node, from attach to detach, for any number of        *)
(* targets, mounts of mergerfs and faults.  The container behaves towards  *)
(* the node server as NodePublish assumes, so that what is proved of       *)
(* NodePublish holds here; the orchestrator's order of calls does the rest.*)
(***************************************************************************)
EXTENDS UnionVolume, SequenceTheorems, TLAPS

NP == INSTANCE NodePublishProofs WITH
  Calls    <- {"call"},
  Settings <- {Environment(MaxFaults)},
  setting  <- Environment(MaxFaults)

PP == INSTANCE GogomergerfsProofs WITH Faults <- TRUE, Resends <- FALSE

(* What the container's process has come to *)

\* The main goroutine is past the merge, or it is the container of a pod that is
\* being deleted that comes to its end: a pod merges once at most.
PodInv ==
  /\ process \in {"down", "boot", "cleanUp"} => pc["main"] = "idle"
  /\ process = "down" => signals = 0 /\ taken = 0
  /\ process # "down" => stage # "none" /\ sourceDir
  /\ signals # 0 \/ taken # 0 \/ pc["main"] = "stopByContext" \/ process = "cleanUp" => deleting
  /\ process = "run" /\ cancelled # {} => deleting
  /\ mounts # 0 => started # 0
  /\ stage # "none" /\ mounts = 0 /\ (~ deleting \/ process = "boot" \/ pc["main"] = "run") =>
       started < MaxUnions

(* The order that the orchestrator keeps *)

\* A volume that nobody was told is published no consumer has a trace of.
OrderInv ==
  /\ deleting <=> stage = "stopping"
  /\ VA!ReleasedMeansGone
  /\ "evict" \notin regime => VA!PublishedAtOnePlace
  /\ attachment[Here] # "published" => \A t \in Targets : belief[t] \in {"none", "removed"}

\* Nothing is mounted at a target that was never asked for.
UntouchedInv == \A t \in Targets : belief[t] = "none" => target[t].mounts = << >>

\* Undisturbed, a union that is there is served, and nothing but it and the plain
\* directory is mounted at a target.
CalmInv ==
  regime = {} =>
    /\ ~ inUse
    /\ mounts # 0 => daemon /\ (process = "cleanUp" \/ pc["main"] \in {"select", "stopByContext"})
    /\ \A t \in Targets : \A u : NP!MountedAt(u, t) => u \in served \cup {Plain}

PartsInv ==
  /\ PP!TypeOK /\ PP!Inv
  /\ VA!TypeOK
  /\ NP!Inv
  /\ daemon => mounts = 1
  /\ regime \in Regimes

Inv ==
  /\ PartsInv
  /\ PodInv
  /\ OrderInv
  /\ UntouchedInv
  /\ CalmInv

-----------------------------------------------------------------------------
(* The parts, as UnionVolume and as the proofs about them name them *)

\* The constants are as NodePublish assumes.
LEMMA NodeAssumptions ==
  /\ MaxUnions \in Nat
  /\ {Environment(MaxFaults)} \subseteq NP!Environments
  /\ Plain \notin NP!Unions
  /\ NoTarget \notin Targets
<1>1. MaxUnions \in Nat /\ MaxFaults \in Nat /\ NoTarget \notin Targets
  BY VolumeBoundsAssumption, NullsAssumption
<1>2. MaxUnions \in 0 .. MaxUnions /\ 0 \notin 1 .. MaxUnions
  BY <1>1
<1> QED
  BY <1>1, <1>2 DEF NP!Environments, NP!Unions, Plain, Environment

\* NP is another name of Node.
LEMMA SameNode ==
  /\ Node!Init <=> NP!Init
  /\ Node!vars = NP!vars
  /\ Node!CallStep("call") <=> NP!CallStep("call")
  /\ \A t : /\ Node!StartPublish("call", t) <=> NP!StartPublish("call", t)
            /\ Node!StartUnpublish("call", t) <=> NP!StartUnpublish("call", t)
  /\ Node!MakeSourceDir <=> NP!MakeSourceDir
  /\ Node!Serve <=> NP!Serve
  /\ Node!StopServing <=> NP!StopServing
  /\ Node!Crash <=> NP!Crash
  /\ Node!Next <=> NP!Next
  /\ Node!TypeOK <=> NP!TypeOK
  BY DEF Node!Init, NP!Init, Node!Next, NP!Next, Node!vars, NP!vars, Node!TypeOK, NP!TypeOK,
      Node!Unions, NP!Unions, Node!Steps, NP!Steps, Node!Call, NP!Call, Node!Beliefs,
      NP!Beliefs, Node!CallStep, NP!CallStep, Node!CheckSource, NP!CheckSource, Node!GetRefs,
      NP!GetRefs, Node!CheckTarget, NP!CheckTarget, Node!MakeDir, NP!MakeDir, Node!Mount,
      NP!Mount, Node!CleanUp, NP!CleanUp, Node!Umount, NP!Umount, Node!RemoveDir, NP!RemoveDir,
      Node!Return, NP!Return, Node!StartPublish, NP!StartPublish, Node!StartUnpublish,
      NP!StartUnpublish, Node!Start, NP!Start, Node!MakeSourceDir, NP!MakeSourceDir, Node!Serve,
      NP!Serve, Node!StopServing, NP!StopServing, Node!Crash, NP!Crash, Node!attached,
      NP!attached, Node!Works, NP!Works, Node!Fault, NP!Fault, Node!Becomes, NP!Becomes,
      Node!Goto, NP!Goto, Node!Reply, NP!Reply, Node!Fails, NP!Fails, Node!Dead, NP!Dead,
      Node!GetMountRefs, NP!GetMountRefs, Node!SetTarget, NP!SetTarget, Node!Idle, NP!Idle

\* PP is another name of Pod.
LEMMA SamePod ==
  /\ Pod!Init <=> PP!Init
  /\ Pod!Next <=> PP!Next
  /\ Pod!vars = PP!vars
  /\ Pod!TypeOK <=> PP!TypeOK
  BY DEF Pod!Init, PP!Init, Pod!Next, PP!Next, Pod!vars, PP!vars, Pod!TypeOK, PP!TypeOK,
    Pod!merger, PP!merger, Pod!handler, PP!handler, Pod!filesystem, PP!filesystem, Pod!Start,
    PP!Start, Pod!Gone, PP!Gone, Pod!LeftFor, PP!LeftFor, Pod!Dies, PP!Dies,
    Pod!SetupSignalHandler, PP!SetupSignalHandler, Pod!Merge, PP!Merge, Pod!MergeFails,
    PP!MergeFails, Pod!SeeCancelled, PP!SeeCancelled, Pod!RunReturns, PP!RunReturns,
    Pod!StartCleanUp, PP!StartCleanUp, Pod!CleanUp, PP!CleanUp, Pod!DeletePod, PP!DeletePod,
    Pod!SendSignal, PP!SendSignal, Pod!FirstSignal, PP!FirstSignal, Pod!SecondSignal,
    PP!SecondSignal, Pod!Kill, PP!Kill, Pod!DaemonDies, PP!DaemonDies, Pod!Use, PP!Use,
    Pod!MainStep, PP!MainStep, Pod!BM!Init, PP!BM!Init, Pod!BM!TypeOK, PP!BM!TypeOK,
    Pod!BM!fields, PP!BM!fields, Pod!BM!Moves, PP!BM!Moves, Pod!BM!Locked, PP!BM!Locked,
    Pod!BM!StartRun, PP!BM!StartRun, Pod!BM!Cancel, PP!BM!Cancel, Pod!BM!Merge, PP!BM!Merge,
    Pod!BM!MergeFails, PP!BM!MergeFails, Pod!BM!SeeCancelled, PP!BM!SeeCancelled,
    Pod!BM!stopRunning, PP!BM!stopRunning, Pod!BM!StartCleanUp, PP!BM!StartCleanUp,
    Pod!BM!Unmerge, PP!BM!Unmerge, Pod!BM!Goroutines, PP!BM!Goroutines, Pod!BM!Places,
    PP!BM!Places, Pod!BM!Blocked, PP!BM!Blocked

-----------------------------------------------------------------------------
(* The container *)

\* However a container ends, its goroutines and mergerfs end with it.
LEMMA Ends ==
  ASSUME PP!TypeOK
  PROVE  /\ Pod!Gone => process' = "down" /\ signals' = 0 /\ taken' = 0 /\ ~ daemon'
         /\ \A reason : Pod!Dies(reason) =>
              /\ Pod!Gone /\ UNCHANGED mounts
              /\ pc'["main"] = "idle"
BY DEF Pod!Gone, Pod!Dies

\* A step of the container other than the merge.
LEMMA ContainerMoves ==
  ASSUME PP!TypeOK, PP!Inv, PodInv, StartContainer \/ MainStep \/ Signal \/ Disturb
  PROVE  /\ UNCHANGED <<controller, nodeServer, started, regime, deleting>>
         /\ \/ UNCHANGED mounts
            \/ mounts' = 0 /\ process = "cleanUp" /\ ~ daemon'
         /\ daemon' => daemon
         /\ process' # "down" => process # "down" \/ process' = "boot"
<1> USE DEF PP!TypeOK, PP!BM!TypeOK, PP!Inv, PodInv
<1>1. CASE StartContainer
  BY <1>1 DEF StartContainer, ElsewhereSame, Pod!Start, Pod!merger, Pod!handler, Pod!filesystem
<1>2. CASE MainStep
  <2>1. UNCHANGED <<controller, nodeServer, started, regime>>
    BY <1>2 DEF MainStep, ElsewhereSame
  <2>2. CASE Pod!SetupSignalHandler \/ Pod!SeeCancelled \/ Pod!RunReturns \/ Pod!StartCleanUp
    BY <2>1, <2>2 DEF Pod!SetupSignalHandler, Pod!SeeCancelled, Pod!RunReturns, Pod!StartCleanUp,
      Pod!BM!StartRun, Pod!BM!SeeCancelled, Pod!BM!stopRunning, Pod!BM!StartCleanUp,
      Pod!handler, Pod!filesystem
  <2>3. CASE Pod!MergeFails
    BY <2>1, <2>3, Ends DEF Pod!MergeFails, Pod!BM!MergeFails
  <2>4. CASE Pod!CleanUp
    <3>1. Pod!Gone /\ process = "cleanUp" /\ UNCHANGED deleting
      BY <2>4 DEF Pod!CleanUp
    <3>2. (mounts' = mounts - 1 /\ mounts > 0) \/ UNCHANGED mounts
      BY <2>4 DEF Pod!CleanUp, Pod!BM!Unmerge
    <3>3. mounts \in 0 .. 1
      OBVIOUS
    <3>4. mounts' = 0 \/ UNCHANGED mounts
      BY <3>2, <3>3
    <3> QED
      BY <2>1, <3>1, <3>4, Ends
  <2> QED
    BY <1>2, <2>2, <2>3, <2>4 DEF MainStep
<1>3. CASE Signal
  <2>1. UNCHANGED <<controller, nodeServer, started, regime>>
    BY <1>3 DEF Signal, ElsewhereSame
  <2>2. CASE Pod!Dies("signal") /\ UNCHANGED deleting
    BY <2>1, <2>2, Ends
  <2>3. CASE ~ Pod!Dies("signal")
    BY <1>3, <2>1, <2>3
    DEF Signal, Pod!SendSignal, Pod!FirstSignal, Pod!BM!Cancel, Pod!merger, Pod!filesystem
  <2> QED
    BY <1>3, <2>2, <2>3
    DEF Signal, Pod!SendSignal, Pod!FirstSignal
<1>4. CASE Disturb
  <2>1. UNCHANGED <<controller, nodeServer, started, regime>>
    BY <1>4 DEF Disturb, ElsewhereSame
  <2>2. CASE Pod!Kill
    BY <2>1, <2>2, Ends DEF Pod!Kill
  <2>3. CASE Pod!DaemonDies \/ Pod!Use
    BY <2>1, <2>3 DEF Pod!DaemonDies, Pod!Use, Pod!merger, Pod!handler
  <2> QED
    BY <1>4, <2>2, <2>3 DEF Disturb
<1> QED
  BY <1>1, <1>2, <1>3, <1>4

\* What the container does not notice.
LEMMA ContainerUntouched ==
  ASSUME Next, ~ Stop, ~ Evict, ~ Vacate, ~ StartContainer, ~ Merge, ~ MainStep, ~ Signal, ~ Disturb
  PROVE  UNCHANGED <<container, started, regime>>
BY DEF Next, Ask, Occupy, Run, Promise, Withdraw, Release, MakeSourceDir, Publish, Unpublish,
  CallStep, Crash, ElsewhereSame

\* Every step of the volume is one of the container, or leaves it alone but for
\* the deletion of its pod, so that what is proved of the container holds.
LEMMA PodNext ==
  ASSUME PP!TypeOK, PP!Inv, [Next]_vars
  PROVE  PP!TypeOK' /\ PP!Inv'
<1>1. ASSUME UNCHANGED <<container, started, regime>> PROVE UNCHANGED PP!vars
  BY <1>1 DEF container, PP!vars, PP!merger, PP!handler, PP!filesystem
<1>2. CASE Vacate
  <2>1. /\ deleting' = FALSE
        /\ UNCHANGED <<mu, running, manualStop, stopped, mounts, cancelled, pc,
                       process, signals, taken, daemon, inUse, forced>>
    BY <1>2 DEF Vacate
  <2>2. PP!TypeOK'
    BY <2>1 DEF PP!TypeOK, PP!BM!TypeOK
  <2>3. PP!Inv'
    BY <2>1 DEF PP!Inv, PP!Unmerged
  <2> QED
    BY <2>2, <2>3
<1>3. ASSUME ~ Vacate PROVE [PP!Next]_PP!vars
  <2>1. CASE Stop \/ Evict \/ StartContainer \/ Merge \/ MainStep \/ Signal \/ Disturb
    <3>1. Pod!Next
      BY <2>1 DEF Stop, Evict, StartContainer, Merge, MainStep, Signal, Disturb, Pod!Next,
        Pod!MainStep
    <3> QED
      BY <3>1, SamePod
  <2>2. CASE ~ (Stop \/ Evict \/ StartContainer \/ Merge \/ MainStep \/ Signal \/ Disturb)
    BY <1>1, <1>3, <2>2, ContainerUntouched DEF vars
  <2> QED
    BY <2>1, <2>2
<1> QED
  BY <1>2, <1>3, PP!TypeNext, PP!InvNext

\* The stage of the pod, as the controller moves it.
LEMMA StageMoves ==
  ASSUME VA!TypeOK, Next
  PROVE  \/ UNCHANGED stage
         \/ Occupy /\ stage = "none" /\ stage' = "starting"
         \/ Run /\ stage = "starting" /\ stage' = "running"
         \/ (Stop \/ Evict) /\ stage \in {"starting", "running"} /\ stage' = "stopping"
         \/ Vacate /\ stage = "stopping" /\ stage' = "none"
<1>1. CASE Ask \/ Promise \/ Withdraw \/ Release
  BY <1>1 DEF Ask, Promise, Withdraw, Release, VA!Publish, VA!Promise, VA!Withdraw, VA!Release
<1>2. CASE Occupy \/ Run \/ Vacate
  BY <1>2 DEF Occupy, Run, Vacate, VA!Occupy, VA!Run, VA!Vacate, VA!TypeOK
<1>3. CASE Stop \/ Evict
  BY <1>3 DEF Stop, Evict, VA!Stop
<1>4. CASE MakeSourceDir \/ StartContainer \/ Merge \/ MainStep \/ Signal \/ Disturb
  BY <1>4 DEF MakeSourceDir, StartContainer, Merge, MainStep, Signal, Disturb, controller
<1>5. CASE CallStep \/ Crash \/ \E t \in Targets : Publish(t) \/ Unpublish(t)
  BY <1>5 DEF CallStep, Crash, Publish, Unpublish, controller
<1> QED
  BY <1>1, <1>2, <1>3, <1>4, <1>5 DEF Next

\* kubelet's directory stays.
LEMMA SourceStays ==
  ASSUME Next
  PROVE  sourceDir => sourceDir'
<1>1. CASE MakeSourceDir
  BY <1>1 DEF MakeSourceDir, Node!MakeSourceDir
<1>2. CASE CallStep
  BY <1>2 DEF CallStep, Node!CallStep, Node!CheckSource, Node!GetRefs, Node!CheckTarget,
    Node!MakeDir, Node!Mount, Node!CleanUp, Node!Umount, Node!RemoveDir, Node!Return,
    Node!attached
<1>3. CASE Crash \/ \E t \in Targets : Publish(t) \/ Unpublish(t)
  BY <1>3 DEF Crash, Publish, Unpublish, Node!Crash, Node!StartPublish, Node!StartUnpublish,
    Node!Start, Node!attached
<1>4. CASE ~ (MakeSourceDir \/ CallStep \/ Crash \/ \E t \in Targets : Publish(t) \/ Unpublish(t))
  BY <1>4 DEF Next, Ask, Occupy, Run, Promise, Withdraw, Stop, Evict, Vacate, Release,
    StartContainer, Merge, MainStep, Signal, Disturb, ElsewhereSame, nodeServer
<1> QED
  BY <1>1, <1>2, <1>3, <1>4

\* The container comes to no end that PodInv does not know of: it merges while
\* a mount is left to it, and it stops when its pod is being deleted.
LEMMA PodInvNext ==
  ASSUME PP!TypeOK, PP!Inv, VA!TypeOK, PodInv, deleting <=> stage = "stopping",
         started \in Nat, [Next]_vars
  PROVE  PodInv'
<1>1. CASE UNCHANGED vars
  BY <1>1 DEF vars, container, controller, nodeServer, PodInv
<1>2. ASSUME Next, UNCHANGED <<container, started>> PROVE PodInv'
  <2>1. stage' # "none" => stage # "none" \/ started < MaxUnions
    BY <1>2, StageMoves DEF Occupy
  <2>2. stage' = "none" => stage = "none" \/ Vacate
    BY <1>2, StageMoves
  <2>3. Vacate => process = "down"
    BY DEF Vacate
  <2>4. sourceDir => sourceDir'
    BY <1>2, SourceStays
  <2>5. stage = "none" => process = "down"
    BY DEF PodInv
  <2> QED
    BY <1>2, <2>1, <2>2, <2>3, <2>4, <2>5 DEF container, PodInv
<1>3. CASE Vacate
  <2>1. process = "down" /\ stage' = "none" /\ ~ deleting'
    BY <1>3 DEF Vacate, VA!Vacate
  <2>2. UNCHANGED <<mounts, cancelled, pc, process, signals, taken, started>>
    BY <1>3 DEF Vacate, ElsewhereSame
  <2> QED
    BY <2>1, <2>2 DEF PodInv
<1>4. CASE Stop \/ Evict
  <2>1. stage' = "stopping" /\ deleting' /\ stage # "none" /\ UNCHANGED started
    BY <1>4 DEF Stop, Evict, VA!Stop, Pod!DeletePod, ElsewhereSame
  <2>2. UNCHANGED <<mounts, cancelled, pc, process, signals, taken, sourceDir>>
    BY <1>4 DEF Stop, Evict, Pod!DeletePod, Pod!merger, Pod!handler, ElsewhereSame, nodeServer
  <2> QED
    BY <2>1, <2>2 DEF PodInv
<1>5. CASE StartContainer
  BY <1>5 DEF StartContainer, ElsewhereSame, nodeServer, controller, Pod!Start, Pod!merger,
    Pod!handler, PodInv
<1>6. CASE Merge
  <2>1. /\ pc["main"] = "run" /\ process = "run" /\ UNCHANGED <<process, signals, taken>>
        /\ mounts' = mounts + 1 /\ started' = started + 1 /\ UNCHANGED <<cancelled, deleting>>
        /\ UNCHANGED <<stage, sourceDir>> /\ pc'["main"] = "select"
    BY <1>6 DEF Merge, Pod!Merge, Pod!BM!Merge, Pod!BM!Locked, Pod!BM!Moves, controller,
      nodeServer, Pod!handler, PP!TypeOK, PP!BM!TypeOK, PP!BM!Goroutines
  <2>2. mounts' # 0 /\ started' # 0
    BY <2>1 DEF PP!TypeOK, PP!BM!TypeOK
  <2> QED
    BY <2>1, <2>2 DEF PodInv
<1>7. CASE MainStep \/ Signal \/ Disturb
  <2>1. UNCHANGED <<stage, sourceDir, started, deleting>>
    BY <1>7, ContainerMoves DEF controller, nodeServer
  <2>2. ASSUME Pod!Gone, pc'["main"] = "idle", mounts' = mounts \/ (mounts' = 0 /\ deleting)
        PROVE  PodInv'
    BY <2>1, <2>2 DEF Pod!Gone, PodInv
  <2>3. ASSUME NEW reason, Pod!Dies(reason) PROVE PodInv'
    BY <2>2, <2>3, Ends
  <2> USE DEF PP!TypeOK, PP!BM!TypeOK, PP!BM!Goroutines, Pod!BM!Moves, Pod!BM!Locked
  <2>4. CASE Pod!SetupSignalHandler
    BY <2>1, <2>4 DEF Pod!SetupSignalHandler, Pod!BM!StartRun, Pod!handler, PodInv
  <2>5. CASE Pod!MergeFails
    BY <2>2, <2>5 DEF Pod!MergeFails, Pod!BM!MergeFails
  <2>6. CASE Pod!SeeCancelled
    BY <2>1, <2>6 DEF Pod!SeeCancelled, Pod!BM!SeeCancelled, Pod!handler, PodInv
  <2>7. CASE Pod!RunReturns
    BY <2>1, <2>7 DEF Pod!RunReturns, Pod!BM!stopRunning, Pod!handler, PodInv, PP!Inv
  <2>8. CASE Pod!StartCleanUp
    BY <2>1, <2>8 DEF Pod!StartCleanUp, Pod!BM!StartCleanUp, Pod!handler, PodInv
  <2>9. CASE Pod!CleanUp
    <3>1. Pod!Gone /\ pc'["main"] = "idle" /\ deleting
      BY <2>9 DEF Pod!CleanUp, Pod!BM!Unmerge, PP!Inv, PodInv
    <3> QED
      BY <1>7, <2>2, <3>1, ContainerMoves
  <2>10. CASE Pod!SendSignal
    <3>1. CASE Pod!Dies("signal")
      BY <2>3, <3>1
    <3>2. CASE ~ Pod!Dies("signal")
      <4>1. deleting /\ UNCHANGED <<mounts, cancelled, pc, process, taken>> /\ process # "down"
        BY <2>10, <3>2 DEF Pod!SendSignal, Pod!merger
      <4> QED
        BY <2>1, <4>1 DEF PodInv
    <3> QED
      BY <3>1, <3>2
  <2>11. CASE Pod!FirstSignal
    <3>1. deleting /\ process # "down" /\ UNCHANGED <<mounts, pc, process>>
      BY <2>11 DEF Pod!FirstSignal, Pod!BM!Cancel, PodInv
    <3> QED
      BY <2>1, <3>1 DEF PodInv
  <2>12. CASE Pod!Kill
    BY <2>3, <2>12 DEF Pod!Kill
  <2>13. CASE Pod!DaemonDies \/ Pod!Use
    BY <2>1, <2>13 DEF Pod!DaemonDies, Pod!Use, Pod!merger, Pod!handler, PodInv
  <2> QED
    BY <1>7, <2>4, <2>5, <2>6, <2>7, <2>8, <2>9, <2>10, <2>11, <2>12, <2>13
    DEF MainStep, Signal, Disturb
<1> QED
  BY <1>1, <1>2, <1>3, <1>4, <1>5, <1>6, <1>7, ContainerUntouched

-----------------------------------------------------------------------------
(* The order of calls *)

\* What a step changes of the attachment.
LEMMA ControllerTypes ==
  ASSUME VA!TypeOK, [Next]_vars
  PROVE  VA!TypeOK'
<1> USE DEF VA!TypeOK, VA!Becomes, VA!Stages, VA!Beliefs
<1>1. CASE UNCHANGED controller
  BY <1>1 DEF controller
<1>2. CASE Ask \/ Promise \/ Withdraw \/ Release
  BY <1>2 DEF Ask, Promise, Withdraw, Release, VA!Publish, VA!Promise, VA!Withdraw, VA!Release
<1>3. CASE Occupy \/ Run \/ Vacate
  BY <1>3, NullsAssumption DEF Occupy, Run, Vacate, VA!Occupy, VA!Run, VA!Vacate
<1>4. CASE Stop \/ Evict
  BY <1>4 DEF Stop, Evict, VA!Stop
<1> QED
  BY <1>1, <1>2, <1>3, <1>4 DEF Next, vars, MakeSourceDir, StartContainer, Merge, MainStep, Signal,
    Disturb, Publish, Unpublish, CallStep, Crash

\* kubelet asks of the node server, and is told, nothing new about a volume that
\* is not published.
LEMMA TracesNext ==
  ASSUME NP!TypeOK, [Next]_vars, UNCHANGED attachment, attachment[Here] # "published",
         \A t \in Targets : belief[t] \in {"none", "removed"}
  PROVE  UNCHANGED belief
<1> USE DEF NP!TypeOK
<1>1. CASE CallStep
  <2>1. Node!Return("call") => UNCHANGED belief
    BY DEF Node!Return, NP!Call
  <2> QED
    BY <1>1, <2>1 DEF CallStep, Node!CallStep, Node!CheckSource, Node!GetRefs, Node!CheckTarget,
      Node!MakeDir, Node!Mount, Node!CleanUp, Node!Umount, Node!RemoveDir
<1>2. CASE Crash \/ MakeSourceDir
  BY <1>2 DEF Crash, MakeSourceDir, Node!Crash, Node!MakeSourceDir
<1>3. CASE \E t \in Targets : Publish(t) \/ Unpublish(t)
  BY <1>3 DEF Publish, Unpublish, Node!StartUnpublish
<1>4. CASE ~ (CallStep \/ Crash \/ MakeSourceDir \/ \E t \in Targets : Publish(t) \/ Unpublish(t))
  <2>1. UNCHANGED nodeServer
    BY <1>4 DEF Next, Ask, Occupy, Run, Promise, Withdraw, Stop, Evict, Vacate, Release,
      StartContainer, Merge, MainStep, Signal, Disturb, ElsewhereSame, vars
  <2> QED
    BY <2>1 DEF nodeServer
<1> QED
  BY <1>1, <1>2, <1>3, <1>4

\* Calls come in the order that CSI asks for, and nobody but an evictor deletes a
\* pod that the orchestrator counts on.
LEMMA OrderNext ==
  ASSUME PP!TypeOK, PP!Inv, VA!TypeOK, NP!TypeOK, PodInv, OrderInv, [Next]_vars
  PROVE  OrderInv'
<1>1. (deleting <=> stage = "stopping")'
  <2>1. CASE Vacate \/ Stop \/ Evict
    BY <2>1 DEF Vacate, Stop, Evict, VA!Vacate, VA!Stop, Pod!DeletePod
  <2>2. CASE ~ (Vacate \/ Stop \/ Evict)
    <3>1. StartContainer \/ MainStep \/ Signal \/ Disturb => UNCHANGED deleting
      BY ContainerMoves
    <3>2. Merge => UNCHANGED deleting
      BY DEF Merge, Pod!Merge
    <3>3. StartContainer \/ MainStep \/ Signal \/ Disturb \/ Merge \/ UNCHANGED container
      BY <2>2, ContainerUntouched DEF vars
    <3>4. UNCHANGED deleting
      BY <3>1, <3>2, <3>3 DEF container
    <3>5. stage' = stage \/ (stage' # "stopping" /\ stage # "stopping")
      BY <2>2, StageMoves DEF vars, controller
    <3> QED
      BY <3>4, <3>5 DEF OrderInv
  <2> QED
    BY <2>1, <2>2
<1>2. UNCHANGED regime
  BY ContainerMoves, ContainerUntouched
  DEF Vacate, Stop, Evict, Merge, ElsewhereSame, vars
<1> USE DEF VA!ReleasedMeansGone, VA!PublishedAtOnePlace
<1>3. CASE UNCHANGED controller
  BY <1>1, <1>2, <1>3, TracesNext DEF controller, OrderInv
<1>4. ASSUME Ask \/ Occupy \/ Run \/ Promise \/ Withdraw \/ Stop \/ Evict \/ Vacate \/ Release
      PROVE  OrderInv'
  <2>1. UNCHANGED belief
    BY <1>4 DEF Ask, Occupy, Run, Promise, Withdraw, Stop, Evict, Vacate, Release, ElsewhereSame,
      nodeServer
  <2> USE DEF VA!Becomes, VA!TypeOK
  <2>2. CASE Ask
    BY <1>1, <1>2, <2>1, <2>2 DEF Ask, VA!Publish, OrderInv
  <2>3. CASE Occupy \/ Run
    BY <1>1, <1>2, <2>1, <2>3 DEF Occupy, Run, VA!Occupy, VA!Run, OrderInv
  <2>4. CASE Promise
    BY <1>1, <1>2, <2>1, <2>4 DEF Promise, VA!Promise, OrderInv
  <2>5. CASE Withdraw
    BY <1>1, <1>2, <2>1, <2>5 DEF Withdraw, VA!Withdraw, OrderInv
  <2>6. CASE Stop
    BY <1>1, <1>2, <2>1, <2>6 DEF Stop, VA!Stop, OrderInv
  <2>7. CASE Evict
    BY <1>1, <1>2, <2>1, <2>7 DEF Evict, OrderInv
  <2>8. CASE Vacate
    BY <1>1, <1>2, <2>1, <2>8, NullsAssumption DEF Vacate, VA!Vacate, OrderInv
  <2>9. CASE Release
    BY <1>1, <1>2, <2>1, <2>9 DEF Release, VA!Release, OrderInv
  <2> QED
    BY <1>4, <2>2, <2>3, <2>4, <2>5, <2>6, <2>7, <2>8, <2>9
<1> QED
  BY <1>3, <1>4 DEF Next, vars, MakeSourceDir, StartContainer, Merge, MainStep, Signal,
    Disturb, Publish, Unpublish, CallStep, Crash

-----------------------------------------------------------------------------
(* The node server *)

\* What the node server sees of a step: a union goes, mergerfs dies, or nothing.
LEMMA SourceFades ==
  ASSUME mounts' \in {0, mounts}, daemon' => daemon, mounts' = 0 => ~ daemon',
         UNCHANGED <<nodeServer, started>>, PP!TypeOK, daemon => mounts = 1,
         mounts # 0 => started # 0
  PROVE  NP!StopServing \/ UNCHANGED NP!vars
BY DEF NP!StopServing, NP!vars, NP!attached, source, served, nodeServer, Environment, Plain

\* What the controller and the orchestrator do the node server does not see.
LEMMA ControllerUnseen ==
  ASSUME Ask \/ Occupy \/ Run \/ Promise \/ Withdraw \/ Stop \/ Evict \/ Vacate \/ Release
  PROVE  UNCHANGED <<mounts, daemon, inUse, process, pc, nodeServer, started, regime>>
<1>1. CASE Ask \/ Occupy \/ Run \/ Promise \/ Withdraw \/ Release
  BY <1>1 DEF Ask, Occupy, Run, Promise, Withdraw, Release, ElsewhereSame, container
<1>2. CASE Stop \/ Evict
  BY <1>2 DEF Stop, Evict, ElsewhereSame, Pod!DeletePod, Pod!merger, Pod!filesystem
<1>3. CASE Vacate
  BY <1>3 DEF Vacate, ElsewhereSame
<1> QED
  BY <1>1, <1>2, <1>3

\* When mergerfs mounts, the source path is free and there is a union left to start.
LEMMA MergeServes ==
  ASSUME PP!TypeOK, PodInv, VA!TypeOK, daemon => mounts = 1, deleting <=> stage = "stopping",
         started \in Nat, Merge
  PROVE  NP!Serve /\ mounts = 0 /\ mounts' = 1 /\ daemon' /\ UNCHANGED regime
<1>1. /\ process = "run" /\ pc["main"] = "run" /\ mounts < 1 /\ mounts' = mounts + 1 /\ daemon'
      /\ started' = started + 1 /\ UNCHANGED <<nodeServer, regime>>
  BY DEF Merge, Pod!Merge, Pod!BM!Merge, Pod!BM!Locked, Pod!BM!Moves
<1>2. mounts = 0 /\ mounts' = 1
  BY <1>1 DEF PP!TypeOK, PP!BM!TypeOK
<1>3. sourceDir /\ started < MaxUnions /\ ~ daemon
  BY <1>1, <1>2 DEF PodInv
<1> QED
  BY <1>1, <1>2, <1>3
  DEF NP!Serve, source, served, nodeServer, Environment, Plain

\* Every step of the volume is one that NodePublish knows.
LEMMA NodeNext ==
  ASSUME PP!TypeOK, PP!Inv, VA!TypeOK, PodInv, daemon => mounts = 1,
         deleting <=> stage = "stopping", started \in Nat, [Next]_vars
  PROVE  [NP!Next]_(NP!vars)
<1>1. UNCHANGED <<mounts, daemon, nodeServer, started>> => UNCHANGED NP!vars
  BY DEF NP!vars, NP!attached, source, served, nodeServer
<1>2. CASE UNCHANGED vars
  BY <1>1, <1>2 DEF vars, container
<1>3. CASE Ask \/ Occupy \/ Run \/ Promise \/ Withdraw \/ Stop \/ Evict \/ Vacate \/ Release
  BY <1>1, <1>3, ControllerUnseen
<1>4. CASE StartContainer \/ MainStep \/ Signal \/ Disturb
  <2>1. mounts' \in {0, mounts} /\ (daemon' => daemon) /\ (mounts' = 0 => ~ daemon')
    BY <1>4, ContainerMoves
  <2>2. UNCHANGED <<nodeServer, started>> /\ (mounts # 0 => started # 0)
    BY <1>4, ContainerMoves DEF PodInv
  <2>3. NP!StopServing \/ UNCHANGED NP!vars
    BY <2>1, <2>2, SourceFades
  <2> QED
    BY <2>3 DEF NP!Next
<1>5. CASE Merge
  BY <1>5, MergeServes DEF NP!Next
<1>6. CASE MakeSourceDir \/ CallStep \/ Crash
  BY <1>6, SameNode DEF MakeSourceDir, CallStep, Crash, NP!Next
<1>7. CASE \E t \in Targets : Publish(t) \/ Unpublish(t)
  BY <1>7, SameNode DEF Publish, Unpublish, NP!Next
<1> QED
  BY <1>2, <1>3, <1>4, <1>5, <1>6, <1>7 DEF Next

\* mergerfs serves a mount only.
LEMMA DaemonNext ==
  ASSUME PP!TypeOK, PP!Inv, VA!TypeOK, PodInv, daemon => mounts = 1,
         deleting <=> stage = "stopping", started \in Nat, [Next]_vars
  PROVE  (daemon => mounts = 1)' /\ UNCHANGED regime
<1>1. CASE StartContainer \/ MainStep \/ Signal \/ Disturb
  BY <1>1, ContainerMoves
<1>2. CASE Merge
  BY <1>2, MergeServes
<1>3. CASE Stop \/ Evict \/ Vacate
  BY <1>3, ControllerUnseen
<1>4. CASE UNCHANGED <<container, started, regime>>
  BY <1>4 DEF container
<1> QED
  BY <1>1, <1>2, <1>3, <1>4, ContainerUntouched DEF vars

-----------------------------------------------------------------------------
(* The node server, given that the container behaves *)

\* kubelet has one call in flight at a time.
LEMMA OneCall == NP!Serial
BY DEF NP!Serial, Environment

\* The unions are counted.
LEMMA StartedIsNat == ASSUME NP!TypeOK PROVE started \in Nat
<1>1. started \in 0 .. Environment(MaxFaults).unions
  BY DEF NP!TypeOK
<1> QED
  BY <1>1 DEF Environment

\* What a step of the node server does to the targets.
LEMMA TargetStep ==
  ASSUME NP!TypeInv, [NP!Next]_(NP!vars), NEW t \in Targets
  PROVE  \/ NP!Same(t)
         \/ /\ NP!CallStep("call") /\ call["call"].target = t /\ call["call"].at = "mount"
            /\ NP!Grows(t)
         \/ NP!CallStep("call") /\ call["call"].target = t /\ NP!Shrinks(t)
<1>1. CASE NP!CallStep("call")
  BY <1>1, NodeAssumptions, NP!TableStep
<1>2. CASE UNCHANGED target
  BY <1>2 DEF NP!Same
<1> QED
  BY <1>1, <1>2 DEF NP!Next, NP!vars, NP!MakeSourceDir, NP!Serve, NP!StopServing, NP!Crash,
    NP!StartPublish, NP!StartUnpublish, NP!Start

\* Nothing is mounted at a target that kubelet does not have a call about.
LEMMA UntouchedNext ==
  ASSUME NP!TypeInv, NP!BeliefInv, UntouchedInv, [NP!Next]_(NP!vars)
  PROVE  UntouchedInv'
<1> SUFFICES ASSUME NEW t \in Targets, belief'[t] = "none" PROVE target'[t].mounts = << >>
  BY DEF UntouchedInv
<1>1. belief[t] = "none"
  <2>1. belief \in [Targets -> NP!Beliefs]
    BY DEF NP!TypeInv, NP!TypeOK
  <2> QED
    BY <2>1 DEF NP!Next, NP!vars, NP!CallStep, NP!CheckSource, NP!GetRefs, NP!CheckTarget,
      NP!MakeDir, NP!Mount, NP!CleanUp, NP!Umount, NP!RemoveDir, NP!Return, NP!StartPublish,
      NP!StartUnpublish, NP!MakeSourceDir, NP!Serve, NP!StopServing, NP!Crash
<1>2. target[t].mounts = << >>
  BY <1>1 DEF UntouchedInv
<1>3. ASSUME call["call"].at # "idle", call["call"].target = t PROVE FALSE
  BY <1>1, <1>3 DEF NP!BeliefInv
<1>4. NP!CallStep("call") => call["call"].at # "idle"
  BY NodeAssumptions, NP!TableStep
<1> QED
  BY <1>2, <1>3, <1>4, TargetStep DEF NP!Same, NP!Shrinks

\* The invariants of the node server hold.
LEMMA NodeInvNext ==
  ASSUME NP!Inv, [NP!Next]_(NP!vars)
  PROVE  NP!Inv'
BY NodeAssumptions, NP!TypeNext, NP!UnionsNext, NP!SerialNext, NP!BoundNext DEF NP!Inv

\* The union leaves the source path in the container's CleanUp only.
LEMMA MountGoes ==
  ASSUME PP!TypeOK, PP!Inv, VA!TypeOK, PodInv, daemon => mounts = 1,
         deleting <=> stage = "stopping", started \in Nat, [Next]_vars,
         source # Plain, source' = Plain
  PROVE  process = "cleanUp"
<1>1. mounts # 0 /\ started # 0
  BY DEF source, Plain
<1>2. mounts' = 0 \/ started' = 0
  BY DEF source, Plain
<1>3. CASE UNCHANGED <<mounts, started>>
  BY <1>1, <1>2, <1>3
<1>4. CASE StartContainer \/ MainStep \/ Signal \/ Disturb
  BY <1>1, <1>2, <1>4, ContainerMoves
<1>5. ~ Merge
  BY <1>1, MergeServes
<1>6. Stop \/ Evict \/ Vacate => UNCHANGED <<mounts, started>>
  BY ControllerUnseen
<1>7. UNCHANGED <<container, started, regime>> => UNCHANGED <<mounts, started>>
  BY DEF container
<1> QED
  BY <1>3, <1>4, <1>5, <1>6, <1>7, ContainerUntouched DEF vars

\* Where the volume is not published nothing of it is mounted at a target.
LEMMA NoTraces ==
  ASSUME OrderInv, UntouchedInv, NP!CleanInv, attachment[Here] # "published", NEW t \in Targets
  PROVE  target[t].mounts = << >>
BY DEF OrderInv, UntouchedInv, NP!CleanInv

\* Nobody evicting the pod, the container cleans up where the orchestrator detached
\* the volume: no call is under way then, and nothing is at a target.
LEMMA CleanUpIsLast ==
  ASSUME PodInv, OrderInv, UntouchedInv, NP!TypeInv, NP!BeliefInv, NP!CleanInv,
         "evict" \notin regime, process = "cleanUp"
  PROVE  call["call"].at = "idle" /\ \A t \in Targets : target[t].mounts = << >>
<1>1. stage = "stopping"
  BY DEF PodInv, OrderInv
<1>2. attachment[Here] # "published"
  BY <1>1 DEF OrderInv, VA!PublishedAtOnePlace
<1>3. \A t \in Targets : belief[t] \in {"none", "removed"}
  BY <1>2 DEF OrderInv
<1>4. call["call"].at = "idle"
  BY <1>3 DEF NP!BeliefInv, NP!TypeInv, NP!CallsInv
<1> QED
  BY <1>2, <1>4, NoTraces

\* Undisturbed, the container's mount is served until the container unmounts it.
LEMMA CalmContainer ==
  ASSUME PP!TypeOK, PP!Inv, VA!TypeOK, PodInv, daemon => mounts = 1,
         deleting <=> stage = "stopping", started \in Nat,
         CalmInv, regime = {}, [Next]_vars
  PROVE  /\ ~ inUse'
         /\ mounts' # 0 =>
              daemon' /\ (process' = "cleanUp" \/ pc'["main"] \in {"select", "stopByContext"})
         /\ UNCHANGED <<daemon, started>> \/ (Merge /\ mounts = 0) \/ process = "cleanUp"
<1>1. /\ ~ inUse
      /\ mounts # 0 => daemon /\ (process = "cleanUp" \/ pc["main"] \in {"select", "stopByContext"})
  BY DEF CalmInv
<1>2. process \in {"down", "boot"} \/ pc["main"] = "run" => mounts = 0 /\ ~ daemon
  BY <1>1 DEF PodInv, PP!Inv
<1>3. CASE UNCHANGED <<mounts, daemon, inUse, process, pc, started>>
  BY <1>1, <1>3
<1>4. CASE StartContainer
  BY <1>1, <1>2, <1>4
  DEF StartContainer, ElsewhereSame, Pod!Start, Pod!merger, Pod!filesystem
<1>5. CASE Merge
  <2>1. UNCHANGED inUse /\ pc'["main"] = "select"
    BY <1>5 DEF Merge, Pod!Merge, Pod!BM!Merge, Pod!BM!Locked, Pod!BM!Moves, PP!TypeOK,
      PP!BM!TypeOK, PP!BM!Goroutines
  <2> QED
    BY <1>1, <1>5, <2>1, MergeServes
<1>6. CASE MainStep \/ Signal
  <2>1. UNCHANGED started
    BY <1>6, ContainerMoves
  <2>2. ASSUME Pod!Gone, UNCHANGED mounts, process = "boot" \/ pc["main"] = "run"
        PROVE  ~ inUse' /\ mounts' = 0 /\ UNCHANGED daemon
    BY <1>1, <1>2, <2>2 DEF Pod!Gone, PP!TypeOK
  <2> USE DEF PP!TypeOK, PP!BM!TypeOK, PP!BM!Goroutines, Pod!BM!Moves, Pod!BM!Locked
  <2>3. CASE Pod!SetupSignalHandler
    BY <1>1, <1>2, <2>1, <2>3 DEF Pod!SetupSignalHandler, Pod!BM!StartRun, Pod!filesystem
  <2>4. CASE Pod!MergeFails
    BY <2>1, <2>2, <2>4 DEF Pod!MergeFails, Pod!BM!MergeFails
  <2>5. CASE Pod!SeeCancelled
    BY <1>1, <2>1, <2>5 DEF Pod!SeeCancelled, Pod!BM!SeeCancelled, Pod!filesystem
  <2>6. CASE Pod!RunReturns
    BY <1>1, <2>1, <2>6 DEF Pod!RunReturns, Pod!BM!stopRunning, Pod!filesystem
  <2>7. CASE Pod!StartCleanUp
    BY <1>1, <2>1, <2>7 DEF Pod!StartCleanUp, Pod!BM!StartCleanUp, Pod!filesystem
  <2>8. CASE Pod!CleanUp
    <3>1. process = "cleanUp" /\ UNCHANGED inUse /\ ~ (mounts' > 0)
      BY <1>1, <2>8 DEF Pod!CleanUp, Pod!Gone
    <3>2. mounts' \in {0, mounts}
      BY <1>6, ContainerMoves
    <3>3. mounts' = 0
      BY <3>1, <3>2
    <3> QED
      BY <1>1, <3>1, <3>3
  <2>9. CASE Pod!SendSignal
    <3>1. CASE process = "boot"
      BY <1>1, <2>1, <2>2, <2>9, <3>1, Ends DEF Pod!SendSignal
    <3>2. CASE process # "boot"
      BY <1>1, <2>1, <2>9, <3>2 DEF Pod!SendSignal, Pod!merger, Pod!filesystem
    <3> QED
      BY <3>1, <3>2
  <2>10. CASE Pod!FirstSignal
    BY <1>1, <2>1, <2>10 DEF Pod!FirstSignal, Pod!BM!Cancel, Pod!filesystem
  <2> QED
    BY <1>6, <2>3, <2>4, <2>5, <2>6, <2>7, <2>8, <2>9, <2>10 DEF MainStep, Signal
<1>7. ~ Disturb
  BY DEF Disturb
<1>8. Stop \/ Evict \/ Vacate => UNCHANGED <<mounts, daemon, inUse, process, pc, started>>
  BY ControllerUnseen
<1>9. UNCHANGED <<container, started, regime>> =>
        UNCHANGED <<mounts, daemon, inUse, process, pc, started>>
  BY DEF container
<1> QED
  BY <1>3, <1>4, <1>5, <1>6, <1>7, <1>8, <1>9, ContainerUntouched DEF vars

\* Undisturbed, what is mounted at a target is the union that is served, or plain.
LEMMA CalmNext ==
  ASSUME PP!TypeOK, PP!Inv, VA!TypeOK, PodInv, OrderInv, daemon => mounts = 1, started \in Nat,
         NP!TypeInv, NP!BeliefInv, NP!CleanInv, UntouchedInv, CalmInv, [Next]_vars
  PROVE  CalmInv'
<1>1. deleting <=> stage = "stopping"
  BY DEF OrderInv
<1>2. UNCHANGED regime
  BY <1>1, DaemonNext
<1> SUFFICES ASSUME regime = {}
             PROVE  \A t \in Targets : \A u : NP!MountedAt(u, t)' => u \in served' \cup {Plain}
  BY <1>1, <1>2, CalmContainer DEF CalmInv
<1>3. [NP!Next]_(NP!vars)
  BY <1>1, NodeNext
<1>4. ASSUME NEW t \in Targets, NEW u, NP!MountedAt(u, t)' 
      PROVE  NP!MountedAt(u, t) \/ u \in served \cup {Plain}
  <2>1. ASSUME NP!Grows(t), u = source PROVE u \in served \cup {Plain}
    BY <2>1 DEF NP!Grows, NP!Dead
  <2> QED
    BY <1>3, <1>4, <2>1, TargetStep, NodeAssumptions, NP!TableChange
<1>5. CASE UNCHANGED <<daemon, started>>
  BY <1>4, <1>5 DEF CalmInv, served
<1>6. CASE Merge /\ mounts = 0
  BY <1>4, <1>6 DEF CalmInv, served
<1>7. CASE process = "cleanUp"
  <2>1. call["call"].at = "idle" /\ \A t \in Targets : target[t].mounts = << >>
    BY <1>7, CleanUpIsLast
  <2>2. ASSUME NEW t \in Targets PROVE NP!Same(t)
    <3>1. ~ NP!Shrinks(t)
      BY <2>1 DEF NP!Shrinks
    <3> QED
      BY <1>3, <2>1, <3>1, TargetStep
  <2> QED
    BY <2>1, <2>2 DEF NP!Same, NP!MountedAt
<1> QED
  BY <1>1, <1>5, <1>6, <1>7, CalmContainer

-----------------------------------------------------------------------------
(* All of it *)

\* The state Init describes satisfies the invariant.
LEMMA InvInit == Init => Inv
<1> SUFFICES ASSUME Init PROVE Inv
  OBVIOUS
<1>1. Node!Init /\ served = {} /\ source = Plain
  BY DEF Init, Node!Init, Pod!Init, Pod!BM!Init, source, served, Node!Idle, Plain
<1>2. NP!Init
  BY <1>1, SameNode
<1>3. NP!Inv
  BY <1>2, NodeAssumptions, NP!InvInit
<1>4. Pod!Init /\ PP!Init
  BY SamePod DEF Init
<1>5. PP!TypeOK /\ PP!Inv
  BY <1>4, PP!TypeInit, PP!InvInit
<1>6. VA!TypeOK /\ ~ daemon /\ mounts = 0 /\ regime \in Regimes
  BY <1>4 DEF Init, Pod!Init, Pod!BM!Init, VA!Init, VA!TypeOK, VA!Stages, VA!Beliefs
<1>7. /\ process = "down" /\ signals = 0 /\ taken = 0 /\ cancelled = {} /\ ~ deleting
      /\ pc["main"] = "idle" /\ stage = "none"
  BY <1>4 DEF Init, Pod!Init, Pod!BM!Init, Pod!BM!Goroutines, VA!Init
<1>8. PodInv
  BY <1>6, <1>7 DEF PodInv
<1>9. OrderInv
  BY <1>7 DEF Init, VA!Init, OrderInv, VA!ReleasedMeansGone, VA!PublishedAtOnePlace
<1>10. \A t \in Targets : target[t].mounts = << >> /\ belief[t] = "none"
  BY DEF Init
<1>11. \A t \in Targets : \A u : ~ NP!MountedAt(u, t)
  BY <1>10 DEF NP!MountedAt
<1>12. UntouchedInv /\ CalmInv
  BY <1>4, <1>6, <1>10, <1>11 DEF UntouchedInv, CalmInv, Pod!Init
<1> QED
  BY <1>3, <1>5, <1>6, <1>8, <1>9, <1>12 DEF Inv, PartsInv

\* Every step keeps the invariant.
LEMMA InvNext == Inv /\ [Next]_vars => Inv'
<1> SUFFICES ASSUME Inv, [Next]_vars PROVE Inv'
  OBVIOUS
<1>1. /\ PP!TypeOK /\ PP!Inv /\ VA!TypeOK /\ PodInv /\ OrderInv /\ UntouchedInv /\ CalmInv
      /\ NP!Inv /\ regime \in Regimes
      /\ (daemon => mounts = 1) /\ (deleting <=> stage = "stopping")
  BY DEF Inv, PartsInv, OrderInv
<1>2. NP!TypeInv /\ NP!BeliefInv /\ NP!CleanInv
  BY <1>1, OneCall DEF NP!Inv, NP!SerialInv
<1>3. NP!TypeOK /\ started \in Nat
  BY <1>2, StartedIsNat DEF NP!TypeInv
<1>4. [NP!Next]_(NP!vars)
  BY <1>1, <1>3, NodeNext
<1>5. PP!TypeOK' /\ PP!Inv' /\ VA!TypeOK' /\ NP!Inv'
  BY <1>1, <1>4, PodNext, ControllerTypes, NodeInvNext
<1>6. (daemon => mounts = 1)' /\ UNCHANGED regime
  BY <1>1, <1>3, DaemonNext
<1>7. PodInv' /\ OrderInv'
  BY <1>1, <1>3, PodInvNext, OrderNext
<1>8. UntouchedInv'
  BY <1>1, <1>2, <1>4, UntouchedNext
<1>9. CalmInv'
  <2>1. CASE regime = {}
    BY <1>1, <1>2, <1>3, <2>1, CalmNext
  <2>2. CASE regime # {}
    BY <1>6, <2>2 DEF CalmInv
  <2> QED
    BY <2>1, <2>2
<1> QED
  BY <1>1, <1>5, <1>6, <1>7, <1>8, <1>9 DEF Inv, PartsInv

\* Attach, merge, publish, unpublish and detach fit together as the invariant says.
LEMMA VolumeInv == Spec => []Inv
BY InvInit, InvNext, PTL DEF Spec

\* The parts keep their types together: no pod mounts a second union, and only
\* the pod of a volume that is stopping is being deleted.
THEOREM VolumeTypeOK == Spec => []TypeOK
<1>1. Inv => TypeOK
  BY SameNode, SamePod DEF Inv, PartsInv, OrderInv, NP!Inv, NP!TypeInv, TypeOK
<1> QED
  BY <1>1, VolumeInv, PTL

\* The container behaves towards the node server as NodePublish assumes: every
\* step, an eviction, a kill and a restart included, maps to one of NodePublish.
THEOREM VolumeImplementsNode == Spec => ImplementsNode
<1>1. Init => Node!Init
  BY DEF Init, Node!Init, Pod!Init, Pod!BM!Init, source, served, Node!Idle, Plain
<1>2. Inv /\ [Next]_vars => [Node!Next]_(Node!vars)
  <2> SUFFICES ASSUME Inv, [Next]_vars PROVE [Node!Next]_(Node!vars)
    OBVIOUS
  <2>1. NP!Inv
    BY DEF Inv, PartsInv
  <2>2. started \in Nat
    BY <2>1, StartedIsNat DEF NP!Inv, NP!TypeInv
  <2>3. deleting <=> stage = "stopping"
    BY DEF Inv, OrderInv
  <2>4. PP!TypeOK /\ PP!Inv /\ VA!TypeOK /\ PodInv /\ (daemon => mounts = 1)
    BY DEF Inv, PartsInv
  <2>5. [NP!Next]_(NP!vars)
    BY <2>2, <2>3, <2>4, NodeNext
  <2>6. UNCHANGED NP!vars => UNCHANGED Node!vars
    BY DEF Node!vars, NP!vars, Node!attached, NP!attached
  <2> QED
    BY <2>5, <2>6, SameNode
<1> QED
  BY <1>1, <1>2, VolumeInv, PTL DEF Spec, ImplementsNode

\* Whatever went wrong before, once ControllerUnpublishVolume is answered OK no
\* process, no bind mount and, but for a reason recorded, no union is left.
THEOREM ReleasedIsClean == Spec => []ReleasedMeansClean
<1>1. Inv => ReleasedMeansClean
  <2> SUFFICES ASSUME Inv, attachment[Here] = "released"
               PROVE  /\ process = "down"
                      /\ \A t \in Targets : target[t].mounts = << >>
                      /\ forced = "no" => mounts = 0
    BY DEF ReleasedMeansClean
  <2>1. stage = "none"
    BY DEF Inv, PartsInv, OrderInv, VA!ReleasedMeansGone, VA!TypeOK
  <2>2. process = "down"
    BY <2>1 DEF Inv, PodInv
  <2>3. \A t \in Targets : target[t].mounts = << >>
    <3>1. NP!CleanInv
      BY OneCall DEF Inv, PartsInv, NP!Inv, NP!SerialInv
    <3> QED
      BY <3>1, NoTraces DEF Inv
  <2>4. mounts > 0 => forced # "no"
    BY <2>2 DEF Inv, PartsInv, PP!Inv, PP!Unmerged
  <2>5. mounts \in 0 .. 1
    BY DEF Inv, PartsInv, PP!TypeOK, PP!BM!TypeOK
  <2> QED
    BY <2>2, <2>3, <2>4, <2>5
<1> QED
  BY <1>1, VolumeInv, PTL

\* As long as nobody evicts the attach pod, the union goes from the source path
\* when no call is in flight and nothing is bound, mergerfs dead or alive.
THEOREM UnionOutlives == Spec => UnionOutlivesConsumers
<1>1. ASSUME Inv, [Next]_vars, "evict" \notin regime, mounts # 0, mounts' = 0
      PROVE  call["call"].at = "idle" /\ \A t \in Targets : target[t].mounts = << >>
  <2>1. /\ PP!TypeOK /\ PP!Inv /\ VA!TypeOK /\ PodInv /\ OrderInv /\ UntouchedInv /\ NP!Inv
        /\ (daemon => mounts = 1) /\ (deleting <=> stage = "stopping")
    BY <1>1 DEF Inv, PartsInv, OrderInv
  <2>2. NP!TypeInv /\ NP!BeliefInv /\ NP!CleanInv
    BY <2>1, OneCall DEF NP!Inv, NP!SerialInv
  <2>3. started \in Nat
    BY <2>2, StartedIsNat DEF NP!TypeInv
  <2>4. source # Plain /\ source' = Plain
    BY <1>1, <2>1 DEF source, Plain, PodInv
  <2>5. process = "cleanUp"
    BY <1>1, <2>1, <2>3, <2>4, MountGoes
  <2> QED
    BY <1>1, <2>1, <2>2, <2>5, CleanUpIsLast
<1>2. Inv /\ [Next]_vars =>
        ["evict" \notin regime /\ mounts # 0 /\ mounts' = 0 =>
           /\ call["call"].at = "idle"
           /\ \A t \in Targets : target[t].mounts = << >>]_vars
  BY <1>1
<1> QED
  BY <1>2, VolumeInv, PTL DEF Spec, UnionOutlivesConsumers

\* Undisturbed, what Publish was answered OK for is there until kubelet unpublishes
\* it, and if it is a union, served, however often the container failed to merge.
THEOREM PublishedIsNotDead == Spec => []NeverDeadWhilePublished
<1>1. Inv => NeverDeadWhilePublished
  <2> SUFFICES ASSUME Inv, regime = {}, NEW t \in Targets, belief[t] = "published"
               PROVE  target[t].mounts # << >> /\ Top(t) \in served \cup {Plain}
    BY DEF NeverDeadWhilePublished
  <2> DEFINE layers == target[t].mounts
  <2>1. layers # << >>
    BY OneCall DEF Inv, PartsInv, NP!Inv, NP!SerialBoundInv, NP!BoundInv
  <2>2. layers \in Seq(NP!Layers)
    BY DEF Inv, PartsInv, NP!Inv, NP!TypeInv, NP!TypeOK, NP!Layers
  <2>3. Len(layers) \in Nat \ {0}
    BY <2>1, <2>2, EmptySeq
  <2>4. \A n \in Nat \ {0} : n \in 1 .. n
    OBVIOUS
  <2>5. Len(layers) \in DOMAIN layers
    BY <2>2, <2>3, <2>4, LenProperties
  <2> QED
    BY <2>1, <2>5 DEF Inv, CalmInv, NP!MountedAt, Top
<1> QED
  BY <1>1, VolumeInv, PTL
=============================================================================
