-------------------------- MODULE AttachmentProofs --------------------------
(***************************************************************************)
(* What becomes of the attach pod, for any number of nodes, polls, faults  *)
(* and any lag of the watch: type correctness with overlapping calls, and  *)
(* with the CO's one call at a time the safety properties and the step by  *)
(* step implementation of VolumeAttachment.                                *)
(*                                                                         *)
(* The controller acts on a cached pod, which trails the API server's.     *)
(* The proofs look at the watch through two relations only: which states   *)
(* of the pod the informer has or will have in its cache (InView), and in  *)
(* which order (Before).                                                   *)
(***************************************************************************)
EXTENDS Attachment, SequenceTheorems, TLAPS

MaybePods == Pods \cup {NoPod}

Seen(i) == IF i = 0 THEN podCache ELSE podEvents[i]

InView(p) == \E i \in 0 .. Len(podEvents) : Seen(i) = p

Before(p, q) ==
  \E i, j \in 0 .. Len(podEvents) : i <= j /\ Seen(i) = p /\ Seen(j) = q

Attaching == {"attach", "createPod", "pollAttach"}

Detaching == {"detach", "deletePod", "pollDetach"}

\* Before the call has looked at the cached pod.
Looking == {"getSplit", "getNode", "detach"}

AnsweredOK(c) == call[c].at = "replied" /\ call[c].code = "OK"

\* A call in flight is one of the environment's, about a node, and its step is
\* one of its method.
CallsInv ==
  \A c \in Calls :
    /\ call[c].at # "idle" => c \in setting.calls /\ call[c].node \in Nodes
    /\ call[c].at \in Attaching => call[c].publish
    /\ call[c].at \in Detaching => ~ call[c].publish

\* The last the informer will hear of is the pod as it is.
WatchInv == Seen(Len(podEvents)) = pod

TypeInv == TypeOK /\ CallsInv /\ WatchInv

\* The CO and the one call in flight agree on what the call is for.
BeliefInv ==
  \A c \in Calls :
    call[c].at # "idle" =>
      belief[call[c].node] \in IF call[c].publish THEN {"unsure", "published"} ELSE {"detaching"}

\* q may follow p as a state of the same pod nobody disturbs.
Follows(p, q) ==
  /\ q.node = p.node
  /\ p.phase # "Pending" => q.phase # "Pending"
  /\ isPodRunning(p) => isPodRunning(q)

\* While nobody else takes pods away, one is only created when the informer
\* knows, or will only hear, of none, and only deleted when it knows of it: what
\* it has yet to hear is the life of one pod from its creation, or to its end.
LifeInv ==
  /\ nodes = Nodes
  /\ pod # NoPod =>
       /\ ~ isPodTerminating(pod)
       /\ pod.deleting => pod.phase # "Pending"
       /\ pod.deleting => \A p \in MaybePods : InView(p) => p # NoPod
  /\ \A p, q \in MaybePods : Before(p, q) =>
       /\ p # NoPod /\ q # NoPod => Follows(p, q)
       /\ (p = NoPod <=> pod = NoPod) => (q = NoPod <=> pod = NoPod)

UndisturbedInv ==
  /\ LifeInv
  /\ \A c \in Calls :
       /\ call[c].at = "createPod" =>
            IF pod = NoPod THEN \A p \in MaybePods : InView(p) => p = NoPod ELSE ~ pod.deleting
       /\ call[c].at = "deletePod" /\ pod # NoPod =>
            /\ AssignedTo(pod, call[c].node)
            /\ \A p \in MaybePods : InView(p) => p # NoPod

\* While calls start with a cache that has caught up, what Unpublish finds
\* assigned to its node is gone or still there when it deletes, and what it
\* finds gone is gone.
PromptInv ==
  \A c \in Calls :
    /\ call[c].at \in Looking /\ ~ call[c].publish =>
         \A p \in MaybePods : InView(p) /\ p # NoPod /\ AssignedTo(p, call[c].node) =>
                  pod = NoPod \/ AssignedTo(pod, call[c].node)
    /\ call[c].at = "deletePod" => pod = NoPod \/ AssignedTo(pod, call[c].node)
    /\ call[c].at # "idle" /\ ~ call[c].publish /\ InView(NoPod) => pod = NoPod

\* The attach pod runs at n and is not on its way out.
Attached(n) == pod # NoPod /\ pod.node = n /\ isPodRunning(pod) /\ ~ pod.deleting

\* With both, a pod that is on its way out is at a node the CO is detaching from,
\* and the calls are not fooled by what they find in the cache.
SteadyInv ==
  /\ pod # NoPod /\ pod.deleting => belief[pod.node] = "detaching"
  /\ \A n \in Nodes : belief[n] = "published" => Attached(n)
  /\ \A c \in Calls :
       LET n == call[c].node IN
       /\ call[c].at # "idle" /\ call[c].publish =>
            \A p \in MaybePods : InView(p) /\ p # NoPod /\ p.node = n =>
                     pod # NoPod /\ pod.node = n /\ ~ pod.deleting
       /\ AnsweredOK(c) /\ call[c].publish => Attached(n)
       /\ call[c].at \in Looking /\ ~ call[c].publish /\ pod # NoPod /\ pod.deleting =>
            \A p \in MaybePods : InView(p) => p = pod
       /\ call[c].at \in {"deletePod", "pollDetach"} =>
            \A p \in MaybePods : InView(p) /\ p # NoPod => AssignedTo(p, n)
       /\ AnsweredOK(c) /\ ~ call[c].publish /\ pod # NoPod /\ pod.node = n => ~ pod.deleting

\* A CO that only unpublishes what it was told is published only has pods to
\* detach that run.
SureInv ==
  /\ \A n \in Nodes :
       pod # NoPod /\ pod.node = n =>
         /\ belief[n] = "detaching" => isPodRunning(pod)
         /\ belief[n] # "released"
  /\ \A c \in Calls :
       LET n == call[c].node IN
       /\ call[c].at # "idle" /\ ~ call[c].publish =>
            \A p \in MaybePods : InView(p) /\ p # NoPod /\ p.node = n => isPodRunning(p)
       /\ AnsweredOK(c) /\ ~ call[c].publish => pod = NoPod \/ pod.node # n

Inv ==
  /\ TypeInv
  /\ Serial =>
       /\ BeliefInv
       /\ Undisturbed => UndisturbedInv
       /\ setting.prompt => PromptInv
       /\ setting.prompt /\ Undisturbed => SteadyInv
       /\ Contract => SureInv

-----------------------------------------------------------------------------
(* The watch *)

\* How one step may change what the informer has or will have.
ViewMoves ==
  /\ \A p : InView(p)' => InView(p) \/ p = pod'
  /\ \A p, q : Before(p, q)' => Before(p, q) \/ (q = pod' /\ (InView(p) \/ p = pod'))

\* A step that leaves the pod and the watch alone shows the informer nothing new.
LEMMA ViewSame ==
  ASSUME WatchInv, SamePod
  PROVE  WatchInv' /\ ViewMoves
BY DEF WatchInv, SamePod, watch, ViewMoves, InView, Before, Seen

\* A write of the pod queues its new state behind what the informer has yet to
\* hear (Notify of the API server).
LEMMA ViewSet ==
  ASSUME TypeInv, NEW p \in MaybePods, SetPod(p)
  PROVE  WatchInv' /\ ViewMoves
<1>1. podEvents \in Seq(MaybePods) /\ Len(podEvents) \in Nat
  BY LenProperties DEF TypeInv, TypeOK, MaybePods
<1>10. PICK k \in Nat : k = Len(podEvents)
  BY <1>1
<1>2. podEvents' = Append(podEvents, p) /\ pod' = p /\ podCache' = podCache
  BY DEF SetPod
<1>3. /\ Len(podEvents') = k + 1
      /\ \A i \in 1 .. k : podEvents'[i] = podEvents[i]
      /\ podEvents'[k + 1] = p
  BY <1>1, <1>2, <1>10, AppendProperties
<1>4. \A n \in Nat : \A i \in 0 .. n : /\ i # 0 => i \in 1 .. n
                                       /\ i \in 0 .. n + 1
                                       /\ n + 1 # 0
  OBVIOUS
<1>5. \A n \in Nat : \A i \in 0 .. n + 1 : i \in 0 .. n \/ i = n + 1
  OBVIOUS
<1>6. \A n \in Nat : \A i \in 0 .. n : ~ (n + 1 <= i)
  OBVIOUS
<1>7. \A i \in 0 .. k : Seen(i)' = Seen(i)
  BY <1>1, <1>2, <1>3, <1>4, Zenon DEF Seen
<1>8. k + 1 # 0
  BY <1>1
<1>9. Seen(k + 1)' = pod' /\ Len(podEvents)' = k + 1
  BY <1>2, <1>3, <1>8 DEF Seen
<1>11. WatchInv'
  BY <1>9, Zenon DEF WatchInv
<1>12. ASSUME NEW q, InView(q)' PROVE InView(q) \/ q = pod'
  <2>1. PICK i \in 0 .. k + 1 : Seen(i)' = q
    BY <1>9, <1>12, Zenon DEF InView
  <2>2. i \in 0 .. k \/ i = k + 1
    BY <1>1, <1>5, <2>1, Zenon
  <2> QED
    BY <1>7, <1>9, <1>10, <2>1, <2>2, Zenon DEF InView
<1>13. ASSUME NEW q, NEW r, Before(q, r)'
       PROVE  Before(q, r) \/ (r = pod' /\ (InView(q) \/ q = pod'))
  <2>1. PICK i \in 0 .. k + 1, j \in 0 .. k + 1 : i <= j /\ Seen(i)' = q /\ Seen(j)' = r
    BY <1>9, <1>13, Zenon DEF Before
  <2>2. i \in 0 .. k \/ i = k + 1
    BY <1>1, <1>5, <2>1, Zenon
  <2>3. j \in 0 .. k \/ j = k + 1
    BY <1>1, <1>5, <2>1, Zenon
  <2>4. CASE j = k + 1
    BY <1>7, <1>9, <1>10, <2>1, <2>2, <2>4, Zenon DEF InView
  <2>5. CASE i \in 0 .. k /\ j \in 0 .. k
    BY <1>7, <1>10, <2>1, <2>5, Zenon DEF Before
  <2> QED
    BY <1>1, <1>6, <2>1, <2>2, <2>3, <2>4, <2>5, Zenon
<1> QED
  BY <1>11, <1>12, <1>13, Zenon DEF ViewMoves

\* A delivered event moves the cache forward and makes nothing new visible.
LEMMA ViewDeliver ==
  ASSUME TypeInv, Deliver
  PROVE  WatchInv' /\ ViewMoves
<1>1. podEvents \in Seq(MaybePods) /\ podEvents # << >>
  BY DEF TypeInv, TypeOK, MaybePods, Deliver
<1>2. Len(podEvents) \in Nat \ {0}
  BY <1>1, EmptySeq
<1>9. PICK k \in Nat \ {0} : k = Len(podEvents)
  BY <1>2
<1>3. podEvents' = Tail(podEvents) /\ pod' = pod /\ podCache' = Head(podEvents)
  BY DEF Deliver
<1>4. Len(podEvents') = k - 1 /\ \A i \in 1 .. k - 1 : podEvents'[i] = podEvents[i + 1]
  BY <1>1, <1>3, <1>9, HeadTailProperties, Zenon
<1>5. Head(podEvents) = podEvents[1]
  BY <1>1
<1>6. \A n \in Nat \ {0} : \A i \in 0 .. n - 1 :
        i + 1 \in 0 .. n /\ i + 1 # 0 /\ (i # 0 => i \in 1 .. n - 1) /\ (i = 0 => i + 1 = 1)
  OBVIOUS
<1>7. \A n \in Nat \ {0} : n - 1 \in 0 .. n - 1 /\ n - 1 + 1 = n
  OBVIOUS
<1>8. \A n \in Nat \ {0} : \A i, j \in 0 .. n - 1 : i <= j => i + 1 <= j + 1
  OBVIOUS
<1>10. ASSUME NEW i \in 0 .. k - 1 PROVE Seen(i)' = Seen(i + 1)
  <2>1. CASE i = 0
    BY <1>2, <1>3, <1>5, <1>6, <2>1, Zenon DEF Seen
  <2>2. CASE i # 0
    BY <1>2, <1>4, <1>6, <2>2, Zenon DEF Seen
  <2> QED
    BY <2>1, <2>2
<1>11. WatchInv'
  <2>1. Seen(k - 1)' = Seen(k)
    BY <1>2, <1>7, <1>10, Zenon
  <2> QED
    BY <1>3, <1>4, <1>9, <2>1, Zenon DEF TypeInv, WatchInv
<1>12. ASSUME NEW q, InView(q)' PROVE InView(q)
  BY <1>2, <1>4, <1>6, <1>9, <1>10, <1>12, Zenon DEF InView
<1>13. ASSUME NEW q, NEW r, Before(q, r)' PROVE Before(q, r)
  <2>1. PICK i \in 0 .. k - 1, j \in 0 .. k - 1 : i <= j /\ Seen(i)' = q /\ Seen(j)' = r
    BY <1>4, <1>13, Zenon DEF Before
  <2>2. i + 1 \in 0 .. k /\ j + 1 \in 0 .. k /\ i + 1 <= j + 1
    BY <1>2, <1>6, <1>8, <2>1, Zenon
  <2> QED
    BY <1>9, <1>10, <2>1, <2>2, Zenon DEF Before
<1> QED
  BY <1>11, <1>12, <1>13, Zenon DEF ViewMoves

\* After a restart the informer has listed the pod as it is, and nothing else.
LEMMA ViewCrash ==
  ASSUME Crash
  PROVE  WatchInv' /\ ViewMoves
<1>1. podEvents' = << >> /\ podCache' = pod /\ pod' = pod
  BY DEF Crash
<1>2. Len(podEvents') = 0 /\ 0 .. 0 = {0}
  BY <1>1, EmptySeq
<1>3. Seen(0)' = pod'
  BY <1>1 DEF Seen
<1> QED
  BY <1>2, <1>3, Zenon DEF WatchInv, ViewMoves, InView, Before

\* What the view of the informer says of its cache and of the pod.
LEMMA ViewFacts ==
  ASSUME TypeInv
  PROVE  /\ pod \in MaybePods /\ podCache \in MaybePods
         /\ InView(podCache) /\ InView(pod)
         /\ \A p : InView(p) => p \in MaybePods /\ Before(podCache, p) /\ Before(p, pod)
         /\ \A p, q : Before(p, q) => InView(p) /\ InView(q)
         /\ podEvents = << >> => \A p : InView(p) => p = pod
<1> DEFINE k == Len(podEvents)
<1>1. /\ podEvents \in Seq(MaybePods) /\ k \in Nat /\ Seen(k) = pod
      /\ pod \in MaybePods /\ podCache \in MaybePods
  BY LenProperties DEF TypeInv, TypeOK, WatchInv, MaybePods
<1>2. \A n \in Nat : 0 \in 0 .. n /\ n \in 0 .. n /\ \A i \in 0 .. n : 0 <= i /\ i <= n
  OBVIOUS
<1>3. \A n \in Nat : \A i \in 0 .. n : i # 0 => i \in 1 .. n
  OBVIOUS
<1>4. \A i \in 0 .. k : Seen(i) \in MaybePods
  BY <1>1, <1>3, ElementOfSeq, Zenon DEF Seen
<1>5. Seen(0) = podCache
  BY DEF Seen
<1>6. ASSUME podEvents = << >> PROVE \A p : InView(p) => p = pod
  <2>1. k = 0 /\ 0 .. 0 = {0}
    BY <1>6, EmptySeq
  <2> QED
    BY <1>1, <2>1, Zenon DEF InView
<1> QED
  BY <1>1, <1>2, <1>4, <1>5, <1>6, Zenon DEF InView, Before

\* The types of the pod and of the watch.
PodTypes ==
  /\ pod \in MaybePods /\ podCache \in MaybePods
  /\ podEvents \in Seq(MaybePods) /\ Len(podEvents) <= setting.lag

\* The four ways a step treats the pod and the watch.
Watching == SamePod \/ (\E p \in MaybePods : SetPod(p)) \/ Deliver \/ Crash

\* Every step that writes the pod, delivers an event or restarts the controller
\* leaves the watch ending in the pod as it is.
LEMMA WatchKeeps ==
  ASSUME TypeInv, Watching, UNCHANGED setting
  PROVE  PodTypes' /\ WatchInv' /\ ViewMoves
<1>1. PodTypes /\ WatchInv /\ setting.lag \in Nat
  BY SettingsAssumption DEF TypeInv, TypeOK, PodTypes, MaybePods, Environments
<1>2. CASE SamePod
  BY <1>1, <1>2, ViewSame DEF SamePod, watch, PodTypes
<1>3. ASSUME NEW p \in MaybePods, SetPod(p) PROVE PodTypes' /\ WatchInv' /\ ViewMoves
  <2>1. /\ podEvents' = Append(podEvents, p) /\ pod' = p /\ podCache' = podCache
        /\ Len(podEvents) < setting.lag
    BY <1>3 DEF SetPod
  <2>2. podEvents' \in Seq(MaybePods) /\ Len(podEvents') = Len(podEvents) + 1
    BY <1>1, <2>1, AppendProperties DEF PodTypes
  <2>3. Len(podEvents) \in Nat
    BY <1>1, LenProperties DEF PodTypes
  <2>4. \A m, n \in Nat : m < n => m + 1 <= n
    OBVIOUS
  <2>5. Len(podEvents') <= setting'.lag
    BY <1>1, <2>1, <2>2, <2>3, <2>4, Zenon
  <2> QED
    BY <1>1, <1>3, <2>1, <2>2, <2>5, ViewSet DEF PodTypes
<1>4. CASE Deliver
  <2>1. podEvents \in Seq(MaybePods) /\ podEvents # << >>
    BY <1>1, <1>4 DEF PodTypes, Deliver
  <2>2. /\ Head(podEvents) \in MaybePods /\ Tail(podEvents) \in Seq(MaybePods)
        /\ Len(Tail(podEvents)) = Len(podEvents) - 1
    BY <2>1, HeadTailProperties, Zenon
  <2>3. Len(podEvents) \in Nat \ {0}
    BY <2>1, EmptySeq
  <2>4. \A m \in Nat \ {0} : \A n \in Nat : m <= n => m - 1 <= n
    OBVIOUS
  <2>5. Len(Tail(podEvents)) <= setting.lag
    BY <1>1, <2>2, <2>3, <2>4, Zenon DEF PodTypes
  <2> QED
    BY <1>1, <1>4, <2>2, <2>5, ViewDeliver, Zenon DEF PodTypes, Deliver
<1>5. CASE Crash
  <2>1. << >> \in Seq(MaybePods) /\ Len(<< >>) = 0
    BY EmptySeq
  <2>2. podEvents' = << >> /\ podCache' = pod /\ pod' = pod
    BY <1>5 DEF Crash
  <2>3. Len(podEvents') <= setting'.lag
    BY <1>1, <2>1, <2>2
  <2> QED
    BY <1>1, <1>5, <2>1, <2>2, <2>3, ViewCrash DEF PodTypes
<1> QED
  BY <1>2, <1>3, <1>4, <1>5 DEF Watching

-----------------------------------------------------------------------------
(* What the parts of a step do *)

\* A call that moves on keeps what it is about.
LEMMA GotoKeeps ==
  ASSUME call \in [Calls -> Call], NEW c \in Calls, NEW step \in Steps, Goto(c, step)
  PROVE  /\ call' \in [Calls -> Call]
         /\ call'[c].at = step /\ call'[c].publish = call[c].publish
         /\ call'[c].node = call[c].node
         /\ \A d \in Calls : d # c => call'[d] = call[d]
BY DEF Goto, Becomes, Call

\* So does one that is answered.
LEMMA ReplyKeeps ==
  ASSUME call \in [Calls -> Call], NEW c \in Calls, NEW code \in Codes, Reply(c, code)
  PROVE  /\ call' \in [Calls -> Call]
         /\ call'[c].at = "replied" /\ call'[c].publish = call[c].publish
         /\ call'[c].node = call[c].node /\ call'[c].code = code
         /\ \A d \in Calls : d # c => call'[d] = call[d]
BY DEF Reply, Becomes, Call, Steps

\* And one that polls, the last time or not.
LEMMA KeepPollingKeeps ==
  ASSUME call \in [Calls -> Call], NEW c \in Calls, KeepPolling(c)
  PROVE  /\ call' \in [Calls -> Call]
         /\ \/ call'[c].at = call[c].at
            \/ call'[c].at = "replied" /\ call'[c].code = "Internal"
         /\ call'[c].publish = call[c].publish /\ call'[c].node = call[c].node
         /\ \A d \in Calls : d # c => call'[d] = call[d]
<1>1. CASE call[c].polls + 1 < MaxPolls
  <2>1. Becomes(c, [call[c] EXCEPT !.polls = @ + 1])
    BY <1>1 DEF KeepPolling
  <2>2. call[c].polls + 1 \in 0 .. MaxPolls - 1
    BY <1>1, BoundsAssumption DEF Call
  <2> QED
    BY <2>1, <2>2 DEF Becomes, Call
<1>2. CASE ~ (call[c].polls + 1 < MaxPolls)
  BY <1>2, ReplyKeeps DEF KeepPolling, Codes
<1> QED
  BY <1>1, <1>2

\* Faults are counted.
LEMMA AnsweredOrFault ==
  ASSUME TypeOK, UNCHANGED setting, Answered \/ Fault
  PROVE  faults' \in 0 .. setting'.faults
BY SettingsAssumption DEF TypeOK, Answered, Fault, Environments

\* What may become of the pod, other than that it is created, stays a pod.
LEMMA PodForms ==
  ASSUME TypeInv
  PROVE  /\ \A n \in Nodes : Build(n) \in MaybePods /\ Build(n) # NoPod
         /\ \A phase \in {"Scheduled", "Running", "Ended"} :
              pod # NoPod => [pod EXCEPT !.phase = phase] \in Pods
         /\ pod # NoPod => [pod EXCEPT !.deleting = TRUE] \in Pods
<1>1. \A n \in Nodes : Build(n) \in Pods
  BY DEF Build, Pods
<1>2. pod # NoPod => pod \in Pods
  BY DEF TypeInv, TypeOK
<1>3. ASSUME NEW phase \in {"Scheduled", "Running", "Ended"}, pod # NoPod
      PROVE  [pod EXCEPT !.phase = phase] \in Pods
  BY <1>2, <1>3 DEF Pods
<1>4. ASSUME pod # NoPod PROVE [pod EXCEPT !.deleting = TRUE] \in Pods
  BY <1>2, <1>4 DEF Pods
<1> QED
  BY <1>1, <1>3, <1>4, NoPodAssumption DEF MaybePods

\* A step of a call in flight keeps the call's place in its method.
LEMMA MoveKeepsType ==
  ASSUME TypeInv, NEW c \in Calls, call[c].at # "idle",
         Answered \/ Fault, UNCHANGED <<cluster, belief>>,
         Watching,
         \/ call[c].publish /\ \E step \in Attaching : Goto(c, step)
         \/ ~ call[c].publish /\ \E step \in Detaching : Goto(c, step)
         \/ Goto(c, "getNode")
         \/ call[c].at \in Attaching \cup Detaching /\ KeepPolling(c)
         \/ \E code \in Codes : Reply(c, code)
  PROVE  TypeInv' /\ ViewMoves
<1>1. call \in [Calls -> Call] /\ UNCHANGED setting
  BY DEF TypeInv, TypeOK, cluster
<1>2. Attaching \subseteq Steps /\ Detaching \subseteq Steps /\ "getNode" \in Steps
  BY DEF Attaching, Detaching, Steps
<1>3. /\ call' \in [Calls -> Call]
      /\ call'[c].node = call[c].node /\ call'[c].publish = call[c].publish
      /\ \A d \in Calls : d # c => call'[d] = call[d]
  BY <1>1, <1>2, GotoKeeps, ReplyKeeps, KeepPollingKeeps
<1>4. \/ call'[c].at \in Attaching /\ call[c].publish
      \/ call'[c].at \in Detaching /\ ~ call[c].publish
      \/ call'[c].at \in {"getNode", "replied"}
      \/ call'[c].at = call[c].at
  BY <1>1, <1>2, GotoKeeps, ReplyKeeps, KeepPollingKeeps
<1>5. CallsInv'
  BY <1>3, <1>4 DEF TypeInv, CallsInv, Attaching, Detaching, cluster
<1>6. faults' \in 0 .. setting'.faults
  BY <1>1, AnsweredOrFault DEF TypeInv
<1>7. PodTypes' /\ WatchInv' /\ ViewMoves
  BY <1>1, WatchKeeps
<1>8. TypeOK'
  BY <1>3, <1>6, <1>7 DEF TypeInv, TypeOK, cluster, PodTypes, MaybePods
<1> QED
  BY <1>5, <1>7, <1>8 DEF TypeInv

-----------------------------------------------------------------------------
(* Type correctness, with any number of calls at a time *)

\* All variables start with their types, and the informer in sync.
LEMMA TypeInit == Init => TypeInv
<1> SUFFICES ASSUME Init PROVE TypeInv
  OBVIOUS
<1>1. setting \in Settings /\ setting.lag \in Nat /\ setting.faults \in Nat
  BY SettingsAssumption DEF Init, Environments
<1>2. podEvents = << >> /\ << >> \in Seq(Pods \cup {NoPod}) /\ Len(<< >>) = 0
  BY EmptySeq DEF Init
<1>3. call \in [Calls -> Call] /\ \A c \in Calls : call[c].at = "idle"
  BY BoundsAssumption DEF Init, Idle, Call, Steps, Codes
<1>4. TypeOK
  BY <1>1, <1>2, <1>3 DEF Init, TypeOK, Beliefs
<1>5. CallsInv /\ WatchInv
  BY <1>2, <1>3 DEF Init, CallsInv, Attaching, Detaching, WatchInv, Seen
<1> QED
  BY <1>4, <1>5 DEF TypeInv

\* Deleting the pod by its name stores a pod that makes sense, or none.
LEMMA MarkDeletedWatches ==
  ASSUME TypeInv, pod # NoPod, MarkDeleted
  PROVE  SamePod \/ \E p \in MaybePods : SetPod(p)
BY PodForms DEF MarkDeleted, MaybePods

\* Every step of a call keeps the types.
LEMMA CallKeepsType ==
  ASSUME TypeInv, NEW c \in Calls, CallStep(c)
  PROVE  TypeInv' /\ ViewMoves
<1>1. call \in [Calls -> Call]
  BY DEF TypeInv, TypeOK
<1>2. /\ call[c].at # "idle" => call[c].node \in Nodes
      /\ call[c].at \in Attaching => call[c].publish
      /\ call[c].at \in Detaching => ~ call[c].publish
  BY DEF TypeInv, CallsInv
<1>3. /\ UNCHANGED <<pod, watch>> => Watching
      /\ UNCHANGED faults => Answered
  BY DEF Watching, SamePod, Answered
<1>4. CASE GetSplit(c)
  BY <1>3, <1>4, MoveKeepsType DEF GetSplit, Codes
<1>5. CASE GetNode(c)
  BY <1>3, <1>5, MoveKeepsType DEF GetNode, Attaching, Detaching, Codes
<1>6. CASE Attach(c)
  BY <1>2, <1>3, <1>6, MoveKeepsType DEF Attach, Attaching
<1>7. CASE CreatePod(c)
  <2>1. Watching
    <3>1. Build(call[c].node) \in MaybePods
      BY <1>2, <1>7, PodForms DEF CreatePod
    <3> QED
      BY <1>7, <3>1 DEF CreatePod, Watching
  <2>2. Goto(c, "pollAttach") \/ Reply(c, "Internal")
    BY <1>7 DEF CreatePod
  <2>3. Answered \/ Fault
    BY <1>7 DEF CreatePod
  <2> QED
    BY <1>2, <1>7, <2>1, <2>2, <2>3, MoveKeepsType DEF CreatePod, Attaching, Codes
<1>8. CASE PollAttach(c)
  <2>1. KeepPolling(c) \/ \E code \in Codes : Reply(c, code)
    BY <1>8 DEF PollAttach, Codes
  <2>2. Answered \/ Fault
    BY <1>8 DEF PollAttach
  <2> QED
    BY <1>3, <1>8, <2>1, <2>2, MoveKeepsType DEF PollAttach, Attaching
<1>9. CASE Detach(c)
  BY <1>2, <1>3, <1>9, MoveKeepsType DEF Detach, Detaching, Codes
<1>10. CASE DeletePod(c)
  <2>1. Watching
    BY <1>10, MarkDeletedWatches DEF DeletePod, Watching
  <2>2. Goto(c, "pollDetach") \/ Reply(c, "Internal") \/ Reply(c, "OK")
    BY <1>10 DEF DeletePod
  <2>3. Answered \/ Fault
    BY <1>10 DEF DeletePod
  <2> QED
    BY <1>2, <1>10, <2>1, <2>2, <2>3, MoveKeepsType DEF DeletePod, Detaching, Codes
<1>11. CASE PollDetach(c)
  <2>1. KeepPolling(c) \/ \E code \in Codes : Reply(c, code)
    BY <1>11 DEF PollDetach, Codes
  <2>2. Answered \/ Fault
    BY <1>11 DEF PollDetach
  <2> QED
    BY <1>3, <1>11, <2>1, <2>2, MoveKeepsType DEF PollDetach, Detaching
<1>12. CASE Return(c)
  <2>1. UNCHANGED <<pod, watch, cluster, faults>>
    BY <1>12 DEF Return
  <2>2. PodTypes' /\ WatchInv' /\ ViewMoves
    BY <1>3, <2>1, WatchKeeps DEF cluster
  <2>3. Idle \in Call
    BY BoundsAssumption DEF Idle, Call, Steps, Codes
  <2>4. call' \in [Calls -> Call] /\ call'[c] = Idle /\ \A d \in Calls : d # c => call'[d] = call[d]
    BY <1>1, <1>12, <2>3 DEF Return, Becomes
  <2>5. belief' \in [Nodes -> Beliefs]
    BY <1>12 DEF Return, TypeInv, TypeOK, Beliefs
  <2>6. CallsInv'
    BY <2>1, <2>4 DEF TypeInv, CallsInv, Idle, Attaching, Detaching, cluster
  <2>7. TypeOK'
    BY <2>1, <2>2, <2>4, <2>5 DEF TypeInv, TypeOK, cluster, PodTypes, MaybePods
  <2> QED
    BY <2>2, <2>6, <2>7 DEF TypeInv
<1> QED
  BY <1>4, <1>5, <1>6, <1>7, <1>8, <1>9, <1>10, <1>11, <1>12 DEF CallStep

\* So does a call that starts.
LEMMA StartKeepsType ==
  ASSUME TypeInv, NEW c \in Calls, NEW n \in Nodes, StartPublish(c, n) \/ StartUnpublish(c, n)
  PROVE  /\ TypeInv' /\ ViewMoves
         /\ call[c] = Idle /\ c \in setting.calls
         /\ UNCHANGED <<pod, watch, cluster>>
         /\ setting.prompt => podEvents = << >>
         /\ call'[c].at = "getSplit" /\ call'[c].node = n
         /\ call'[c].publish <=> StartPublish(c, n)
         /\ \A d \in Calls : d # c => call'[d] = call[d]
<1>1. /\ UNCHANGED <<pod, watch, cluster, faults>> /\ c \in setting.calls /\ call[c] = Idle
      /\ setting.prompt => podEvents = << >>
  BY DEF StartPublish, StartUnpublish, Start
<1>2. call \in [Calls -> Call]
  BY DEF TypeInv, TypeOK
<1>3. ASSUME NEW publish \in BOOLEAN, Start(c, publish, n)
      PROVE  /\ call' \in [Calls -> Call] /\ call'[c].at = "getSplit" /\ call'[c].node = n
             /\ call'[c].publish = publish
             /\ \A d \in Calls : d # c => call'[d] = call[d]
  <2> DEFINE state == [Idle EXCEPT !.at = "getSplit", !.publish = publish, !.node = n]
  <2>1. /\ state \in Call /\ state.at = "getSplit" /\ state.node = n /\ state.publish = publish
    <3>1. Idle \in Call
      BY BoundsAssumption DEF Idle, Call, Steps, Codes
    <3> QED
      BY <3>1 DEF Call, Steps
  <2>2. call' = [call EXCEPT ![c] = state]
    BY <1>3 DEF Start, Becomes
  <2> HIDE DEF state
  <2> QED
    BY <1>2, <2>1, <2>2
<1>4. /\ call' \in [Calls -> Call] /\ call'[c].at = "getSplit" /\ call'[c].node = n
      /\ \A d \in Calls : d # c => call'[d] = call[d]
  BY <1>3 DEF StartPublish, StartUnpublish
<1>5. call'[c].publish <=> StartPublish(c, n)
  <2>1. StartPublish(c, n) => call'[c].publish
    BY <1>3 DEF StartPublish
  <2>2. StartUnpublish(c, n) => ~ call'[c].publish
    BY <1>3 DEF StartUnpublish
  <2> QED
    BY <2>1, <2>2
<1>6. belief' \in [Nodes -> Beliefs]
  BY DEF StartPublish, StartUnpublish, TypeInv, TypeOK, Beliefs
<1>7. PodTypes' /\ WatchInv' /\ ViewMoves
  BY <1>1, WatchKeeps DEF Watching, SamePod, cluster
<1>8. CallsInv'
  BY <1>1, <1>4 DEF TypeInv, CallsInv, Attaching, Detaching, cluster
<1>9. TypeOK'
  BY <1>1, <1>4, <1>6, <1>7 DEF TypeInv, TypeOK, cluster, PodTypes, MaybePods
<1> QED
  BY <1>1, <1>4, <1>5, <1>7, <1>8, <1>9 DEF TypeInv

\* The steps of the cluster, the watch and crashes.
Elsewhere ==
  \/ Advance \/ RemovePod \/ Evict
  \/ \E n \in Nodes : LoseNode(n)
  \/ LoseSplit \/ Deliver \/ Crash
  \/ UNCHANGED vars

\* What happens outside the calls keeps the types, starts no call, changes
\* nobody's mind and moves the informer's view as the watch does.
LEMMA ElsewhereKeepsType ==
  ASSUME TypeInv, Elsewhere
  PROVE  /\ TypeInv' /\ ViewMoves
         /\ UNCHANGED <<belief, setting>>
         /\ \A c \in Calls : call'[c].at = "idle" \/ call'[c] = call[c]
<1>1. UNCHANGED <<belief, setting>>
  BY DEF Elsewhere, Advance, RemovePod, Evict, LoseNode, LoseSplit, Deliver, Crash, vars, cluster
<1>2. Watching
  <2>1. CASE Advance
    BY <2>1, PodForms DEF Advance, Watching, MaybePods
  <2>2. CASE RemovePod
    BY <2>2 DEF RemovePod, Watching, MaybePods
  <2>3. CASE Evict
    BY <2>3, PodForms, MarkDeletedWatches DEF Evict, Watching, MaybePods
  <2>4. CASE ~ (Advance \/ RemovePod \/ Evict)
    BY <2>4 DEF Elsewhere, LoseNode, LoseSplit, vars, Watching, SamePod
  <2> QED
    BY <2>1, <2>2, <2>3, <2>4
<1>3. Idle \in Call
  BY BoundsAssumption DEF Idle, Call, Steps, Codes
<1>4. \/ UNCHANGED <<call, faults>>
      \/ /\ call' = [c \in Calls |-> Idle]
         /\ Fault
  BY DEF Elsewhere, Advance, RemovePod, Evict, LoseNode, LoseSplit, Deliver, Crash, vars
<1>5. /\ call' \in [Calls -> Call]
      /\ \A c \in Calls : call'[c].at = "idle" \/ call'[c] = call[c]
  <2>1. CASE UNCHANGED <<call, faults>>
    BY <2>1 DEF TypeInv, TypeOK
  <2>2. CASE call' = [c \in Calls |-> Idle]
    <3>1. Idle.at = "idle"
      BY DEF Idle
    <3> QED
      BY <1>3, <2>2, <3>1
  <2> QED
    BY <1>4, <2>1, <2>2
<1>6. faults' \in 0 .. setting'.faults
  BY <1>1, <1>4, AnsweredOrFault DEF TypeInv, Answered
<1>7. split' \in BOOLEAN /\ nodes' \subseteq Nodes
  BY DEF Elsewhere, Advance, RemovePod, Evict, LoseNode, LoseSplit, Deliver, Crash, vars, cluster,
         TypeInv, TypeOK
<1>8. PodTypes' /\ WatchInv' /\ ViewMoves
  BY <1>1, <1>2, WatchKeeps
<1>9. CallsInv'
  BY <1>1, <1>5 DEF TypeInv, CallsInv, Attaching, Detaching
<1>10. TypeOK'
  BY <1>1, <1>5, <1>6, <1>7, <1>8 DEF TypeInv, TypeOK, PodTypes, MaybePods
<1> QED
  BY <1>1, <1>5, <1>8, <1>9, <1>10 DEF TypeInv

\* Every step keeps the types.
LEMMA TypeNext == TypeInv /\ [Next]_vars => TypeInv' /\ ViewMoves
BY CallKeepsType, StartKeepsType, ElsewhereKeepsType DEF Next, Elsewhere

\* With any number of calls at a time every variable keeps its type: the
\* informer's backlog is the pod's history, and no wait polls once too often.
THEOREM AttachmentTypeOK == Spec => []TypeOK
<1>1. TypeInv => TypeOK
  BY DEF TypeInv
<1> QED
  BY <1>1, TypeInit, TypeNext, PTL DEF Spec

-----------------------------------------------------------------------------
(* What a step does to the pod, and why *)

\* Where a call has come from tells what it has seen.
LEMMA CallMoves ==
  ASSUME TypeInv, NEW c \in Calls, CallStep(c), call[c].at # "replied"
  PROVE  LET n == call[c].node IN
         /\ UNCHANGED <<cluster, belief>>
         /\ call'[c].node = n /\ call'[c].publish = call[c].publish
         /\ \A d \in Calls : d # c => call'[d] = call[d]
         /\ call[c].at # "idle" /\ call'[c].at # "idle"
         /\ call'[c].at \in Looking => call[c].at \in Looking /\ UNCHANGED pod
         /\ call'[c].at = "createPod" => call[c].at = "attach" /\ podCache = NoPod /\ UNCHANGED pod
         /\ call'[c].at = "deletePod" =>
              call[c].at = "detach" /\ podCache # NoPod /\ AssignedTo(podCache, n) /\ UNCHANGED pod
         /\ call'[c].at = "pollDetach" =>
              \/ /\ call[c].at = "detach" /\ podCache # NoPod /\ AssignedTo(podCache, n)
                 /\ UNCHANGED pod
              \/ call[c].at = "pollDetach" /\ UNCHANGED pod
              \/ call[c].at = "deletePod"
         /\ AnsweredOK(c)' /\ call[c].publish =>
              /\ UNCHANGED pod
              /\ podCache # NoPod /\ isPodRunning(podCache) /\ podCache.node = n
         /\ AnsweredOK(c)' /\ ~ call[c].publish =>
              /\ UNCHANGED pod
              /\ \/ /\ call[c].at \in {"detach", "pollDetach"}
                    /\ podCache = NoPod \/ ~ AssignedTo(podCache, n)
                 \/ pod = NoPod
         /\ \/ UNCHANGED pod
            \/ call[c].at = "createPod" /\ pod = NoPod /\ pod' = Build(n)
            \/ call[c].at = "deletePod" /\ pod # NoPod /\ MarkDeleted
<1> DEFINE n == call[c].node
<1>1. call \in [Calls -> Call]
  BY DEF TypeInv, TypeOK
<1>2. /\ call[c].at \in Attaching => call[c].publish
      /\ call[c].at \in Detaching => ~ call[c].publish
  BY DEF TypeInv, CallsInv
<1>3. ASSUME NEW step \in Steps, Goto(c, step)
      PROVE  /\ call'[c].node = n /\ call'[c].publish = call[c].publish
             /\ \A d \in Calls : d # c => call'[d] = call[d]
             /\ call'[c].at = step
  BY <1>1, <1>3, GotoKeeps
<1>4. ASSUME NEW code \in Codes, Reply(c, code)
      PROVE  /\ call'[c].node = n /\ call'[c].publish = call[c].publish
             /\ \A d \in Calls : d # c => call'[d] = call[d]
             /\ call'[c].at = "replied" /\ call'[c].code = code
  BY <1>1, <1>4, ReplyKeeps
<1>5. ASSUME KeepPolling(c)
      PROVE  /\ call'[c].node = n /\ call'[c].publish = call[c].publish
             /\ \A d \in Calls : d # c => call'[d] = call[d]
             /\ \/ call'[c].at = call[c].at
                \/ call'[c].at = "replied" /\ call'[c].code = "Internal"
  BY <1>1, <1>5, KeepPollingKeeps
<1> USE DEF Steps, Codes, Looking, AnsweredOK
<1>6. CASE GetSplit(c)
  BY <1>3, <1>4, <1>6 DEF GetSplit
<1>7. CASE GetNode(c)
  BY <1>3, <1>4, <1>7 DEF GetNode
<1>8. CASE Attach(c)
  BY <1>3, <1>8 DEF Attach
<1>9. CASE CreatePod(c)
  BY <1>3, <1>4, <1>9 DEF CreatePod, SetPod, SamePod
<1>10. CASE PollAttach(c)
  BY <1>2, <1>4, <1>5, <1>10 DEF PollAttach, Attaching
<1>11. CASE Detach(c)
  BY <1>2, <1>3, <1>4, <1>11 DEF Detach, Detaching
<1>12. CASE DeletePod(c)
  BY <1>2, <1>3, <1>4, <1>12 DEF DeletePod, SamePod, Detaching
<1>13. CASE PollDetach(c)
  BY <1>2, <1>4, <1>5, <1>13 DEF PollDetach, Detaching
<1>14. ~ Return(c)
  BY DEF Return
<1> QED
  BY <1>6, <1>7, <1>8, <1>9, <1>10, <1>11, <1>12, <1>13, <1>14 DEF CallStep

\* A call that returns changes nothing but itself and the CO's belief.
LEMMA ReturnMoves ==
  ASSUME TypeInv, NEW c \in Calls, CallStep(c), call[c].at = "replied"
  PROVE  /\ Return(c)
         /\ UNCHANGED <<pod, cluster>>
         /\ call'[c].at = "idle" /\ \A d \in Calls : d # c => call'[d] = call[d]
<1>1. Return(c)
  BY DEF CallStep, GetSplit, GetNode, Attach, CreatePod, PollAttach, Detach, DeletePod, PollDetach
<1> QED
  BY <1>1 DEF Return, Becomes, Idle, TypeInv, TypeOK

\* With one call at a time nobody else is at work.
LEMMA Alone ==
  ASSUME TypeInv, Serial, NEW c \in Calls, c \in setting.calls
  PROVE  \A d \in Calls : d # c => call[d].at = "idle"
BY DEF Serial, TypeInv, CallsInv

-----------------------------------------------------------------------------
(* Nobody else takes pods away *)

\* The pod lives on, ends, or begins, and what the informer has yet to hear of
\* stays the life of one pod.
LEMMA LifeKeeps ==
  ASSUME TypeInv, TypeInv', ViewMoves, LifeInv, UNCHANGED nodes,
         \/ UNCHANGED pod
         \/ /\ pod # NoPod /\ pod' # NoPod /\ Follows(pod, pod')
            /\ ~ isPodTerminating(pod')
            /\ pod'.deleting => /\ pod'.phase # "Pending"
                                /\ \A p \in MaybePods : InView(p) => p # NoPod
         \/ /\ pod # NoPod /\ pod' = NoPod
            /\ \A p \in MaybePods : InView(p) => p # NoPod
         \/ /\ pod = NoPod
            /\ \A p \in MaybePods : InView(p) => p = NoPod
            /\ \E n \in Nodes : pod' = Build(n)
  PROVE  LifeInv'
<1>1. /\ nodes' = Nodes /\ pod \in MaybePods /\ pod' \in MaybePods
      /\ \A p \in MaybePods : InView(p) => Before(p, pod)
  BY ViewFacts DEF LifeInv, TypeInv, TypeOK, MaybePods
<1>2. \A p, q \in MaybePods : p # NoPod /\ q # NoPod /\ Before(p, q) => Follows(p, q)
  BY DEF LifeInv
<1>3. \A p, q \in MaybePods :
        Before(p, q) /\ (p = NoPod <=> pod = NoPod) => (q = NoPod <=> pod = NoPod)
  BY DEF LifeInv
<1>4. \A p, q \in MaybePods : Before(p, q) => InView(p)
  BY ViewFacts
<1>5. /\ \A p \in MaybePods : InView(p)' => InView(p) \/ p = pod'
      /\ \A p, q \in MaybePods :
           Before(p, q)' => Before(p, q) \/ (q = pod' /\ (InView(p) \/ p = pod'))
  BY DEF ViewMoves
<1>6. \A n \in Nodes : Build(n) # NoPod /\ ~ Build(n).deleting /\ Build(n).phase = "Pending"
  BY PodForms DEF Build
<1>7. pod' # NoPod =>
        /\ ~ isPodTerminating(pod')
        /\ pod'.deleting => pod'.phase # "Pending"
        /\ pod'.deleting => \A p \in MaybePods : InView(p)' => p # NoPod
  <2>1. CASE UNCHANGED pod
    BY <1>5, <2>1 DEF LifeInv
  <2>2. CASE \E n \in Nodes : pod' = Build(n)
    BY <1>6, <2>2 DEF isPodTerminating
  <2> QED
    BY <1>5, <2>1, <2>2
<1>8. ASSUME NEW p \in MaybePods, NEW q \in MaybePods, Before(p, q)', p # NoPod, q # NoPod
      PROVE  Follows(p, q)
  <2>1. CASE Before(p, q)
    BY <1>2, <1>8, <2>1
  <2>2. CASE p = q
    BY <2>2 DEF Follows
  <2>3. CASE q = pod' /\ InView(p) /\ p # q
    <3>1. pod' # NoPod /\ ~ (\A r \in MaybePods : InView(r) => r = NoPod)
      BY <1>8, <2>3
    <3>2. pod # NoPod => Follows(p, pod)
      BY <1>1, <1>2, <1>8, <2>3
    <3> QED
      BY <1>8, <2>3, <3>1, <3>2 DEF Follows, LifeInv
  <2> QED
    BY <1>5, <1>8, <2>1, <2>2, <2>3
<1>9. ASSUME NEW p \in MaybePods, NEW q \in MaybePods, Before(p, q)',
             p = NoPod <=> pod' = NoPod
      PROVE  q = NoPod <=> pod' = NoPod
  BY <1>3, <1>4, <1>5, <1>6, <1>9
<1> QED
  BY <1>1, <1>7, <1>8, <1>9 DEF LifeInv

\* Undisturbed, a pod only advances, or goes once its deletion is marked.
LEMMA ElsewherePod ==
  ASSUME TypeInv, LifeInv, Undisturbed, Elsewhere
  PROVE  /\ UNCHANGED nodes
         /\ \/ UNCHANGED pod
            \/ /\ pod # NoPod /\ ~ pod.deleting
               /\ pod' # NoPod /\ ~ pod'.deleting
               /\ Follows(pod, pod') /\ ~ isPodTerminating(pod')
            \/ pod # NoPod /\ pod.deleting /\ pod' = NoPod
<1>1. ~ setting.evicting /\ ~ setting.leaving /\ nodes = Nodes
  BY DEF Undisturbed, LifeInv
<1>2. ~ Evict /\ ~ LoseSplit /\ \A n \in Nodes : ~ LoseNode(n)
  BY <1>1 DEF Evict, LoseSplit, LoseNode
<1>3. CASE Advance
  <2>1. pod \in Pods /\ ~ pod.deleting
    BY <1>3 DEF Advance, TypeInv, TypeOK
  <2>2. \/ pod.phase = "Pending" /\ pod' = [pod EXCEPT !.phase = "Scheduled"]
        \/ pod.phase = "Scheduled" /\ pod' = [pod EXCEPT !.phase = "Running"]
    BY <1>3 DEF Advance, SetPod
  <2>3. pod' \in Pods /\ ~ pod'.deleting /\ Follows(pod, pod') /\ ~ isPodTerminating(pod')
    BY <2>1, <2>2 DEF Pods, Follows, isPodTerminating, isPodRunning
  <2> QED
    BY <1>3, <2>1, <2>3, NoPodAssumption DEF Advance, cluster
<1>4. CASE RemovePod
  <2>1. pod # NoPod => pod.node \in nodes
    BY <1>1 DEF TypeInv, TypeOK, Pods
  <2> QED
    BY <1>4, <2>1 DEF RemovePod, SetPod, cluster
<1>5. CASE Deliver \/ Crash \/ UNCHANGED vars
  BY <1>5 DEF Deliver, Crash, vars, cluster
<1> QED
  BY <1>2, <1>3, <1>4, <1>5 DEF Elsewhere

\* With one call at a time every step keeps the invariant: Attach that finds
\* nothing cached creates when there is nothing, Detach that finds a pod cached
\* deletes that pod or none.
LEMMA UndisturbedNext ==
  ASSUME TypeInv, Serial, Undisturbed, UndisturbedInv, [Next]_vars
  PROVE  UndisturbedInv'
<1>1. TypeInv' /\ ViewMoves
  BY TypeNext
<1>2. \A p \in MaybePods : InView(p)' => InView(p) \/ p = pod'
  BY <1>1 DEF ViewMoves
<1>3. LifeInv
  BY DEF UndisturbedInv
<1>4. ASSUME NEW c \in Calls, CallStep(c) PROVE UndisturbedInv'
  <2> DEFINE n == call[c].node
  <2>1. CASE call[c].at = "replied"
    <3>1. UNCHANGED <<pod, cluster>> /\ call'[c].at = "idle"
          /\ \A d \in Calls : d # c => call'[d] = call[d]
      BY <1>4, <2>1, ReturnMoves
    <3>2. LifeInv'
      BY <1>1, <1>3, <3>1, LifeKeeps DEF cluster
    <3> QED
      BY <1>2, <3>1, <3>2 DEF UndisturbedInv
  <2>2. CASE call[c].at # "replied"
    <3>1. /\ UNCHANGED cluster /\ call[c].at # "idle" /\ call'[c].node = n
          /\ \A d \in Calls : d # c => call'[d] = call[d]
      BY <1>4, <2>2, CallMoves
    <3>2. c \in setting.calls /\ n \in Nodes
      BY <3>1 DEF TypeInv, CallsInv
    <3>3. \A d \in Calls : d # c => call'[d].at = "idle"
      BY <3>1, <3>2, Alone
    <3>4. CASE UNCHANGED pod
      <4>1. LifeInv'
        BY <1>1, <1>3, <3>1, <3>4, LifeKeeps DEF cluster
      <4>2. ASSUME call'[c].at = "createPod"
            PROVE  IF pod = NoPod THEN \A p \in MaybePods : InView(p)' => p = NoPod
                                  ELSE ~ pod.deleting
        <5>1. podCache = NoPod /\ InView(podCache) /\ podCache \in MaybePods
          BY <1>4, <2>2, <4>2, CallMoves, ViewFacts
        <5>2. ASSUME pod = NoPod, NEW p \in MaybePods, InView(p) PROVE p = NoPod
          BY <1>3, <5>1, <5>2, ViewFacts DEF LifeInv
        <5>3. pod # NoPod => ~ pod.deleting
          BY <1>3, <5>1 DEF LifeInv
        <5> QED
          BY <1>2, <3>4, <5>2, <5>3
      <4>3. ASSUME call'[c].at = "deletePod", pod # NoPod
            PROVE  AssignedTo(pod, n) /\ \A p \in MaybePods : InView(p)' => p # NoPod
        <5>1. podCache # NoPod /\ AssignedTo(podCache, n) /\ podCache \in MaybePods
          BY <1>4, <2>2, <4>3, CallMoves, ViewFacts
        <5>2. pod \in MaybePods /\ Before(podCache, pod)
          BY ViewFacts
        <5>3. Follows(podCache, pod)
          BY <1>3, <4>3, <5>1, <5>2 DEF LifeInv
        <5>4. ASSUME NEW p \in MaybePods, InView(p) PROVE p # NoPod
          BY <1>3, <4>3, <5>1, <5>4, ViewFacts DEF LifeInv
        <5> QED
          BY <1>2, <3>4, <4>3, <5>1, <5>3, <5>4 DEF Follows, AssignedTo
      <4> QED
        BY <3>1, <3>3, <3>4, <4>1, <4>2, <4>3 DEF UndisturbedInv
    <3>5. CASE call[c].at = "createPod" /\ pod = NoPod /\ pod' = Build(n)
      <4>1. LifeInv'
        BY <1>1, <1>3, <3>1, <3>2, <3>5, LifeKeeps DEF cluster, UndisturbedInv
      <4>2. call'[c].at \notin {"createPod", "deletePod"}
        BY <1>4, <2>2, <3>5, CallMoves
      <4> QED
        BY <3>3, <4>1, <4>2 DEF UndisturbedInv
    <3>6. CASE call[c].at = "deletePod" /\ pod # NoPod /\ MarkDeleted
      <4>1. AssignedTo(pod, n) /\ \A p \in MaybePods : InView(p) => p # NoPod
        BY <3>6 DEF UndisturbedInv
      <4>2. pod \in Pods /\ pod.phase # "Pending"
        BY <3>6, <4>1 DEF AssignedTo, TypeInv, TypeOK
      <4>3. pod' = [pod EXCEPT !.deleting = TRUE] \/ UNCHANGED pod
        BY <3>6, <4>2 DEF MarkDeleted, SetPod, SamePod
      <4>4. pod' = [pod EXCEPT !.deleting = TRUE] =>
              /\ pod' \in Pods /\ Follows(pod, pod') /\ pod'.phase # "Pending"
              /\ isPodTerminating(pod') <=> isPodTerminating(pod)
        BY <4>2 DEF Pods, Follows, isPodTerminating, isPodRunning
      <4>5. LifeInv'
        BY <1>1, <1>3, <3>1, <3>6, <4>1, <4>3, <4>4, LifeKeeps, NoPodAssumption
        DEF cluster, LifeInv
      <4>6. call'[c].at \notin {"createPod", "deletePod"}
        BY <1>4, <2>2, <3>6, CallMoves
      <4> QED
        BY <3>3, <4>5, <4>6 DEF UndisturbedInv
    <3> QED
      BY <1>4, <2>2, <3>4, <3>5, <3>6, CallMoves
  <2> QED
    BY <2>1, <2>2
<1>5. ASSUME NEW c \in Calls, NEW n \in Nodes, StartPublish(c, n) \/ StartUnpublish(c, n)
      PROVE  UndisturbedInv'
  <2>1. /\ UNCHANGED <<pod, cluster>> /\ call'[c].at = "getSplit"
        /\ \A d \in Calls : d # c => call'[d] = call[d]
    BY <1>5, StartKeepsType
  <2>2. LifeInv'
    BY <1>1, <1>3, <2>1, LifeKeeps DEF cluster
  <2> QED
    BY <1>2, <2>1, <2>2 DEF UndisturbedInv
<1>6. CASE Elsewhere
  <2>1. \A c \in Calls : call'[c].at = "idle" \/ call'[c] = call[c]
    BY <1>6, ElsewhereKeepsType
  <2>2. /\ UNCHANGED nodes
        /\ \/ UNCHANGED pod
           \/ /\ pod # NoPod /\ ~ pod.deleting
              /\ pod' # NoPod /\ ~ pod'.deleting
              /\ Follows(pod, pod') /\ ~ isPodTerminating(pod')
           \/ pod # NoPod /\ pod.deleting /\ pod' = NoPod
    BY <1>3, <1>6, ElsewherePod
  <2>3. LifeInv'
    BY <1>1, <1>3, <2>2, LifeKeeps DEF LifeInv
  <2>4. ASSUME NEW c \in Calls, call[c].at = "createPod"
        PROVE  IF pod' = NoPod THEN \A p \in MaybePods : InView(p)' => p = NoPod
                               ELSE ~ pod'.deleting
    BY <1>2, <2>2, <2>4 DEF UndisturbedInv
  <2>5. ASSUME NEW c \in Calls, call[c].at = "deletePod", pod' # NoPod
        PROVE  /\ AssignedTo(pod', call[c].node)
               /\ \A p \in MaybePods : InView(p)' => p # NoPod
    BY <1>2, <2>2, <2>5 DEF UndisturbedInv, Follows, AssignedTo
  <2> QED
    BY <2>1, <2>3, <2>4, <2>5 DEF UndisturbedInv
<1> QED
  BY <1>4, <1>5, <1>6 DEF Next, Elsewhere

-----------------------------------------------------------------------------
(* The CO's side, and calls that start with a cache that has caught up *)

\* A call starts because of what the CO believes, which nothing else changes.
LEMMA BeliefNext ==
  ASSUME TypeInv, Serial, BeliefInv, [Next]_vars
  PROVE  BeliefInv'
<1>1. ASSUME NEW c \in Calls, CallStep(c) PROVE BeliefInv'
  <2>1. CASE call[c].at = "replied"
    <3>1. /\ call'[c].at = "idle" /\ \A d \in Calls : d # c => call'[d] = call[d]
      BY <1>1, <2>1, ReturnMoves
    <3>2. \A d \in Calls : d # c => call[d].at = "idle"
      BY <2>1, Alone DEF TypeInv, CallsInv
    <3> QED
      BY <3>1, <3>2 DEF BeliefInv
  <2>2. CASE call[c].at # "replied"
    BY <1>1, <2>2, CallMoves DEF BeliefInv
  <2> QED
    BY <2>1, <2>2
<1>2. ASSUME NEW c \in Calls, NEW n \in Nodes, StartPublish(c, n) \/ StartUnpublish(c, n)
      PROVE  BeliefInv'
  <2>1. /\ c \in setting.calls /\ call'[c].node = n
        /\ call'[c].publish <=> StartPublish(c, n)
        /\ \A d \in Calls : d # c => call'[d] = call[d]
    BY <1>2, StartKeepsType
  <2>2. \A d \in Calls : d # c => call'[d].at = "idle"
    BY <2>1, Alone
  <2>3. belief \in [Nodes -> Beliefs]
    BY DEF TypeInv, TypeOK
  <2>4. StartPublish(c, n) => belief'[n] \in {"unsure", "published"}
    BY <2>3 DEF StartPublish, Beliefs
  <2>5. StartUnpublish(c, n) => belief'[n] \in {"detaching"}
    BY <2>3 DEF StartUnpublish
  <2> QED
    BY <1>2, <2>1, <2>2, <2>4, <2>5 DEF BeliefInv
<1>3. CASE Elsewhere
  BY <1>3, ElsewhereKeepsType DEF BeliefInv
<1> QED
  BY <1>1, <1>2, <1>3 DEF Next, Elsewhere

\* Whatever else the cluster does, it does not create attach pods or move them.
LEMMA DisturbedPod ==
  ASSUME TypeInv, Elsewhere
  PROVE  \/ UNCHANGED pod
         \/ pod # NoPod /\ pod' = NoPod
         \/ /\ pod # NoPod /\ pod' # NoPod /\ pod'.node = pod.node
            /\ pod.phase # "Pending" => pod'.phase # "Pending"
<1>1. pod # NoPod => pod \in Pods
  BY DEF TypeInv, TypeOK
<1>2. \A phase \in {"Scheduled", "Running", "Ended"} :
        pod # NoPod => LET p == [pod EXCEPT !.phase = phase]
                       IN  p # NoPod /\ p.node = pod.node /\ p.phase # "Pending"
  BY <1>1, PodForms, NoPodAssumption DEF Pods
<1>3. pod # NoPod => LET p == [pod EXCEPT !.deleting = TRUE]
                     IN  p # NoPod /\ p.node = pod.node /\ p.phase = pod.phase
  BY <1>1, PodForms, NoPodAssumption DEF Pods
<1>4. CASE Advance
  BY <1>2, <1>4 DEF Advance, SetPod
<1>5. CASE RemovePod
  BY <1>5 DEF RemovePod, SetPod
<1>6. CASE Evict
  BY <1>2, <1>3, <1>6 DEF Evict, MarkDeleted, SetPod, SamePod
<1>7. CASE ~ (Advance \/ RemovePod \/ Evict)
  BY <1>7 DEF Elsewhere, LoseNode, LoseSplit, Deliver, Crash, vars
<1> QED
  BY <1>4, <1>5, <1>6, <1>7

\* With one call at a time every step keeps the invariant: nobody creates a pod
\* while Unpublish is at work, so the one it deletes is the one it found.
LEMMA PromptNext ==
  ASSUME TypeInv, Serial, setting.prompt, PromptInv, [Next]_vars
  PROVE  PromptInv'
<1>1. \A p \in MaybePods : InView(p)' => InView(p) \/ p = pod'
  BY TypeNext DEF ViewMoves
<1>2. NoPod \in MaybePods
  BY DEF MaybePods
<1>3. ASSUME NEW c \in Calls, CallStep(c) PROVE PromptInv'
  <2> DEFINE n == call[c].node
  <2>1. CASE call[c].at = "replied"
    <3>1. /\ call'[c].at = "idle" /\ \A d \in Calls : d # c => call'[d] = call[d]
      BY <1>3, <2>1, ReturnMoves
    <3>2. \A d \in Calls : d # c => call[d].at = "idle"
      BY <2>1, Alone DEF TypeInv, CallsInv
    <3> QED
      BY <3>1, <3>2 DEF PromptInv, Looking
  <2>2. CASE call[c].at # "replied"
    <3>1. /\ call[c].at # "idle" /\ call'[c].node = n /\ call'[c].publish = call[c].publish
          /\ \A d \in Calls : d # c => call'[d] = call[d]
      BY <1>3, <2>2, CallMoves
    <3>2. \A d \in Calls : d # c => call'[d].at = "idle"
      BY <3>1, Alone DEF TypeInv, CallsInv
    <3>3. ASSUME call'[c].at \in Looking, ~ call[c].publish, NEW p \in MaybePods, InView(p)',
                 p # NoPod, AssignedTo(p, n)
          PROVE  pod' = NoPod \/ AssignedTo(pod', n)
      <4>1. call[c].at \in Looking /\ UNCHANGED pod
        BY <1>3, <2>2, <3>3, CallMoves
      <4> QED
        BY <1>1, <3>3, <4>1 DEF PromptInv
    <3>4. ASSUME call'[c].at = "deletePod" PROVE pod' = NoPod \/ AssignedTo(pod', n)
      <4>1. /\ call[c].at = "detach" /\ podCache # NoPod /\ AssignedTo(podCache, n)
            /\ UNCHANGED pod
        BY <1>3, <2>2, <3>4, CallMoves
      <4>2. ~ call[c].publish
        BY <4>1 DEF TypeInv, CallsInv, Detaching
      <4>3. InView(podCache) /\ podCache \in MaybePods
        BY ViewFacts
      <4> QED
        BY <4>1, <4>2, <4>3 DEF PromptInv, Looking
    <3>5. ASSUME ~ call[c].publish, InView(NoPod)' PROVE pod' = NoPod
      <4>1. pod = NoPod => pod' = NoPod
        <5>1. call[c].at # "createPod"
          BY <3>5 DEF TypeInv, CallsInv, Attaching
        <5> QED
          BY <1>3, <2>2, <5>1, CallMoves
      <4> QED
        BY <1>1, <1>2, <3>1, <3>5, <4>1 DEF PromptInv
    <3> QED
      BY <3>1, <3>2, <3>3, <3>4, <3>5 DEF PromptInv, Looking
  <2> QED
    BY <2>1, <2>2
<1>4. ASSUME NEW c \in Calls, NEW n \in Nodes, StartPublish(c, n) \/ StartUnpublish(c, n)
      PROVE  PromptInv'
  <2>1. /\ c \in setting.calls /\ call'[c].at = "getSplit" /\ UNCHANGED pod
        /\ setting.prompt => podEvents = << >>
        /\ \A d \in Calls : d # c => call'[d] = call[d]
    BY <1>4, StartKeepsType
  <2>2. \A d \in Calls : d # c => call'[d].at = "idle"
    BY <2>1, Alone
  <2>3. \A p \in MaybePods : InView(p)' => p = pod'
    BY <1>1, <2>1, ViewFacts
  <2> QED
    BY <1>2, <2>1, <2>2, <2>3 DEF PromptInv, Looking
<1>5. CASE Elsewhere
  <2>1. \A c \in Calls : call'[c].at = "idle" \/ call'[c] = call[c]
    BY <1>5, ElsewhereKeepsType
  <2>2. \A n : pod = NoPod \/ AssignedTo(pod, n) => pod' = NoPod \/ AssignedTo(pod', n)
    BY <1>5, DisturbedPod DEF AssignedTo
  <2>3. pod = NoPod => pod' = NoPod
    BY <1>5, DisturbedPod
  <2>4. ASSUME NEW c \in Calls, call[c].at \in Looking, ~ call[c].publish,
               NEW p \in MaybePods, InView(p)', p # NoPod, AssignedTo(p, call[c].node)
        PROVE  pod' = NoPod \/ AssignedTo(pod', call[c].node)
    BY <1>1, <2>2, <2>4 DEF PromptInv
  <2>5. ASSUME NEW c \in Calls, call[c].at = "deletePod"
        PROVE  pod' = NoPod \/ AssignedTo(pod', call[c].node)
    BY <2>2, <2>5 DEF PromptInv
  <2>6. ASSUME NEW c \in Calls, call[c].at # "idle", ~ call[c].publish, InView(NoPod)'
        PROVE  pod' = NoPod
    BY <1>1, <1>2, <2>3, <2>6 DEF PromptInv
  <2> QED
    BY <2>1, <2>4, <2>5, <2>6 DEF PromptInv, Looking
<1> QED
  BY <1>3, <1>4, <1>5 DEF Next, Elsewhere

-----------------------------------------------------------------------------
(* Both: the cache has caught up before each call, and nobody else takes pods *)

\* What the call in flight finds in the cache is enough: kubelet's and the
\* scheduler's steps keep the invariant.
LEMMA SteadyElsewhere ==
  ASSUME TypeInv, Undisturbed, UndisturbedInv, SteadyInv, Elsewhere
  PROVE  SteadyInv'
<1>1. \A p \in MaybePods : InView(p)' => InView(p) \/ p = pod'
  BY TypeNext DEF ViewMoves, Next, Elsewhere
<1>2. /\ UNCHANGED belief
      /\ \A c \in Calls : call'[c].at = "idle" \/ call'[c] = call[c]
  BY ElsewhereKeepsType
<1>3. /\ InView(pod) /\ pod \in MaybePods
  BY ViewFacts
<1>4. \/ UNCHANGED pod
      \/ /\ pod # NoPod /\ ~ pod.deleting /\ pod' # NoPod /\ ~ pod'.deleting
         /\ Follows(pod, pod')
      \/ pod # NoPod /\ pod.deleting /\ pod' = NoPod
  BY ElsewherePod DEF UndisturbedInv
<1>5. \A n : Attached(n) => Attached(n)'
  BY <1>4 DEF Attached, Follows
<1>6. pod' # NoPod /\ pod'.deleting => belief'[pod'.node] = "detaching"
  BY <1>2, <1>4 DEF SteadyInv
<1>7. ASSUME NEW c \in Calls, call[c].at # "idle", call[c].publish,
             NEW p \in MaybePods, InView(p)', p # NoPod, p.node = call[c].node
      PROVE  pod' # NoPod /\ pod'.node = call[c].node /\ ~ pod'.deleting
  BY <1>1, <1>3, <1>4, <1>7 DEF SteadyInv, Follows
<1>8. ASSUME NEW c \in Calls, call[c].at \in Looking, ~ call[c].publish,
             pod' # NoPod, pod'.deleting,
             NEW p \in MaybePods, InView(p)'
      PROVE  p = pod'
  BY <1>1, <1>4, <1>8 DEF SteadyInv
<1>9. ASSUME NEW c \in Calls, call[c].at \in {"deletePod", "pollDetach"},
             NEW p \in MaybePods, InView(p)', p # NoPod
      PROVE  AssignedTo(p, call[c].node)
  BY <1>1, <1>3, <1>4, <1>9 DEF SteadyInv, Follows, AssignedTo
<1>10. ASSUME NEW c \in Calls, AnsweredOK(c), ~ call[c].publish, pod' # NoPod,
              pod'.node = call[c].node
       PROVE  ~ pod'.deleting
  BY <1>4, <1>10 DEF SteadyInv, Follows
<1> QED
  BY <1>2, <1>5, <1>6, <1>7, <1>8, <1>9, <1>10 DEF SteadyInv, AnsweredOK, Looking

\* So do the calls as they start and return.
LEMMA SteadyStart ==
  ASSUME TypeInv, Serial, setting.prompt, SteadyInv,
         NEW c \in Calls, NEW n \in Nodes, StartPublish(c, n) \/ StartUnpublish(c, n)
  PROVE  SteadyInv'
<1>1. /\ ViewMoves /\ UNCHANGED <<pod, cluster>> /\ podEvents = << >> /\ c \in setting.calls
      /\ call'[c].at = "getSplit" /\ call'[c].node = n
      /\ call'[c].publish <=> StartPublish(c, n)
      /\ \A d \in Calls : d # c => call'[d] = call[d]
  BY StartKeepsType
<1>2. \A d \in Calls : d # c => call'[d].at = "idle"
  BY <1>1, Alone
<1>3. \A p \in MaybePods : InView(p)' => p = pod
  BY <1>1, ViewFacts DEF ViewMoves
<1>4. /\ pod # NoPod => pod.node \in Nodes
      /\ belief \in [Nodes -> Beliefs]
  BY DEF TypeInv, TypeOK, Pods
<1>5. /\ \A m \in Nodes : belief'[m] = "published" => belief[m] = "published"
      /\ \A m \in Nodes : belief[m] = "detaching" => belief'[m] = "detaching"
      /\ StartPublish(c, n) => belief[n] # "detaching"
  BY <1>4 DEF StartPublish, StartUnpublish
<1>6. pod' # NoPod /\ pod'.deleting => belief'[pod'.node] = "detaching"
  BY <1>1, <1>4, <1>5 DEF SteadyInv
<1>7. \A m \in Nodes : belief'[m] = "published" => Attached(m)'
  BY <1>1, <1>5 DEF SteadyInv, Attached
<1>8. call'[c].publish =>
        \A p \in MaybePods : InView(p)' /\ p # NoPod /\ p.node = n =>
                               pod' # NoPod /\ pod'.node = n /\ ~ pod'.deleting
  BY <1>1, <1>3, <1>5 DEF SteadyInv
<1> QED
  BY <1>1, <1>2, <1>3, <1>6, <1>7, <1>8 DEF SteadyInv, AnsweredOK, Looking

\* A reply that reaches the CO tells it what is still true of the pod.
LEMMA SteadyReturn ==
  ASSUME TypeInv, Serial, SteadyInv,
         NEW c \in Calls, CallStep(c), call[c].at = "replied"
  PROVE  SteadyInv'
<1> DEFINE n == call[c].node
<1>1. /\ Return(c) /\ UNCHANGED <<pod, cluster>> /\ call'[c].at = "idle"
      /\ \A d \in Calls : d # c => call'[d] = call[d]
  BY ReturnMoves
<1>2. n \in Nodes /\ \A d \in Calls : call'[d].at = "idle"
  BY <1>1, Alone DEF TypeInv, CallsInv
<1>3. /\ pod # NoPod => pod.node \in Nodes
      /\ belief \in [Nodes -> Beliefs]
  BY DEF TypeInv, TypeOK, Pods
<1>4. \A m \in Nodes : \/ belief'[m] = belief[m]
                       \/ m = n /\ AnsweredOK(c) /\ call[c].publish /\ belief[m] # "detaching"
                       \/ m = n /\ AnsweredOK(c) /\ ~ call[c].publish /\ belief'[m] = "released"
  BY <1>1, <1>2, <1>3 DEF Return, AnsweredOK
<1>5. pod # NoPod /\ pod.deleting => belief'[pod.node] = "detaching"
  BY <1>3, <1>4 DEF SteadyInv, Attached
<1>6. \A m \in Nodes : belief'[m] = "published" => Attached(m)
  BY <1>2, <1>4 DEF SteadyInv
<1>7. \A m \in Nodes : Attached(m) => Attached(m)'
  BY <1>1 DEF Attached
<1> QED
  BY <1>1, <1>2, <1>5, <1>6, <1>7 DEF SteadyInv, AnsweredOK, Looking

\* What a step of a call finds in the cache holds of the pod as well: a running
\* pod of the node for Publish, none of the node for Unpublish (Attach, Detach).
LEMMA SteadyCall ==
  ASSUME TypeInv, Serial, BeliefInv, UndisturbedInv, PromptInv, SteadyInv,
         NEW c \in Calls, CallStep(c), call[c].at # "replied"
  PROVE  SteadyInv'
<1> DEFINE n == call[c].node
<1>1. /\ UNCHANGED belief /\ call[c].at # "idle" /\ call'[c].at # "idle"
      /\ call'[c].node = n /\ call'[c].publish = call[c].publish
      /\ \A d \in Calls : d # c => call'[d] = call[d]
  BY CallMoves
<1>2. n \in Nodes /\ \A d \in Calls : d # c => call'[d].at = "idle"
  BY <1>1, Alone DEF TypeInv, CallsInv
<1>3. \A p \in MaybePods : InView(p)' => InView(p) \/ p = pod'
  BY CallKeepsType DEF ViewMoves
<1>4. /\ InView(pod) /\ pod \in MaybePods /\ InView(podCache) /\ podCache \in MaybePods
      /\ \A p : InView(p) => Before(podCache, p)
  BY ViewFacts
<1>5. \A p \in MaybePods : InView(p) /\ p # NoPod /\ podCache # NoPod => Follows(podCache, p)
  BY <1>4 DEF UndisturbedInv, LifeInv
<1>6. /\ call[c].at \in Attaching => call[c].publish
      /\ call[c].at \in Detaching => ~ call[c].publish
  BY DEF TypeInv, CallsInv
<1>7. CASE UNCHANGED pod
  <2>1. \A m : Attached(m)' <=> Attached(m)
    BY <1>7 DEF Attached
  <2>2. AnsweredOK(c)' /\ call[c].publish => Attached(n)
    <3>1. AnsweredOK(c)' /\ call[c].publish =>
            podCache # NoPod /\ isPodRunning(podCache) /\ podCache.node = n
      BY CallMoves
    <3>2. AnsweredOK(c)' /\ call[c].publish => pod # NoPod /\ pod.node = n /\ ~ pod.deleting
      BY <1>1, <1>4, <3>1 DEF SteadyInv
    <3> QED
      BY <1>4, <1>5, <3>1, <3>2 DEF Attached, Follows
  <2>3. ASSUME AnsweredOK(c)', ~ call[c].publish, pod # NoPod, pod.node = n, pod.deleting
        PROVE  FALSE
    <3>1. /\ call[c].at \in {"detach", "pollDetach"}
          /\ podCache = NoPod \/ ~ AssignedTo(podCache, n)
      BY <2>3, CallMoves
    <3>2. podCache # NoPod
      BY <1>1, <1>4, <2>3 DEF PromptInv
    <3>3. CASE call[c].at = "detach"
      <4>1. podCache = pod /\ pod.phase # "Pending"
        BY <1>4, <2>3, <3>3 DEF SteadyInv, Looking, UndisturbedInv, LifeInv
      <4> QED
        BY <2>3, <3>1, <3>2, <4>1 DEF AssignedTo
    <3>4. CASE call[c].at = "pollDetach"
      BY <1>4, <3>1, <3>2, <3>4 DEF SteadyInv
    <3> QED
      BY <3>1, <3>3, <3>4
  <2>4. ASSUME call'[c].at \in {"deletePod", "pollDetach"},
               NEW p \in MaybePods, InView(p), p # NoPod
        PROVE  AssignedTo(p, n)
    <3>1. \/ podCache # NoPod /\ AssignedTo(podCache, n)
          \/ call[c].at \in {"deletePod", "pollDetach"}
      BY <2>4, CallMoves
    <3> QED
      BY <1>5, <2>4, <3>1 DEF SteadyInv, Follows, AssignedTo
  <2>5. call'[c].at \in Looking => call[c].at \in Looking
    BY CallMoves
  <2>6. \A p \in MaybePods : InView(p)' => InView(p)
    BY <1>3, <1>4, <1>7
  <2>7. call'[c].at # "idle" /\ call'[c].publish =>
          \A p \in MaybePods : InView(p)' /\ p # NoPod /\ p.node = n =>
                                 pod # NoPod /\ pod.node = n /\ ~ pod.deleting
    BY <1>1, <2>6 DEF SteadyInv
  <2>8. call'[c].at \in Looking /\ ~ call'[c].publish /\ pod # NoPod /\ pod.deleting =>
          \A p \in MaybePods : InView(p)' => p = pod
    BY <1>1, <2>5, <2>6 DEF SteadyInv
  <2>9. \A m \in Nodes : belief[m] = "published" => Attached(m)'
    BY <2>1 DEF SteadyInv
  <2>10. pod # NoPod /\ pod.deleting => belief[pod.node] = "detaching"
    BY DEF SteadyInv
  <2>11. /\ AnsweredOK(c)' /\ call'[c].publish => Attached(n)'
         /\ AnsweredOK(c)' /\ ~ call'[c].publish /\ pod # NoPod /\ pod.node = n => ~ pod.deleting
         /\ call'[c].at \in {"deletePod", "pollDetach"} =>
              \A p \in MaybePods : InView(p)' /\ p # NoPod => AssignedTo(p, n)
    BY <1>1, <2>1, <2>2, <2>3, <2>4, <2>6
  <2> QED
    BY <1>1, <1>2, <1>7, <2>7, <2>8, <2>9, <2>10, <2>11 DEF SteadyInv, AnsweredOK, Looking
<1>8. CASE call[c].at = "createPod" /\ pod = NoPod /\ pod' = Build(n)
  <2>1. \A p \in MaybePods : InView(p) => p = NoPod
    BY <1>8 DEF UndisturbedInv
  <2>2. pod' # NoPod /\ pod'.node = n /\ ~ pod'.deleting
    BY <1>2, <1>8, PodForms DEF Build
  <2>3. call[c].publish /\ ~ AnsweredOK(c)'
    <3>1. call[c].publish /\ pod' # pod
      BY <1>6, <1>8, <2>2 DEF Attaching
    <3> QED
      BY <3>1, CallMoves
  <2>4. \A m \in Nodes : belief[m] # "published"
    BY <1>8 DEF SteadyInv, Attached
  <2>5. call'[c].at \notin {"deletePod", "pollDetach"}
    BY <1>8, CallMoves
  <2> QED
    BY <1>1, <1>2, <1>3, <2>1, <2>2, <2>3, <2>4, <2>5 DEF SteadyInv, AnsweredOK, Looking
<1>9. CASE call[c].at = "deletePod" /\ pod # NoPod /\ pod' # pod /\ MarkDeleted
  <2>1. AssignedTo(pod, n) /\ pod \in Pods /\ ~ call[c].publish /\ belief[n] = "detaching"
    BY <1>1, <1>4, <1>6, <1>9 DEF UndisturbedInv, Detaching, BeliefInv, MaybePods
  <2>2. pod' = [pod EXCEPT !.deleting = TRUE]
    BY <1>9, <2>1 DEF MarkDeleted, AssignedTo, SetPod, SamePod
  <2>3. pod'.node = n /\ AssignedTo(pod', n)
    BY <2>1, <2>2 DEF AssignedTo, Pods
  <2>4. \A m \in Nodes : belief[m] # "published"
    BY <2>1 DEF SteadyInv, Attached, AssignedTo
  <2>5. ~ AnsweredOK(c)' /\ call'[c].at \notin Looking
    BY <1>9, <2>1, CallMoves
  <2>6. \A p \in MaybePods : InView(p)' /\ p # NoPod => AssignedTo(p, n)
    BY <1>3, <1>9, <2>3 DEF SteadyInv
  <2> QED
    BY <1>1, <1>2, <2>1, <2>3, <2>4, <2>5, <2>6 DEF SteadyInv, AnsweredOK, Looking
<1> QED
  BY <1>7, <1>8, <1>9, CallMoves

\* Every step keeps SteadyInv.
LEMMA SteadyNext ==
  ASSUME TypeInv, Serial, setting.prompt, Undisturbed,
         BeliefInv, UndisturbedInv, PromptInv, SteadyInv, [Next]_vars
  PROVE  SteadyInv'
BY SteadyElsewhere, SteadyStart, SteadyReturn, SteadyCall DEF Next, Elsewhere

-----------------------------------------------------------------------------
(* And the CO only unpublishes what it was told is published *)

\* An undisturbed pod goes on running, or goes.
LEMMA SureElsewhere ==
  ASSUME TypeInv, Undisturbed, UndisturbedInv, SureInv, Elsewhere
  PROVE  SureInv'
<1>1. \A p \in MaybePods : InView(p)' => InView(p) \/ p = pod'
  BY TypeNext DEF ViewMoves, Next, Elsewhere
<1>2. /\ UNCHANGED belief
      /\ \A c \in Calls : call'[c].at = "idle" \/ call'[c] = call[c]
  BY ElsewhereKeepsType
<1>3. InView(pod) /\ pod \in MaybePods
  BY ViewFacts
<1>4. \/ UNCHANGED pod
      \/ pod # NoPod /\ pod' # NoPod /\ Follows(pod, pod')
      \/ pod' = NoPod
  BY ElsewherePod DEF UndisturbedInv
<1>5. \A n \in Nodes :
        pod' # NoPod /\ pod'.node = n =>
          /\ belief[n] = "detaching" => isPodRunning(pod')
          /\ belief[n] # "released"
  BY <1>4 DEF SureInv, Follows
<1>6. ASSUME NEW c \in Calls, call[c].at # "idle", ~ call[c].publish,
             NEW p \in MaybePods, InView(p)', p # NoPod, p.node = call[c].node
      PROVE  isPodRunning(p)
  BY <1>1, <1>3, <1>4, <1>6 DEF SureInv, Follows
<1>7. ASSUME NEW c \in Calls, AnsweredOK(c), ~ call[c].publish
      PROVE  pod' = NoPod \/ pod'.node # call[c].node
  BY <1>4, <1>7 DEF SureInv, Follows
<1> QED
  BY <1>2, <1>5, <1>6, <1>7 DEF SureInv, AnsweredOK

\* Unpublish starts for a published volume, so its pod runs.
LEMMA SureStart ==
  ASSUME TypeInv, Contract, SteadyInv, SureInv,
         NEW c \in Calls, NEW n \in Nodes, StartPublish(c, n) \/ StartUnpublish(c, n)
  PROVE  SureInv'
<1>1. /\ ViewMoves /\ UNCHANGED <<pod, cluster>> /\ podEvents = << >> /\ c \in setting.calls
      /\ call'[c].at = "getSplit" /\ call'[c].node = n
      /\ call'[c].publish <=> StartPublish(c, n)
      /\ \A d \in Calls : d # c => call'[d] = call[d]
  BY StartKeepsType DEF Contract
<1>2. \A d \in Calls : d # c => call'[d].at = "idle"
  BY <1>1, Alone DEF Contract
<1>3. \A p \in MaybePods : InView(p)' => p = pod
  BY <1>1, ViewFacts DEF ViewMoves
<1>4. belief \in [Nodes -> Beliefs]
  BY DEF TypeInv, TypeOK
<1>5. ASSUME StartUnpublish(c, n), pod # NoPod, pod.node = n PROVE isPodRunning(pod)
  <2>1. belief[n] \in {"published", "detaching"}
    BY <1>5 DEF StartUnpublish, Contract
  <2> QED
    BY <1>5, <2>1 DEF SteadyInv, Attached, SureInv
<1>6. \A m \in Nodes : \/ belief'[m] = belief[m]
                       \/ belief'[m] \in {"unsure", "published"}
                       \/ m = n /\ StartUnpublish(c, n) /\ belief'[m] = "detaching"
  BY <1>4 DEF StartPublish, StartUnpublish
<1>7. \A m \in Nodes :
        pod # NoPod /\ pod.node = m =>
          /\ belief'[m] = "detaching" => isPodRunning(pod)
          /\ belief'[m] # "released"
  BY <1>5, <1>6 DEF SureInv
<1>8. ~ call'[c].publish =>
        \A p \in MaybePods : InView(p)' /\ p # NoPod /\ p.node = n => isPodRunning(p)
  BY <1>1, <1>3, <1>5
<1> QED
  BY <1>1, <1>2, <1>7, <1>8 DEF SureInv, AnsweredOK

\* Unpublish is only answered OK, and the volume released, once the pod is gone.
LEMMA SureReturn ==
  ASSUME TypeInv, Serial, SureInv, NEW c \in Calls, CallStep(c), call[c].at = "replied"
  PROVE  SureInv'
<1> DEFINE n == call[c].node
<1>1. /\ Return(c) /\ UNCHANGED <<pod, cluster>> /\ call'[c].at = "idle"
      /\ \A d \in Calls : d # c => call'[d] = call[d]
  BY ReturnMoves
<1>2. n \in Nodes /\ \A d \in Calls : call'[d].at = "idle"
  BY <1>1, Alone DEF TypeInv, CallsInv
<1>3. belief \in [Nodes -> Beliefs]
  BY DEF TypeInv, TypeOK
<1>4. \A m \in Nodes : \/ belief'[m] = belief[m]
                       \/ belief'[m] = "published"
                       \/ m = n /\ AnsweredOK(c) /\ ~ call[c].publish /\ belief'[m] = "released"
  BY <1>1, <1>2, <1>3 DEF Return, AnsweredOK
<1>5. \A m \in Nodes :
        pod # NoPod /\ pod.node = m =>
          /\ belief'[m] = "detaching" => isPodRunning(pod)
          /\ belief'[m] # "released"
  BY <1>2, <1>4 DEF SureInv
<1> QED
  BY <1>1, <1>2, <1>5 DEF SureInv, AnsweredOK

\* A step of Unpublish that is answered OK has seen that the pod is gone: a pod
\* of its node in the cache would be a running one.
LEMMA SureCall ==
  ASSUME TypeInv, Serial, BeliefInv, UndisturbedInv, PromptInv, SureInv,
         NEW c \in Calls, CallStep(c), call[c].at # "replied"
  PROVE  SureInv'
<1> DEFINE n == call[c].node
<1>1. /\ UNCHANGED belief /\ call[c].at # "idle" /\ call'[c].at # "idle"
      /\ call'[c].node = n /\ call'[c].publish = call[c].publish
      /\ \A d \in Calls : d # c => call'[d] = call[d]
  BY CallMoves
<1>2. n \in Nodes /\ \A d \in Calls : d # c => call'[d].at = "idle"
  BY <1>1, Alone DEF TypeInv, CallsInv
<1>3. \A p \in MaybePods : InView(p)' => InView(p) \/ p = pod'
  BY CallKeepsType DEF ViewMoves
<1>4. /\ InView(pod) /\ pod \in MaybePods /\ InView(podCache) /\ podCache \in MaybePods
      /\ Before(podCache, pod)
  BY ViewFacts
<1>5. pod # NoPod /\ podCache # NoPod => Follows(podCache, pod)
  BY <1>4 DEF UndisturbedInv, LifeInv
<1>6. /\ call[c].at \in Attaching => call[c].publish
      /\ call[c].at \in Detaching => ~ call[c].publish
  BY DEF TypeInv, CallsInv
<1>7. CASE UNCHANGED pod
  <2>1. \A p \in MaybePods : InView(p)' => InView(p)
    BY <1>3, <1>4, <1>7
  <2>2. ASSUME AnsweredOK(c)', ~ call[c].publish, pod # NoPod, pod.node = n PROVE FALSE
    <3>1. podCache = NoPod \/ ~ AssignedTo(podCache, n)
      BY <2>2, CallMoves
    <3>2. podCache # NoPod
      BY <1>1, <1>4, <2>2 DEF PromptInv
    <3>3. podCache.node = n /\ isPodRunning(podCache)
      BY <1>1, <1>4, <1>5, <2>2, <3>2 DEF Follows, SureInv
    <3> QED
      BY <3>1, <3>2, <3>3 DEF AssignedTo, isPodRunning
  <2>3. ~ call'[c].publish =>
          \A p \in MaybePods : InView(p)' /\ p # NoPod /\ p.node = n => isPodRunning(p)
    BY <1>1, <2>1 DEF SureInv
  <2>4. AnsweredOK(c)' /\ ~ call'[c].publish => pod = NoPod \/ pod.node # n
    BY <1>1, <2>2
  <2> QED
    BY <1>1, <1>2, <1>7, <2>3, <2>4 DEF SureInv, AnsweredOK
<1>8. CASE call[c].at = "createPod" /\ pod = NoPod /\ pod' = Build(n)
  <2>1. pod'.node = n /\ call[c].publish /\ belief[n] \in {"unsure", "published"}
    BY <1>1, <1>6, <1>8 DEF Build, Attaching, BeliefInv
  <2> QED
    BY <1>1, <1>2, <2>1 DEF SureInv, AnsweredOK
<1>9. CASE call[c].at = "deletePod" /\ pod # NoPod /\ pod' # pod /\ MarkDeleted
  <2>1. AssignedTo(pod, n) /\ pod \in Pods /\ ~ call[c].publish
    BY <1>4, <1>6, <1>9 DEF UndisturbedInv, Detaching, MaybePods
  <2>2. pod' = [pod EXCEPT !.deleting = TRUE]
    BY <1>9, <2>1 DEF MarkDeleted, AssignedTo, SetPod, SamePod
  <2>3. pod'.node = pod.node /\ (isPodRunning(pod') <=> isPodRunning(pod))
    BY <2>1, <2>2 DEF isPodRunning, Pods
  <2>4. ~ AnsweredOK(c)'
    BY <1>9, <2>1, CallMoves
  <2>5. \A p \in MaybePods : InView(p)' /\ p # NoPod /\ p.node = n => isPodRunning(p)
    BY <1>1, <1>3, <1>4, <1>9, <2>1, <2>3 DEF SureInv
  <2>6. \A m \in Nodes :
          pod' # NoPod /\ pod'.node = m =>
            /\ belief[m] = "detaching" => isPodRunning(pod')
            /\ belief[m] # "released"
    BY <1>9, <2>3 DEF SureInv
  <2> QED
    BY <1>1, <1>2, <2>4, <2>5, <2>6 DEF SureInv, AnsweredOK
<1> QED
  BY <1>7, <1>8, <1>9, CallMoves

\* Every step keeps SureInv.
LEMMA SureNext ==
  ASSUME TypeInv, Contract, BeliefInv, UndisturbedInv, PromptInv, SteadyInv, SureInv, [Next]_vars
  PROVE  SureInv'
BY SureElsewhere, SureStart, SureReturn, SureCall DEF Contract, Next, Elsewhere

-----------------------------------------------------------------------------

\* The state Init describes satisfies the invariant.
LEMMA InvInit == Init => Inv
<1> SUFFICES ASSUME Init PROVE Inv
  OBVIOUS
<1>1. TypeInv
  BY TypeInit
<1>2. /\ pod = NoPod /\ podEvents = << >> /\ nodes = Nodes /\ belief = [n \in Nodes |-> "none"]
      /\ \A c \in Calls : call[c].at = "idle"
  BY DEF Init, Idle
<1>3. \A p : InView(p) => p = NoPod
  BY <1>1, <1>2, ViewFacts
<1>4. \A p, q : Before(p, q) => p = NoPod /\ q = NoPod
  BY <1>1, <1>3, ViewFacts
<1>5. UndisturbedInv
  BY <1>2, <1>4 DEF UndisturbedInv, LifeInv
<1>6. BeliefInv /\ PromptInv /\ SteadyInv /\ SureInv
  BY <1>2 DEF BeliefInv, PromptInv, SteadyInv, SureInv, AnsweredOK, Looking
<1> QED
  BY <1>1, <1>5, <1>6 DEF Inv

\* The environment of a behaviour does not change.
LEMMA SettingConstant ==
  ASSUME TypeInv, [Next]_vars
  PROVE  UNCHANGED setting
<1>1. ASSUME NEW c \in Calls, CallStep(c) PROVE UNCHANGED cluster
  BY <1>1, CallMoves, ReturnMoves
<1> QED
  BY <1>1, StartKeepsType, ElsewhereKeepsType DEF Next, Elsewhere, cluster

\* Every step keeps the invariant.
LEMMA InvNext == Inv /\ [Next]_vars => Inv'
<1> SUFFICES ASSUME Inv, [Next]_vars PROVE Inv'
  OBVIOUS
<1>1. TypeInv /\ TypeInv' /\ UNCHANGED setting
  BY TypeNext, SettingConstant DEF Inv
<1>2. /\ Serial' <=> Serial
      /\ Undisturbed' <=> Undisturbed
      /\ Contract' <=> Contract
  BY <1>1 DEF Serial, Undisturbed, Contract
<1>3. Contract => Serial /\ setting.prompt /\ Undisturbed
  BY DEF Contract
<1>4. Serial => BeliefInv'
  BY BeliefNext DEF Inv
<1>5. Serial /\ Undisturbed => UndisturbedInv'
  BY UndisturbedNext DEF Inv
<1>6. Serial /\ setting.prompt => PromptInv'
  BY PromptNext DEF Inv
<1>7. Serial /\ setting.prompt /\ Undisturbed => SteadyInv'
  BY SteadyNext DEF Inv
<1>8. Contract => SureInv'
  BY <1>3, SureNext DEF Inv
<1> QED
  BY <1>1, <1>2, <1>4, <1>5, <1>6, <1>7, <1>8 DEF Inv

\* Calls, the CO's beliefs, the pod and what the informer has yet to hear of it
\* fit together as the invariant says.
LEMMA AttachmentInv == Spec => []Inv
BY InvInit, InvNext, PTL DEF Spec

\* With one call at a time Unpublish for a node never deletes the attach pod of
\* another node, if the cache has caught up before each call or nobody else takes
\* pods away (Detach decides on a cached pod and deletes by name).
THEOREM OwnPodDeleted == Spec => OnlyOwnPodDeleted
<1>1. ASSUME Inv, [Next]_vars, NEW c \in Calls,
             Serial, setting.prompt \/ Undisturbed,
             call[c].at = "deletePod", call'[c] # call[c], pod' # pod
      PROVE  AssignedTo(pod, call[c].node)
  <2>1. pod = NoPod \/ AssignedTo(pod, call[c].node)
    BY <1>1 DEF Inv, PromptInv, UndisturbedInv
  <2>2. ASSUME pod = NoPod PROVE FALSE
    <3>1. ~ Elsewhere
      BY <1>1, <2>2, DisturbedPod DEF Inv
    <3>2. \A d \in Calls, n \in Nodes : ~ StartPublish(d, n) /\ ~ StartUnpublish(d, n)
      BY <1>1, StartKeepsType DEF Inv
    <3>3. PICK d \in Calls : CallStep(d)
      BY <1>1, <3>1, <3>2 DEF Next, Elsewhere
    <3>4. call[d].at # "replied" /\ d = c
      BY <1>1, <3>3, CallMoves, ReturnMoves DEF Inv
    <3> QED
      BY <1>1, <2>2, <3>3, <3>4, CallMoves DEF Inv
  <2> QED
    BY <2>1, <2>2
<1>2. Inv /\ [Next]_vars =>
        [\A c \in Calls :
           /\ Serial
           /\ setting.prompt \/ Undisturbed
           /\ call[c].at = "deletePod"
           /\ call'[c] # call[c]
           /\ pod' # pod
           => AssignedTo(pod, call[c].node)]_vars
  BY <1>1
<1> QED
  BY <1>2, AttachmentInv, PTL DEF Spec, OnlyOwnPodDeleted

\* With one call at a time, a cache that has caught up before each and nobody
\* else taking pods away, the attach pod of a published volume runs where it is
\* published, whatever is asked for other nodes (Attach, Detach).
THEOREM PublishedIsAttached == Spec => []PublishedMeansAttached
<1>1. Inv => PublishedMeansAttached
  BY DEF Inv, SteadyInv, Attached, PublishedMeansAttached
<1> QED
  BY <1>1, AttachmentInv, PTL

\* If the CO also does not unpublish what it was never told to be published, no
\* attach pod is left where Unpublish was answered OK (DetachLower's table).
THEOREM DetachedIsGone == Spec => []DetachedMeansGone
<1>1. Inv /\ Contract => \A n \in Nodes : belief[n] = "released" => pod = NoPod \/ pod.node # n
  BY DEF Inv, Contract, SureInv
<1>2. Inv => DetachedMeansGone
  BY <1>1 DEF Contract, DetachedMeansGone
<1> QED
  BY <1>2, AttachmentInv, PTL

-----------------------------------------------------------------------------
(* The calls implement VolumeAttachment *)

\* The CO starts a call: it publishes, withdraws, or repeats itself.
LEMMA StartImplements ==
  ASSUME Inv, Contract, NEW c \in Calls, NEW n \in Nodes, StartPublish(c, n) \/ StartUnpublish(c, n)
  PROVE  VA!Publish(n) \/ VA!Withdraw(n) \/ UNCHANGED VA!vars
<1>1. UNCHANGED pod /\ belief \in [Nodes -> Beliefs]
  BY StartKeepsType DEF Inv, TypeInv, TypeOK
<1>2. CASE StartPublish(c, n)
  <2>1. CASE belief[n] = "published"
    <3>1. belief' = belief
      BY <1>1, <1>2, <2>1 DEF StartPublish
    <3> QED
      BY <1>1, <3>1 DEF VA!vars
  <2>2. CASE belief[n] # "published"
    <3>1. belief' = [belief EXCEPT ![n] = "unsure"] /\ belief[n] \in {"none", "unsure", "released"}
      BY <1>1, <1>2, <2>2 DEF StartPublish, Beliefs
    <3> QED
      BY <1>1, <3>1 DEF VA!Publish, VA!Becomes
  <2> QED
    BY <2>1, <2>2
<1>3. CASE StartUnpublish(c, n)
  <2>1. belief[n] \in {"published", "detaching"} /\ belief' = [belief EXCEPT ![n] = "detaching"]
    BY <1>3 DEF StartUnpublish, Contract
  <2>2. CASE belief[n] = "published"
    BY <1>1, <2>1, <2>2 DEF VA!Withdraw, VA!Becomes
  <2>3. CASE belief[n] = "detaching"
    <3>1. belief' = belief
      BY <1>1, <2>1, <2>3
    <3> QED
      BY <1>1, <3>1 DEF VA!vars
  <2> QED
    BY <2>1, <2>2, <2>3
<1> QED
  BY <1>2, <1>3

\* A reply reaches the CO: a promise, a release, or nothing new.
LEMMA ReturnImplements ==
  ASSUME Inv, Contract, NEW c \in Calls, CallStep(c), call[c].at = "replied"
  PROVE  (\E n \in Nodes : VA!Promise(n) \/ VA!Release(n)) \/ UNCHANGED VA!vars
<1> DEFINE n == call[c].node
<1>1. /\ Return(c) /\ UNCHANGED pod /\ n \in Nodes /\ belief \in [Nodes -> Beliefs]
  BY ReturnMoves DEF Inv, TypeInv, TypeOK, CallsInv
<1>2. /\ BeliefInv /\ SteadyInv /\ SureInv
  BY DEF Inv, Contract
<1>3. CASE AnsweredOK(c) /\ call[c].publish
  <2>1. /\ belief[n] \in {"unsure", "published"} /\ Attached(n)
        /\ belief' = [belief EXCEPT ![n] = "published"]
    <3>1. belief[n] \in {"unsure", "published"} /\ Attached(n)
      BY <1>2, <1>3 DEF BeliefInv, SteadyInv, AnsweredOK
    <3> QED
      BY <1>1, <1>3, <3>1 DEF Return, AnsweredOK
  <2>2. CASE belief[n] = "unsure"
    BY <1>1, <2>1, <2>2 DEF Attached, isPodRunning, VA!Promise, VA!Becomes
  <2>3. CASE belief[n] = "published"
    <3>1. belief' = belief
      BY <1>1, <2>1, <2>3
    <3> QED
      BY <1>1, <3>1 DEF VA!vars
  <2> QED
    BY <2>1, <2>2, <2>3
<1>4. CASE AnsweredOK(c) /\ ~ call[c].publish
  <2>1. belief[n] = "detaching" /\ (pod = NoPod \/ pod.node # n)
    BY <1>2, <1>4 DEF BeliefInv, SureInv, AnsweredOK
  <2>2. belief' = [belief EXCEPT ![n] = "released"]
    BY <1>1, <1>4, <2>1 DEF Return, AnsweredOK
  <2> QED
    BY <1>1, <2>1, <2>2, NoNodeAssumption DEF VA!Release, VA!Becomes
<1>5. CASE ~ AnsweredOK(c)
  BY <1>1, <1>5 DEF Return, AnsweredOK, VA!vars
<1> QED
  BY <1>3, <1>4, <1>5

\* A call at work occupies a place, stops the volume, or does nothing to it.
LEMMA CallImplements ==
  ASSUME Inv, Contract, NEW c \in Calls, CallStep(c), call[c].at # "replied"
  PROVE  (\E n \in Nodes : VA!Occupy(n)) \/ VA!Stop \/ UNCHANGED VA!vars
<1> DEFINE n == call[c].node
<1>1. /\ TypeInv /\ BeliefInv /\ SteadyInv /\ UndisturbedInv
  BY DEF Inv, Contract
<1>2. UNCHANGED belief /\ call[c].at # "idle" /\ n \in Nodes
  BY <1>1, CallMoves DEF TypeInv, CallsInv
<1>3. CASE UNCHANGED pod
  BY <1>2, <1>3 DEF VA!vars
<1>4. CASE call[c].at = "createPod" /\ pod = NoPod /\ pod' = Build(n)
  <2>1. belief[n] = "unsure"
    <3>1. call[c].publish
      BY <1>1, <1>4 DEF TypeInv, CallsInv, Attaching
    <3> QED
      BY <1>1, <1>2, <1>4, <3>1 DEF BeliefInv, SteadyInv, Attached
  <2>2. pod' # NoPod /\ pod'.node = n /\ ~ pod'.deleting /\ pod'.phase = "Pending"
    BY <1>1, <1>2, <1>4, PodForms DEF Build
  <2> QED
    BY <1>2, <1>4, <2>1, <2>2 DEF VA!Occupy
<1>5. CASE call[c].at = "deletePod" /\ pod # NoPod /\ pod' # pod /\ MarkDeleted
  <2>1. AssignedTo(pod, n) /\ pod \in Pods
    BY <1>1, <1>5 DEF UndisturbedInv, TypeInv, TypeOK
  <2>2. pod' = [pod EXCEPT !.deleting = TRUE] /\ ~ pod.deleting
    BY <1>5, <2>1 DEF MarkDeleted, AssignedTo, SetPod, SamePod
  <2>3. pod' # NoPod /\ pod'.node = n /\ pod'.deleting
    BY <1>1, <1>5, <2>1, <2>2, PodForms, NoPodAssumption DEF AssignedTo, Pods
  <2>4. belief[n] = "detaching"
    <3>1. ~ call[c].publish
      BY <1>1, <1>5 DEF TypeInv, CallsInv, Detaching
    <3> QED
      BY <1>1, <1>2, <3>1 DEF BeliefInv
  <2> QED
    BY <1>2, <1>5, <2>1, <2>2, <2>3, <2>4 DEF VA!Stop, AssignedTo
<1> QED
  BY <1>1, <1>3, <1>4, <1>5, CallMoves

\* The rest of the cluster runs what is starting and vacates what is stopping.
LEMMA ElsewhereImplements ==
  ASSUME Inv, Contract, Elsewhere
  PROVE  VA!Run \/ VA!Vacate \/ UNCHANGED VA!vars
<1>1. /\ TypeInv /\ LifeInv /\ UNCHANGED belief
  BY ElsewhereKeepsType DEF Inv, Contract, UndisturbedInv
<1>2. \/ UNCHANGED pod
      \/ /\ pod # NoPod /\ ~ pod.deleting
         /\ pod' # NoPod /\ ~ pod'.deleting
         /\ Follows(pod, pod')
      \/ pod # NoPod /\ pod.deleting /\ pod' = NoPod
  BY <1>1, ElsewherePod DEF Contract
<1>3. CASE UNCHANGED pod
  BY <1>1, <1>3 DEF VA!vars
<1>4. CASE pod # NoPod /\ ~ pod.deleting /\ pod' # NoPod /\ ~ pod'.deleting /\ Follows(pod, pod')
  BY <1>1, <1>4 DEF Follows, isPodRunning, VA!Run, VA!vars
<1>5. CASE pod # NoPod /\ pod.deleting /\ pod' = NoPod
  BY <1>1, <1>5 DEF VA!Vacate
<1> QED
  BY <1>2, <1>3, <1>4, <1>5

\* Under the CO's contract the two calls, failed requests, deadlines, a trailing
\* cache and crashes included, take the steps of VolumeAttachment and no others.
THEOREM AttachmentImplements == Spec => ImplementsVolumeAttachment
<1>1. Init => (Contract => VA!Init)
  BY DEF Init, VA!Init
<1>2. Inv /\ [Next]_vars => [Contract => VA!Next]_(VA!vars)
  BY StartImplements, ReturnImplements, CallImplements, ElsewhereImplements
  DEF Next, Elsewhere, VA!Next
<1> QED
  BY <1>1, <1>2, AttachmentInv, PTL DEF Spec, ImplementsVolumeAttachment
=============================================================================
