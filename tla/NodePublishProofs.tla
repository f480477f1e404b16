------------------------- MODULE NodePublishProofs -------------------------
(***************************************************************************)
(* What a target path carries, for any number of targets, unions, faults   *)
(* and crashes: type correctness with overlapping calls, and the safety    *)
(* properties with kubelet's one call at a time.                           *)
(***************************************************************************)
EXTENDS NodePublish, SequenceTheorems, FiniteSetTheorems, TLAPS

Layers == Unions \cup {Plain}

Table == [Targets -> [dir : BOOLEAN, mounts : Seq(Layers)]]

MountedAt(u, t) == \E j \in DOMAIN target[t].mounts : target[t].mounts[j] = u

PublishSteps == {"checkSource", "getRefs", "checkTarget", "makeDir", "mount"}

UnpublishSteps == {"cleanUp", "umount", "remove"}

\* Past the check of the mount references.
Binding == {"checkTarget", "makeDir", "mount"}

\* A call in flight is one of the environment's, about a target, and its step
\* is one of its method.
CallsInv ==
  \A c \in Calls :
    /\ call[c].at # "idle" => c \in setting.calls /\ call[c].target \in Targets
    /\ call[c].at \in PublishSteps => call[c].publish
    /\ call[c].at \in UnpublishSteps => ~ call[c].publish

TypeInv == TypeOK /\ CallsInv

\* The unions are numbered as they start; only the one at the source can be alive.
UnionsInv ==
  /\ source # Plain => source <= started
  /\ served \subseteq {source}
  /\ \A t \in Targets, u \in Unions : MountedAt(u, t) => u <= started

\* kubelet and the one call in flight agree on what the call is for.
BeliefInv ==
  \A c \in Calls :
    call[c].at # "idle" =>
      belief[call[c].target] \in IF call[c].publish THEN {"unsure", "published"} ELSE {"removing"}

\* A target carries one mount at most, and a union is at one target at most.
\* A call that is about to mount has found the target empty and, unless mergerfs
\* started again since, the union unbound.
MountsInv ==
  /\ \A t \in Targets : Len(target[t].mounts) <= 1
  /\ \A u \in Unions : \A s, t \in Targets : MountedAt(u, s) /\ MountedAt(u, t) => s = t
  /\ \A c \in Calls : call[c].at \in {"makeDir", "mount"} => target[call[c].target].mounts = << >>
  /\ \A c \in Calls :
       call[c].at \in Binding /\ source # Plain /\ ~ Dead(source) =>
         \A t \in Targets : ~ MountedAt(source, t)

\* What Unpublish answered OK for is clean, and stays so once kubelet knows.
CleanInv ==
  /\ \A c \in Calls :
       call[c].at = "replied" /\ ~ call[c].publish /\ call[c].code = "OK" =>
         target[call[c].target].mounts = << >>
  /\ \A t \in Targets : belief[t] = "removed" => target[t].mounts = << >>

\* What Publish answered OK for is bound, and stays so once kubelet knows.
BoundInv ==
  /\ \A c \in Calls :
       call[c].at = "replied" /\ call[c].publish /\ call[c].code = "OK" =>
         target[call[c].target].mounts # << >>
  /\ \A t \in Targets : belief[t] = "published" => target[t].mounts # << >>

SerialInv == Serial => BeliefInv /\ MountsInv /\ CleanInv

SerialBoundInv == Serial => BoundInv

Inv == TypeInv /\ UnionsInv /\ SerialInv /\ SerialBoundInv

\* From when the union was mounted and the target bare: mergerfs stays, and nothing
\* but its union is bound to the target.
Late(t) ==
  /\ Serial /\ ~ setting.stops
  /\ source # Plain
  /\ \A u : MountedAt(u, t) => u = source

-----------------------------------------------------------------------------
(* What the parts of a step do *)

\* A call that moves on keeps what it is about.
LEMMA GotoKeeps ==
  ASSUME call \in [Calls -> Call], NEW c \in Calls, NEW step \in Steps, Goto(c, step)
  PROVE  /\ call' \in [Calls -> Call]
         /\ call'[c].at = step /\ call'[c].publish = call[c].publish
         /\ call'[c].target = call[c].target /\ call'[c].code = call[c].code
         /\ \A d \in Calls : d # c => call'[d] = call[d]
BY DEF Goto, Becomes, Call

\* So does one that is answered.
LEMMA ReplyKeeps ==
  ASSUME call \in [Calls -> Call], NEW c \in Calls, NEW code \in {"OK", "Internal"},
         Reply(c, code)
  PROVE  /\ call' \in [Calls -> Call]
         /\ call'[c].at = "replied" /\ call'[c].publish = call[c].publish
         /\ call'[c].target = call[c].target /\ call'[c].code = code
         /\ \A d \in Calls : d # c => call'[d] = call[d]
BY DEF Reply, Becomes, Call, Steps

\* Only the target path a system call is about changes.
LEMMA SetTargetKeeps ==
  ASSUME target \in Table, NEW t \in Targets, NEW dir \in BOOLEAN, NEW mounts \in Seq(Layers),
         SetTarget(t, dir, mounts)
  PROVE  /\ target' \in Table
         /\ target'[t].dir = dir /\ target'[t].mounts = mounts
         /\ \A s \in Targets : s # t => target'[s] = target[s]
BY DEF SetTarget, Table

\* Faults are counted.
LEMMA WorksOrFault ==
  ASSUME TypeOK, UNCHANGED setting, Works \/ Fault
  PROVE  faults' \in 0 .. setting'.faults
BY NodeSettingsAssumption DEF TypeOK, Works, Fault, Environments

\* The first elements of a sequence, as when the topmost mount comes off.
LEMMA Prefix ==
  ASSUME NEW S, NEW s \in Seq(S), NEW n \in Nat, n <= Len(s)
  PROVE  /\ SubSeq(s, 1, n) \in Seq(S)
         /\ Len(SubSeq(s, 1, n)) = n
         /\ \A j \in 1 .. n : SubSeq(s, 1, n)[j] = s[j]
<1>1. \A j \in 1 .. n : j \in 1 .. Len(s)
  BY LenProperties
<1>2. \A j \in 1 .. n : s[j] \in S
  BY <1>1, ElementOfSeq
<1>3. n = IF 1 <= n THEN n - 1 + 1 ELSE 0
  OBVIOUS
<1>4. \A j \in 1 .. n : j \in 1 .. n - 1 + 1 /\ j = 1 + j - 1
  OBVIOUS
<1>5. /\ SubSeq(s, 1, n) \in Seq(S)
      /\ Len(SubSeq(s, 1, n)) = IF 1 <= n THEN n - 1 + 1 ELSE 0
      /\ \A j \in 1 .. n - 1 + 1 : SubSeq(s, 1, n)[j] = s[1 + j - 1]
  BY <1>2, SubSeqProperties
<1> QED
  BY <1>3, <1>4, <1>5, Zenon

-----------------------------------------------------------------------------
(* Type correctness, with any number of calls at a time *)

\* All variables start with their types and no call is in flight.
LEMMA TypeInit == Init => TypeInv
<1> SUFFICES ASSUME Init PROVE TypeInv
  OBVIOUS
<1>1. \A t \in Targets : target[t].mounts = << >>
  BY DEF Init
<1>2. target \in [Targets -> [dir : BOOLEAN, mounts : Seq(Unions \cup {Plain})]]
  <2>1. << >> \in Seq(Unions \cup {Plain})
    BY EmptySeq
  <2> QED
    BY <2>1 DEF Init
<1>3. call \in [Calls -> Call]
  BY DEF Init, Idle, Call, Steps
<1>4. setting.unions \in Nat /\ setting.faults \in Nat
  BY NodeSettingsAssumption DEF Init, Environments
<1>5. started \in 0 .. setting.unions /\ faults \in 0 .. setting.faults
  BY <1>4 DEF Init
<1>7. TypeOK
  BY <1>1, <1>2, <1>3, <1>5 DEF Init, TypeOK, Beliefs
<1>6. CallsInv
  BY DEF Init, CallsInv, Idle, PublishSteps, UnpublishSteps
<1> QED
  BY <1>6, <1>7 DEF TypeInv

\* A call that moves on, or is answered, with a mount table that makes sense.
LEMMA MoveKeepsType ==
  ASSUME TypeInv, NEW c \in Calls, call[c].at # "idle",
         Works \/ Fault, UNCHANGED <<attached, belief>>,
         target' \in Table,
         \A t \in Targets : target'[t].mounts # << >> => target'[t].dir,
         \/ call[c].publish /\ \E step \in PublishSteps : Goto(c, step)
         \/ ~ call[c].publish /\ \E step \in UnpublishSteps : Goto(c, step)
         \/ \E code \in {"OK", "Internal"} : Reply(c, code)
  PROVE  TypeInv'
<1>1. call \in [Calls -> Call]
  BY DEF TypeInv, TypeOK
<1>2. PublishSteps \subseteq Steps /\ UnpublishSteps \subseteq Steps
  BY DEF PublishSteps, UnpublishSteps, Steps
<1>3. call' \in [Calls -> Call]
  BY <1>1, <1>2, GotoKeeps, ReplyKeeps
<1>4. /\ call'[c].target = call[c].target /\ call'[c].publish = call[c].publish
      /\ \A d \in Calls : d # c => call'[d] = call[d]
  BY <1>1, <1>2, GotoKeeps, ReplyKeeps
<1>5. \/ call'[c].at \in PublishSteps /\ call[c].publish
      \/ call'[c].at \in UnpublishSteps /\ ~ call[c].publish
      \/ call'[c].at = "replied"
  BY <1>1, <1>2, GotoKeeps, ReplyKeeps
<1>6. CallsInv'
  BY <1>4, <1>5 DEF TypeInv, CallsInv, PublishSteps, UnpublishSteps, attached
<1>7. faults' \in 0 .. setting'.faults
  BY WorksOrFault DEF TypeInv, attached
<1>8. TypeOK'
  BY <1>3, <1>7 DEF TypeInv, TypeOK, attached, Table, Layers
<1> QED
  BY <1>6, <1>8 DEF TypeInv

\* Every step keeps the types.
LEMMA TypeNext == TypeInv /\ [Next]_vars => TypeInv'
<1> SUFFICES ASSUME TypeInv, [Next]_vars PROVE TypeInv'
  OBVIOUS
<1>1. /\ call \in [Calls -> Call] /\ target \in Table
      /\ \A t \in Targets : target[t].mounts # << >> => target[t].dir
  BY DEF TypeInv, TypeOK, Table, Layers
<1>2. ASSUME NEW c \in Calls, CallStep(c) PROVE TypeInv'
  <2>1. ASSUME call[c].at # "idle" PROVE call[c].target \in Targets
    BY <2>1 DEF TypeInv, CallsInv
  <2>2. ASSUME call[c].at \in PublishSteps PROVE call[c].publish
    BY <2>2 DEF TypeInv, CallsInv
  <2>3. ASSUME call[c].at \in UnpublishSteps PROVE ~ call[c].publish
    BY <2>3 DEF TypeInv, CallsInv
  <2>4. CASE CheckSource(c) \/ GetRefs(c) \/ CheckTarget(c)
    BY <1>1, <2>2, <2>4, MoveKeepsType
    DEF CheckSource, GetRefs, CheckTarget, Fails, PublishSteps
  <2>5. CASE CleanUp(c)
    BY <1>1, <2>3, <2>5, MoveKeepsType DEF CleanUp, Fails, UnpublishSteps
  <2> DEFINE t == call[c].target
             mounts == target[t].mounts
  <2>6. ASSUME t \in Targets PROVE mounts \in Seq(Layers) /\ target[t].dir \in BOOLEAN
    BY <1>1, <2>6 DEF Table
  <2>7. ASSUME t \in Targets, NEW dir \in BOOLEAN, NEW new \in Seq(Layers),
               SetTarget(t, dir, new), new # << >> => dir
        PROVE  target' \in Table /\ \A s \in Targets : target'[s].mounts # << >> => target'[s].dir
    BY <1>1, <2>7, SetTargetKeeps
  <2>8. CASE MakeDir(c)
    BY <1>1, <2>1, <2>2, <2>6, <2>7, <2>8, MoveKeepsType DEF MakeDir, Fails, PublishSteps
  <2>9. CASE Mount(c)
    <3>1. t \in Targets /\ source \in Layers
      BY <2>1, <2>9 DEF Mount, TypeInv, TypeOK, Layers
    <3>2. Append(mounts, source) \in Seq(Layers)
      BY <2>6, <3>1, AppendProperties
    <3>3. UNCHANGED target \/ SetTarget(t, TRUE, Append(mounts, source))
      BY <2>9 DEF Mount
    <3>4. target' \in Table /\ \A s \in Targets : target'[s].mounts # << >> => target'[s].dir
      BY <1>1, <2>7, <3>1, <3>2, <3>3
    <3> QED
      BY <2>2, <2>9, <3>4, MoveKeepsType DEF Mount, Fails, PublishSteps
  <2>10. CASE Umount(c)
    <3>1. t \in Targets
      BY <2>1, <2>10 DEF Umount
    <3>2. ASSUME mounts # << >> PROVE SubSeq(mounts, 1, Len(mounts) - 1) \in Seq(Layers)
      <4>1. Len(mounts) - 1 \in Nat /\ Len(mounts) - 1 <= Len(mounts)
        <5>1. Len(mounts) \in Nat \ {0}
          BY <2>6, <3>1, <3>2, EmptySeq
        <5>2. \A n \in Nat \ {0} : n - 1 \in Nat /\ n - 1 <= n
          OBVIOUS
        <5> QED
          BY <5>1, <5>2, Zenon
      <4> QED
        BY <2>6, <3>1, <4>1, Prefix
    <3>3. \/ UNCHANGED target
          \/ mounts # << >> /\ SetTarget(t, TRUE, SubSeq(mounts, 1, Len(mounts) - 1))
      BY <2>10 DEF Umount
    <3>4. target' \in Table /\ \A s \in Targets : target'[s].mounts # << >> => target'[s].dir
      BY <1>1, <2>7, <3>1, <3>2, <3>3
    <3> QED
      BY <2>3, <2>10, <3>4, MoveKeepsType DEF Umount, Fails, UnpublishSteps
  <2>11. CASE RemoveDir(c)
    <3>1. t \in Targets /\ << >> \in Seq(Layers)
      BY <2>1, <2>11, EmptySeq DEF RemoveDir
    <3>2. UNCHANGED target \/ SetTarget(t, FALSE, << >>)
      BY <2>11 DEF RemoveDir
    <3>3. target' \in Table /\ \A s \in Targets : target'[s].mounts # << >> => target'[s].dir
      BY <1>1, <2>7, <3>1, <3>2
    <3> QED
      BY <2>3, <2>11, <3>3, MoveKeepsType DEF RemoveDir, Fails, UnpublishSteps
  <2>12. CASE Return(c)
    <3>1. call' \in [Calls -> Call] /\ belief' \in [Targets -> Beliefs]
      BY <1>1, <2>12 DEF Return, Becomes, Idle, Call, Steps, TypeInv, TypeOK, Beliefs
    <3>2. call'[c] = Idle /\ \A d \in Calls : d # c => call'[d] = call[d]
      BY <1>1, <2>12 DEF Return, Becomes
    <3>3. UNCHANGED <<attached, target, faults>>
      BY <2>12 DEF Return
    <3>4. CallsInv'
      BY <3>2, <3>3 DEF TypeInv, CallsInv, Idle, PublishSteps, UnpublishSteps, attached
    <3> QED
      BY <3>1, <3>3, <3>4
      DEF TypeInv, TypeOK, attached
  <2> QED
    BY <1>2, <2>4, <2>5, <2>8, <2>9, <2>10, <2>11, <2>12 DEF CallStep
<1>3. ASSUME NEW c \in Calls, NEW t \in Targets, StartPublish(c, t) \/ StartUnpublish(c, t)
      PROVE  TypeInv'
  <2>1. call' \in [Calls -> Call] /\ belief' \in [Targets -> Beliefs]
    <3>1. \A state \in Call : Becomes(c, state) => call' \in [Calls -> Call]
      BY <1>1 DEF Becomes
    <3>2. call' \in [Calls -> Call]
      BY <1>3, <3>1 DEF StartPublish, StartUnpublish, Idle, Call, Steps
    <3>3. belief' \in [Targets -> Beliefs]
      BY <1>3 DEF StartPublish, StartUnpublish, TypeInv, TypeOK, Beliefs
    <3> QED
      BY <3>2, <3>3
  <2>2. /\ call'[c].target = t
        /\ call'[c].at = (IF call'[c].publish THEN "checkSource" ELSE "cleanUp")
        /\ \A d \in Calls : d # c => call'[d] = call[d]
    BY <1>1, <1>3 DEF StartPublish, StartUnpublish, Becomes, Idle
  <2>3. c \in setting.calls /\ UNCHANGED <<attached, target, faults>>
    BY <1>3 DEF StartPublish, StartUnpublish, Start
  <2> QED
    BY <2>1, <2>2, <2>3 DEF TypeInv, TypeOK, CallsInv, PublishSteps, UnpublishSteps, attached
<1>4. CASE MakeSourceDir \/ Serve \/ StopServing
  <2>1. UNCHANGED <<setting, target, call, belief, faults>>
    BY <1>4 DEF MakeSourceDir, Serve, StopServing
  <2>2. /\ sourceDir' \in BOOLEAN /\ source' \in Unions \cup {Plain} /\ served' \subseteq Unions
        /\ started' \in 0 .. setting.unions
    <3>1. setting.unions \in 0 .. MaxUnions
      BY NodeSettingsAssumption DEF TypeInv, TypeOK, Environments
    <3>2. CASE MakeSourceDir \/ StopServing
      BY <3>2 DEF MakeSourceDir, StopServing, TypeInv, TypeOK
    <3>3. CASE Serve
      <4>1. started \in 0 .. setting.unions /\ started < setting.unions
        BY <3>3 DEF Serve, TypeInv, TypeOK
      <4>2. started + 1 \in Unions /\ started + 1 \in 0 .. setting.unions
        BY <3>1, <4>1, NodeBoundsAssumption DEF Unions
      <4> QED
        BY <3>3, <4>2 DEF Serve, TypeInv, TypeOK
    <3> QED
      BY <1>4, <3>2, <3>3
  <2> QED
    BY <2>1, <2>2 DEF TypeInv, TypeOK, CallsInv
<1>5. CASE Crash
  <2>1. call' \in [Calls -> Call] /\ \A d \in Calls : call'[d] = Idle
    BY <1>5 DEF Crash, Idle, Call, Steps
  <2>2. faults' \in 0 .. setting'.faults
    BY <1>5, WorksOrFault DEF Crash, attached, TypeInv
  <2> QED
    BY <1>5, <2>1, <2>2
    DEF Crash, TypeInv, TypeOK, CallsInv, Idle, PublishSteps, UnpublishSteps, attached
<1>6. CASE UNCHANGED vars
  BY <1>6 DEF vars, attached, TypeInv, TypeOK, CallsInv
<1> QED
  BY <1>2, <1>3, <1>4, <1>5, <1>6 DEF Next

\* With any number of calls at a time every variable keeps its type, and no
\* mount loses the directory it is on (RemoveDir looks for mounts first).
THEOREM NodeTypeOK == Spec => []TypeOK
<1> QED
  BY TypeInit, TypeNext, PTL DEF Spec, TypeInv

-----------------------------------------------------------------------------
(* The mount table and the unions *)

Same(t) == target'[t].mounts = target[t].mounts

Grows(t) == ~ Dead(source) /\ target'[t].mounts = Append(target[t].mounts, source)

Shrinks(t) ==
  /\ target[t].mounts # << >>
  /\ target'[t].mounts = SubSeq(target[t].mounts, 1, Len(target[t].mounts) - 1)

\* A step of a call changes the mounts of its target at most: Mount adds what the
\* source path shows, Umount takes the topmost one.
LEMMA TableStep ==
  ASSUME TypeInv, NEW c \in Calls, CallStep(c)
  PROVE  /\ UNCHANGED attached
         /\ call[c].at # "idle" /\ c \in setting.calls /\ call[c].target \in Targets
         /\ \A s \in Targets : s # call[c].target => Same(s)
         /\ \/ Same(call[c].target)
            \/ call[c].at = "mount" /\ Grows(call[c].target)
            \/ call[c].at = "umount" /\ Shrinks(call[c].target)
<1> DEFINE t == call[c].target
<1>1. UNCHANGED attached /\ call[c].at # "idle"
  BY DEF CallStep, CheckSource, GetRefs, CheckTarget, MakeDir, Mount, CleanUp, Umount, RemoveDir,
         Return
<1>2. c \in setting.calls /\ t \in Targets
  BY <1>1 DEF TypeInv, CallsInv
<1>3. target \in [Targets -> [dir : BOOLEAN, mounts : Seq(Unions \cup {Plain})]]
  BY DEF TypeInv, TypeOK
<1>4. ASSUME NEW dir, NEW mounts, SetTarget(t, dir, mounts)
      PROVE  target'[t].mounts = mounts /\ \A s \in Targets : s # t => Same(s)
  BY <1>2, <1>3, <1>4 DEF SetTarget, Same
<1>5. CASE UNCHANGED target
  BY <1>1, <1>2, <1>5 DEF Same
<1>6. CASE MakeDir(c)
  BY <1>1, <1>2, <1>4, <1>6 DEF MakeDir, Same
<1>7. CASE Mount(c)
  BY <1>1, <1>2, <1>4, <1>5, <1>7 DEF Mount, Grows
<1>8. CASE Umount(c)
  BY <1>1, <1>2, <1>4, <1>5, <1>8 DEF Umount, Shrinks
<1>9. CASE RemoveDir(c)
  BY <1>1, <1>2, <1>4, <1>5, <1>9 DEF RemoveDir, Same
<1> QED
  BY <1>5, <1>6, <1>7, <1>8, <1>9 DEF CallStep, CheckSource, GetRefs, CheckTarget, CleanUp, Return

\* What the three changes leave mounted.
LEMMA TableChange ==
  ASSUME TypeInv, NEW t \in Targets, NEW u
  PROVE  /\ Same(t) => (MountedAt(u, t)' <=> MountedAt(u, t))
         /\ Grows(t) => /\ MountedAt(u, t)' => MountedAt(u, t) \/ u = source
                        /\ target'[t].mounts # << >>
                        /\ Len(target'[t].mounts) = Len(target[t].mounts) + 1
         /\ Shrinks(t) => /\ MountedAt(u, t)' => MountedAt(u, t)
                          /\ Len(target'[t].mounts) = Len(target[t].mounts) - 1
<1> DEFINE mounts == target[t].mounts
<1>1. mounts \in Seq(Layers)
  BY DEF TypeInv, TypeOK, Layers
<1>2. DOMAIN mounts = 1 .. Len(mounts) /\ Len(mounts) \in Nat
  BY <1>1, LenProperties
<1>3. Same(t) => (MountedAt(u, t)' <=> MountedAt(u, t))
  BY DEF Same, MountedAt
<1>4. ASSUME Grows(t)
      PROVE  /\ MountedAt(u, t)' => MountedAt(u, t) \/ u = source
             /\ target'[t].mounts # << >>
             /\ Len(target'[t].mounts) = Len(mounts) + 1
  <2>1. source \in Layers
    BY DEF TypeInv, TypeOK, Layers
  <2> DEFINE new == Append(mounts, source)
  <2>2. /\ new \in Seq(Layers) /\ new # << >> /\ Len(new) = Len(mounts) + 1
        /\ \A i \in 1 .. Len(mounts) : new[i] = mounts[i]
        /\ new[Len(mounts) + 1] = source
    BY <1>1, <2>1, AppendProperties
  <2>3. DOMAIN new = 1 .. Len(new)
    BY <2>2, LenProperties
  <2>4. \A j \in 1 .. Len(new) : j \in 1 .. Len(mounts) \/ j = Len(mounts) + 1
    <3>1. \A n \in Nat : \A j \in 1 .. n + 1 : j \in 1 .. n \/ j = n + 1
      OBVIOUS
    <3> QED
      BY <1>2, <2>2, <3>1, Zenon
  <2>5. target'[t].mounts = new
    BY <1>4 DEF Grows
  <2> HIDE DEF new
  <2> QED
    BY <1>2, <2>2, <2>3, <2>4, <2>5 DEF MountedAt
<1>5. ASSUME Shrinks(t)
      PROVE  /\ MountedAt(u, t)' => MountedAt(u, t)
             /\ Len(target'[t].mounts) = Len(mounts) - 1
  <2> DEFINE n   == Len(mounts) - 1
             new == SubSeq(mounts, 1, n)
  <2>1. n \in Nat /\ n <= Len(mounts) /\ \A j \in 1 .. n : j \in 1 .. Len(mounts)
    <3>1. Len(mounts) \in Nat \ {0}
      BY <1>1, <1>5, EmptySeq DEF Shrinks
    <3>2. \A k \in Nat \ {0} : /\ k - 1 \in Nat /\ k - 1 <= k
                               /\ \A j \in 1 .. k - 1 : j \in 1 .. k
      OBVIOUS
    <3> QED
      BY <3>1, <3>2, Zenon
  <2> HIDE DEF n
  <2>2. new \in Seq(Layers) /\ Len(new) = n /\ \A j \in 1 .. n : new[j] = mounts[j]
    BY <1>1, <2>1, Prefix
  <2>3. DOMAIN new = 1 .. n
    BY <2>2, LenProperties
  <2>4. target'[t].mounts = new
    BY <1>5 DEF Shrinks, n
  <2> HIDE DEF new
  <2> QED
    BY <1>2, <2>1, <2>2, <2>3, <2>4 DEF MountedAt, n
<1> QED
  BY <1>3, <1>4, <1>5

\* Every step keeps the numbering of the unions, stacked mounts or not.
LEMMA UnionsNext == TypeInv /\ UnionsInv /\ [Next]_vars => UnionsInv'
<1> SUFFICES ASSUME TypeInv, UnionsInv, [Next]_vars PROVE UnionsInv'
  OBVIOUS
<1>1. /\ source \in Unions \cup {Plain} /\ served \subseteq Unions /\ Unions \subseteq Nat
      /\ started \in Nat /\ Plain \notin Unions
  BY PlainAssumption, NodeSettingsAssumption, NodeBoundsAssumption
  DEF TypeInv, TypeOK, Unions, Environments
<1>2. ASSUME NEW c \in Calls, CallStep(c) PROVE UnionsInv'
  <2>1. \A t \in Targets, u \in Unions : MountedAt(u, t)' => MountedAt(u, t) \/ u = source
    BY <1>2, TableStep, TableChange
  <2> QED
    BY <1>1, <1>2, <2>1, TableStep DEF UnionsInv, attached
<1>3. ASSUME UNCHANGED target PROVE \A t \in Targets : \A u : MountedAt(u, t)' <=> MountedAt(u, t)
  BY <1>3 DEF MountedAt
<1>4. CASE UNCHANGED <<attached, target>>
  BY <1>3, <1>4 DEF UnionsInv, attached
<1>5. CASE Serve
  <2>1. /\ started + 1 \in Nat /\ started <= started + 1
        /\ \A u \in Nat : u <= started => u <= started + 1
    BY <1>1
  <2> QED
    BY <1>1, <1>3, <1>5, <2>1 DEF Serve, UnionsInv
<1>6. CASE StopServing \/ MakeSourceDir
  BY <1>1, <1>3, <1>6 DEF StopServing, MakeSourceDir, UnionsInv
<1> QED
  BY <1>2, <1>4, <1>5, <1>6 DEF Next, StartPublish, StartUnpublish, Start, Crash, vars

-----------------------------------------------------------------------------
(* One call at a time *)

\* Where a call has come from tells what it has seen.
LEMMA CallMoves ==
  ASSUME TypeInv, NEW c \in Calls, CallStep(c), call[c].at # "replied"
  PROVE  LET t == call[c].target IN
         /\ UNCHANGED belief
         /\ call'[c].target = t /\ call'[c].publish = call[c].publish
         /\ \A d \in Calls : d # c => call'[d] = call[d]
         /\ call'[c].at = "checkTarget" => Dead(source) \/ GetMountRefs = {}
         /\ call'[c].at = "makeDir" =>
              call[c].at = "checkTarget" /\ target[t].mounts = << >>
         /\ call'[c].at = "mount" => call[c].at = "makeDir"
         /\ call[c].at = "mount" => call'[c].at = "replied"
         /\ call'[c].at # "idle"
         /\ call'[c].at = "replied" /\ call'[c].code = "OK" =>
              \/ /\ call[c].publish /\ Same(t)
                 /\ \E ref \in GetMountRefs : ref[1] = t
              \/ call[c].publish /\ call[c].at = "mount" /\ Grows(t)
              \/ ~ call[c].publish /\ target'[t].mounts = << >>
<1> DEFINE t == call[c].target
<1>1. call \in [Calls -> Call] /\ t \in Targets
  BY TableStep DEF TypeInv, TypeOK
<1>2. ASSUME NEW step \in Steps, Goto(c, step)
      PROVE  /\ call'[c].target = t /\ call'[c].publish = call[c].publish
             /\ \A d \in Calls : d # c => call'[d] = call[d]
             /\ call'[c].at = step
  BY <1>1, <1>2, GotoKeeps
<1>3. ASSUME NEW code \in {"OK", "Internal"}, Reply(c, code)
      PROVE  /\ call'[c].target = t /\ call'[c].publish = call[c].publish
             /\ \A d \in Calls : d # c => call'[d] = call[d]
             /\ call'[c].at = "replied" /\ call'[c].code = code
  BY <1>1, <1>3, ReplyKeeps
<1>4. /\ call[c].at \in PublishSteps => call[c].publish
      /\ call[c].at \in UnpublishSteps => ~ call[c].publish
  BY DEF TypeInv, CallsInv
<1>5. \A dir, mounts : SetTarget(t, dir, mounts) => target'[t].mounts = mounts
  BY <1>1 DEF SetTarget, TypeInv, TypeOK
<1> USE DEF Steps
<1>6. CASE CheckSource(c)
  BY <1>2, <1>3, <1>6 DEF CheckSource, Fails
<1>7. CASE GetRefs(c)
  BY <1>2, <1>3, <1>4, <1>7 DEF GetRefs, Fails, PublishSteps, Same
<1>8. CASE CheckTarget(c)
  BY <1>2, <1>3, <1>8 DEF CheckTarget, Fails
<1>9. CASE MakeDir(c)
  BY <1>2, <1>3, <1>9 DEF MakeDir, Fails
<1>10. CASE Mount(c)
  BY <1>2, <1>3, <1>4, <1>5, <1>10 DEF Mount, Fails, PublishSteps, Grows
<1>11. CASE CleanUp(c)
  <2>1. ~ target[t].dir => target[t].mounts = << >>
    BY <1>1 DEF TypeInv, TypeOK
  <2> QED
    BY <1>2, <1>3, <1>4, <1>11, <2>1 DEF CleanUp, Fails, UnpublishSteps
<1>12. CASE Umount(c)
  BY <1>2, <1>3, <1>4, <1>12 DEF Umount, Fails, UnpublishSteps
<1>13. CASE RemoveDir(c)
  BY <1>2, <1>3, <1>4, <1>5, <1>13 DEF RemoveDir, Fails, UnpublishSteps
<1>14. ~ Return(c)
  BY DEF Return
<1> QED
  BY <1>6, <1>7, <1>8, <1>9, <1>10, <1>11, <1>12, <1>13, <1>14 DEF CallStep

\* With one call at a time nobody else is at work.
LEMMA Alone ==
  ASSUME TypeInv, Serial, NEW c \in Calls, c \in setting.calls
  PROVE  \A d \in Calls : d # c => call[d].at = "idle"
BY DEF Serial, TypeInv, CallsInv

\* What GetMountRefs returns, and what it means that it returns nothing.
LEMMA MountRefs ==
  ASSUME TypeInv
  PROVE  /\ GetMountRefs = {} => \A t \in Targets : ~ MountedAt(source, t)
         /\ \A ref \in GetMountRefs : ref[1] \in Targets /\ target[ref[1]].mounts # << >>
<1>1. ASSUME NEW t \in Targets, NEW j \in DOMAIN target[t].mounts
      PROVE  target[t].mounts # << >>
  BY <1>1
<1>2. ASSUME NEW t \in Targets, NEW j \in DOMAIN target[t].mounts, target[t].mounts[j] = source
      PROVE  <<t, j>> \in GetMountRefs
  BY <1>2 DEF GetMountRefs
<1>3. ASSUME NEW ref \in GetMountRefs
      PROVE  ref[1] \in Targets /\ target[ref[1]].mounts # << >>
  <2>1. PICK t \in Targets :
          ref \in {<<t, j>> : j \in {i \in DOMAIN target[t].mounts : target[t].mounts[i] = source}}
    BY DEF GetMountRefs
  <2>2. PICK j \in DOMAIN target[t].mounts : ref = <<t, j>>
    BY <2>1
  <2> QED
    BY <1>1, <2>2
<1> QED
  BY <1>2, <1>3 DEF MountedAt

\* kubelet starts a call: nothing is mounted or unmounted.
LEMMA StartKeepsSerial ==
  ASSUME TypeInv, Serial, BeliefInv, MountsInv, CleanInv,
         NEW c \in Calls, NEW t \in Targets, StartPublish(c, t) \/ StartUnpublish(c, t)
  PROVE  BeliefInv' /\ MountsInv' /\ CleanInv'
<1>1. c \in setting.calls /\ UNCHANGED <<attached, target>> /\ call[c] = Idle
  BY DEF StartPublish, StartUnpublish, Start
<1>2. /\ call'[c].target = t
      /\ call'[c].at = (IF call'[c].publish THEN "checkSource" ELSE "cleanUp")
      /\ \A d \in Calls : d # c => call'[d] = call[d]
  <2>1. call \in [Calls -> Call]
    BY DEF TypeInv, TypeOK
  <2> QED
    <3>1. CASE StartPublish(c, t)
      BY <2>1, <3>1 DEF StartPublish, Becomes, Idle
    <3>2. CASE StartUnpublish(c, t)
      BY <2>1, <3>2 DEF StartUnpublish, Becomes, Idle
    <3> QED
      BY <3>1, <3>2
<1>3. \A d \in Calls : d # c => call'[d].at = "idle"
  BY <1>1, <1>2, Alone
<1>4. belief'[t] \in IF call'[c].publish THEN {"unsure", "published"} ELSE {"removing"}
  <2>1. call \in [Calls -> Call] /\ belief \in [Targets -> Beliefs]
    BY DEF TypeInv, TypeOK
  <2>2. CASE StartPublish(c, t)
    BY <2>1, <2>2 DEF StartPublish, Becomes, Idle, Beliefs
  <2>3. CASE StartUnpublish(c, t)
    BY <2>1, <2>3 DEF StartUnpublish, Becomes, Idle
  <2> QED
    BY <2>2, <2>3
<1>5. \A s \in Targets : belief'[s] = "removed" => belief[s] = "removed"
  BY DEF StartPublish, StartUnpublish, TypeInv, TypeOK
<1>6. \A s \in Targets : \A u : MountedAt(u, s)' <=> MountedAt(u, s)
  BY <1>1 DEF MountedAt
<1>7. BeliefInv'
  BY <1>2, <1>3, <1>4 DEF BeliefInv
<1>8. MountsInv'
  BY <1>1, <1>2, <1>3, <1>6 DEF MountsInv, Binding, attached
<1>9. CleanInv'
  BY <1>1, <1>2, <1>3, <1>5 DEF CleanInv
<1> QED
  BY <1>7, <1>8, <1>9

\* A call looks before it mounts, and nobody else mounts in between.
LEMMA CallKeepsSerial ==
  ASSUME TypeInv, Serial, BeliefInv, MountsInv, CleanInv, NEW c \in Calls, CallStep(c)
  PROVE  BeliefInv' /\ MountsInv' /\ CleanInv'
<1> DEFINE t == call[c].target
<1>1. /\ UNCHANGED attached /\ call[c].at # "idle" /\ c \in setting.calls /\ t \in Targets
      /\ \A s \in Targets : s # t => Same(s)
      /\ \/ Same(t)
         \/ call[c].at = "mount" /\ Grows(t)
         \/ call[c].at = "umount" /\ Shrinks(t)
  BY TableStep
<1>2. \A d \in Calls : d # c => call[d].at = "idle"
  BY <1>1, Alone
<1>3. CASE Return(c)
  <2>1. UNCHANGED <<attached, target>> /\ \A d \in Calls : call'[d].at = "idle"
    BY <1>2, <1>3 DEF Return, Becomes, Idle, TypeInv, TypeOK
  <2>2. \A s \in Targets : \A u : MountedAt(u, s)' <=> MountedAt(u, s)
    BY <2>1 DEF MountedAt
  <2>3. CleanInv'
    <3>1. ASSUME NEW s \in Targets, belief'[s] = "removed", belief[s] # "removed"
          PROVE  s = t /\ call[c].code = "OK" /\ ~ call[c].publish /\ call[c].at = "replied"
      BY <1>1, <1>3, <3>1 DEF Return, TypeInv, TypeOK
    <3>2. \A s \in Targets : belief'[s] = "removed" => target'[s].mounts = << >>
      BY <2>1, <3>1 DEF CleanInv
    <3> QED
      BY <2>1, <3>2 DEF CleanInv
  <2> QED
    BY <2>1, <2>2, <2>3 DEF BeliefInv, MountsInv, Binding
<1>4. CASE ~ Return(c)
  <2>1. call[c].at # "replied"
    BY <1>4 DEF CallStep, CheckSource, GetRefs, CheckTarget, MakeDir, Mount, CleanUp, Umount,
                RemoveDir
  <2>2. /\ call'[c].target = t /\ call'[c].publish = call[c].publish /\ UNCHANGED belief
        /\ \A d \in Calls : d # c => call'[d].at = "idle"
    BY <1>2, <2>1, CallMoves
  <2>3. BeliefInv'
    BY <1>1, <2>2 DEF BeliefInv
  <2>4. CASE ~ (call[c].at = "mount" /\ Grows(t))
    <3>1. Same(t) \/ (call[c].at = "umount" /\ Shrinks(t))
      BY <1>1, <2>4
    <3>2. \A s \in Targets : \A u : MountedAt(u, s)' => MountedAt(u, s)
      BY <1>1, <3>1, TableChange
    <3>3. \A s \in Targets : Len(target'[s].mounts) <= 1
      <4>1. Len(target[t].mounts) <= 1 /\ \A s \in Targets : s # t => Len(target'[s].mounts) <= 1
        BY <1>1 DEF MountsInv, Same
      <4>2. Len(target[t].mounts) \in Nat
        BY <1>1, LenProperties DEF TypeInv, TypeOK
      <4>3. Len(target'[t].mounts) \in {Len(target[t].mounts), Len(target[t].mounts) - 1}
        BY <1>1, <3>1, TableChange DEF Same
      <4>4. \A n \in Nat : n <= 1 => n - 1 <= 1
        OBVIOUS
      <4> QED
        BY <4>1, <4>2, <4>3, <4>4, Zenon
    <3>4. \A u \in Unions : \A r, s \in Targets : MountedAt(u, r)' /\ MountedAt(u, s)' => r = s
      BY <3>2 DEF MountsInv
    <3>5. call'[c].at \in {"makeDir", "mount"} => target'[t].mounts = << >>
      <4>1. call'[c].at \in {"makeDir", "mount"} => Same(t) /\ target[t].mounts = << >>
        BY <1>1, <2>1, <3>1, CallMoves DEF MountsInv
      <4> QED
        BY <4>1 DEF Same
    <3>6. call'[c].at \in Binding /\ source # Plain /\ ~ Dead(source) =>
            \A s \in Targets : ~ MountedAt(source, s)'
      <4>1. CASE call'[c].at = "checkTarget"
        <5>1. source # Plain /\ ~ Dead(source) => GetMountRefs = {}
          BY <2>1, <4>1, CallMoves
        <5> QED
          BY <1>1, <3>2, <5>1, MountRefs DEF attached
      <4>2. CASE call'[c].at \in {"makeDir", "mount"}
        <5>1. call[c].at \in Binding
          BY <2>1, <4>2, CallMoves DEF Binding
        <5> QED
          BY <1>1, <3>2, <5>1 DEF MountsInv, attached
      <4> QED
        BY <4>1, <4>2 DEF Binding
    <3>7. MountsInv'
      BY <1>1, <2>2, <3>3, <3>4, <3>5, <3>6 DEF MountsInv, attached, Dead, Binding
    <3>8. CleanInv'
      <4>1. call'[c].at = "replied" /\ ~ call'[c].publish /\ call'[c].code = "OK" =>
              target'[t].mounts = << >>
        BY <2>1, <2>2, CallMoves
      <4>2. belief[t] # "removed"
        BY <1>1 DEF BeliefInv
      <4> QED
        BY <1>1, <2>2, <4>1, <4>2 DEF CleanInv, Same
    <3> QED
      BY <2>3, <3>7, <3>8
  <2>5. CASE call[c].at = "mount" /\ Grows(t)
    <3>1. target[t].mounts = << >> /\ call[c].at \in Binding
      BY <2>5 DEF MountsInv, Binding
    <3>2. \A s \in Targets : ~ (source # Plain /\ MountedAt(source, s))
      BY <2>5, <3>1 DEF MountsInv, Grows
    <3>3. \A s \in Targets : \A u :
            MountedAt(u, s)' => MountedAt(u, s) \/ (s = t /\ u = source)
      BY <1>1, <2>5, TableChange
    <3>4. call'[c].at = "replied" /\ belief[t] # "removed" /\ call[c].publish
      BY <1>1, <2>1, <2>5, CallMoves DEF BeliefInv, TypeInv, CallsInv, PublishSteps
    <3>5. \A s \in Targets : Len(target'[s].mounts) <= 1
      <4>1. Len(target'[t].mounts) = Len(<< >>) + 1
        BY <1>1, <2>5, <3>1, TableChange
      <4>2. Len(target'[t].mounts) <= 1
        BY <4>1, EmptySeq
      <4> QED
        BY <1>1, <4>2 DEF MountsInv, Same
    <3>6. \A u \in Unions : \A r, s \in Targets : MountedAt(u, r)' /\ MountedAt(u, s)' => r = s
      BY <3>2, <3>3, PlainAssumption DEF MountsInv
    <3>7. MountsInv'
      BY <2>2, <3>4, <3>5, <3>6 DEF MountsInv, Binding
    <3>8. CleanInv'
      BY <1>1, <2>2, <3>4 DEF CleanInv, Same
    <3> QED
      BY <2>3, <3>7, <3>8
  <2> QED
    BY <2>4, <2>5
<1> QED
  BY <1>3, <1>4

\* Nothing that mergerfs does mounts a union at a target, and a union that
\* starts is a new one.
LEMMA ServingKeepsSerial ==
  ASSUME TypeInv, UnionsInv, BeliefInv, MountsInv, CleanInv, MakeSourceDir \/ Serve \/ StopServing
  PROVE  BeliefInv' /\ MountsInv' /\ CleanInv'
<1>1. UNCHANGED <<target, call, belief>>
  BY DEF MakeSourceDir, Serve, StopServing
<1>2. \A t \in Targets : \A u : MountedAt(u, t)' <=> MountedAt(u, t)
  BY <1>1 DEF MountedAt
<1>3. ASSUME source' # Plain, ~ Dead(source)'
      PROVE  (\A t \in Targets : ~ MountedAt(source', t)) \/ (source' = source /\ ~ Dead(source))
  <2>1. CASE MakeSourceDir
    BY <1>3, <2>1 DEF MakeSourceDir, Dead
  <2>2. CASE StopServing
    BY <1>3, <2>2 DEF StopServing, Dead
  <2>3. CASE Serve
    <3>1. setting.unions \in 0 .. MaxUnions /\ started \in 0 .. setting.unions
      BY NodeSettingsAssumption DEF TypeInv, TypeOK, Environments
    <3>2. started < setting.unions /\ source' = started + 1
      BY <2>3 DEF Serve
    <3>3. source' \in Unions /\ ~ (source' <= started)
      BY <3>1, <3>2, NodeBoundsAssumption DEF Unions
    <3> QED
      BY <3>3 DEF UnionsInv
  <2> QED
    BY <2>1, <2>2, <2>3
<1>4. BeliefInv' /\ CleanInv'
  BY <1>1 DEF BeliefInv, CleanInv
<1>5. MountsInv'
  BY <1>1, <1>2, <1>3 DEF MountsInv
<1> QED
  BY <1>4, <1>5

\* Every step keeps what holds with one call at a time.
LEMMA SerialNext == TypeInv /\ UnionsInv /\ SerialInv /\ [Next]_vars => SerialInv'
<1> SUFFICES ASSUME TypeInv, UnionsInv, SerialInv, [Next]_vars, Serial'
             PROVE  BeliefInv' /\ MountsInv' /\ CleanInv'
  BY DEF SerialInv
<1>1. setting' = setting
  BY TableStep DEF Next, StartPublish, StartUnpublish, Start, MakeSourceDir, Serve, StopServing,
                   Crash, vars, attached
<1>2. Serial /\ BeliefInv /\ MountsInv /\ CleanInv
  BY <1>1 DEF Serial, SerialInv
<1>3. ASSUME NEW c \in Calls, CallStep(c) PROVE BeliefInv' /\ MountsInv' /\ CleanInv'
  BY <1>2, <1>3, CallKeepsSerial
<1>4. ASSUME NEW c \in Calls, NEW t \in Targets, StartPublish(c, t) \/ StartUnpublish(c, t)
      PROVE  BeliefInv' /\ MountsInv' /\ CleanInv'
  BY <1>2, <1>4, StartKeepsSerial
<1>5. CASE MakeSourceDir \/ Serve \/ StopServing
  BY <1>2, <1>5, ServingKeepsSerial
<1>6. CASE Crash \/ UNCHANGED vars
  <2>1. UNCHANGED <<attached, target, belief>>
    BY <1>6 DEF Crash, vars
  <2>2. \A c \in Calls : call'[c].at = "idle" \/ call'[c] = call[c]
    BY <1>6 DEF Crash, Idle, vars
  <2>3. \A t \in Targets : \A u : MountedAt(u, t)' <=> MountedAt(u, t)
    BY <2>1 DEF MountedAt
  <2>4. BeliefInv' /\ CleanInv'
    BY <1>2, <2>1, <2>2 DEF BeliefInv, CleanInv
  <2>5. ASSUME NEW c \in Calls, call'[c].at \in Binding, source # Plain /\ ~ Dead(source)
        PROVE  \A t \in Targets : ~ MountedAt(source, t)
    BY <1>2, <2>2, <2>5 DEF MountsInv, Binding
  <2>6. MountsInv'
    BY <1>2, <2>1, <2>2, <2>3, <2>5 DEF MountsInv, attached, Dead
  <2> QED
    BY <2>4, <2>6
<1> QED
  BY <1>3, <1>4, <1>5, <1>6 DEF Next

-----------------------------------------------------------------------------
(* What a consumer was given *)

\* Publish answers OK for what is bound, and only Unpublish unmounts.
LEMMA BoundStep ==
  ASSUME TypeInv, Serial, BeliefInv, BoundInv, [Next]_vars
  PROVE  BoundInv'
<1>1. ASSUME NEW c \in Calls, CallStep(c) PROVE BoundInv'
  <2> DEFINE t == call[c].target
  <2>1. /\ UNCHANGED attached /\ call[c].at # "idle" /\ c \in setting.calls /\ t \in Targets
        /\ \A s \in Targets : s # t => Same(s)
        /\ \/ Same(t)
           \/ call[c].at = "mount" /\ Grows(t)
           \/ call[c].at = "umount" /\ Shrinks(t)
    BY <1>1, TableStep
  <2>2. \A d \in Calls : d # c => call[d].at = "idle"
    BY <2>1, Alone
  <2>3. CASE Return(c)
    <3>1. UNCHANGED target /\ \A d \in Calls : call'[d].at = "idle"
      BY <2>2, <2>3 DEF Return, Becomes, Idle, TypeInv, TypeOK
    <3>2. ASSUME NEW s \in Targets, belief'[s] = "published", belief[s] # "published"
          PROVE  s = t /\ call[c].code = "OK" /\ call[c].publish /\ call[c].at = "replied"
      BY <2>1, <2>3, <3>2 DEF Return, TypeInv, TypeOK
    <3>3. \A s \in Targets : belief'[s] = "published" => target'[s].mounts # << >>
      BY <3>1, <3>2 DEF BoundInv
    <3> QED
      BY <3>1, <3>3 DEF BoundInv
  <2>4. CASE ~ Return(c)
    <3>1. call[c].at # "replied"
      BY <1>1, <2>4 DEF CallStep, CheckSource, GetRefs, CheckTarget, MakeDir, Mount, CleanUp,
                        Umount, RemoveDir
    <3>2. /\ call'[c].target = t /\ call'[c].publish = call[c].publish /\ UNCHANGED belief
          /\ \A d \in Calls : d # c => call'[d].at = "idle"
      BY <1>1, <2>2, <3>1, CallMoves
    <3>3. call'[c].at = "replied" /\ call'[c].publish /\ call'[c].code = "OK" =>
            target'[t].mounts # << >>
      BY <1>1, <2>1, <3>1, <3>2, CallMoves, MountRefs, TableChange DEF Same
    <3>4. \A s \in Targets : belief[s] = "published" => target'[s].mounts # << >>
      <4>1. call[c].at = "umount" => belief[t] # "published"
        BY <2>1 DEF BeliefInv, TypeInv, CallsInv, UnpublishSteps
      <4> QED
        BY <2>1, <4>1, TableChange DEF BoundInv, Same
    <3> QED
      BY <2>1, <3>2, <3>3, <3>4 DEF BoundInv
  <2> QED
    BY <2>3, <2>4
<1>2. ASSUME NEW c \in Calls, NEW t \in Targets, StartPublish(c, t) \/ StartUnpublish(c, t)
      PROVE  BoundInv'
  <2>1. UNCHANGED target /\ call \in [Calls -> Call]
    BY <1>2 DEF StartPublish, StartUnpublish, Start, TypeInv, TypeOK
  <2>2. call'[c].at # "replied" /\ \A d \in Calls : d # c => call'[d] = call[d]
    <3>1. CASE StartPublish(c, t)
      BY <2>1, <3>1 DEF StartPublish, Becomes, Idle
    <3>2. CASE StartUnpublish(c, t)
      BY <2>1, <3>2 DEF StartUnpublish, Becomes, Idle
    <3> QED
      BY <1>2, <3>1, <3>2
  <2>3. \A s \in Targets : belief'[s] = "published" => belief[s] = "published"
    BY <1>2 DEF StartPublish, StartUnpublish, TypeInv, TypeOK
  <2> QED
    BY <2>1, <2>2, <2>3 DEF BoundInv
<1>3. CASE MakeSourceDir \/ Serve \/ StopServing
  BY <1>3 DEF MakeSourceDir, Serve, StopServing, BoundInv
<1>4. CASE Crash \/ UNCHANGED vars
  <2>1. UNCHANGED <<target, belief>> /\ \A c \in Calls : call'[c].at = "idle" \/ call'[c] = call[c]
    BY <1>4 DEF Crash, Idle, vars
  <2> QED
    BY <2>1 DEF BoundInv
<1> QED
  BY <1>1, <1>2, <1>3, <1>4 DEF Next

\* The environment of a behaviour does not change.
LEMMA SettingStays == TypeInv /\ [Next]_vars => UNCHANGED setting
BY TableStep DEF Next, StartPublish, StartUnpublish, Start, MakeSourceDir, Serve, StopServing,
                 Crash, vars, attached

\* Every step keeps bound what was published.
LEMMA BoundNext == TypeInv /\ SerialInv /\ SerialBoundInv /\ [Next]_vars => SerialBoundInv'
BY SettingStays, BoundStep DEF Serial, SerialInv, SerialBoundInv

\* The source path goes on showing the union, so that nothing else gets bound.
LEMMA LateNext ==
  ASSUME TypeInv, NEW t \in Targets, Late(t), [Next]_vars
  PROVE  Late(t)'
<1>1. UNCHANGED setting
  BY SettingStays
<1>2. UNCHANGED source
  <2>1. ASSUME NEW c \in Calls, CallStep(c) PROVE UNCHANGED source
    BY <2>1, TableStep DEF attached
  <2> QED
    BY <2>1 DEF Next, StartPublish, StartUnpublish, Start, MakeSourceDir, Serve, StopServing,
                Crash, vars, attached, Late
<1>3. \A u : MountedAt(u, t)' => MountedAt(u, t) \/ u = source
  <2>1. ASSUME NEW c \in Calls, CallStep(c)
        PROVE  \A u : MountedAt(u, t)' => MountedAt(u, t) \/ u = source
    BY <2>1, TableStep, TableChange
  <2>2. CASE UNCHANGED target
    BY <2>2 DEF MountedAt
  <2> QED
    BY <2>1, <2>2 DEF Next, StartPublish, StartUnpublish, Start, MakeSourceDir, Serve,
                      StopServing, Crash, vars
<1> QED
  BY <1>1, <1>2, <1>3 DEF Late, Serial

-----------------------------------------------------------------------------

\* The state Init describes satisfies the invariant.
LEMMA InvInit == Init => Inv
<1> SUFFICES ASSUME Init PROVE Inv
  OBVIOUS
<1>1. TypeInv
  BY TypeInit
<1>2. (\A t \in Targets : target[t].mounts = << >>) /\ \A c \in Calls : call[c].at = "idle"
  BY DEF Init, Idle
<1>3. \A t \in Targets : Len(target[t].mounts) <= 1 /\ \A u : ~ MountedAt(u, t)
  BY <1>2, EmptySeq DEF MountedAt
<1>4. UnionsInv
  BY <1>3 DEF Init, UnionsInv
<1>5. SerialInv
  BY <1>2, <1>3 DEF SerialInv, BeliefInv, MountsInv, CleanInv, Binding
<1>6. SerialBoundInv
  BY <1>2 DEF Init, SerialBoundInv, BoundInv
<1> QED
  BY <1>1, <1>4, <1>5, <1>6 DEF Inv

\* Whatever Publish and Unpublish meet, mounts, calls and kubelet's beliefs fit
\* together as the invariant says.
LEMMA NodeInv == Spec => []Inv
<1>1. Inv /\ [Next]_vars => Inv'
  BY TypeNext, UnionsNext, SerialNext, BoundNext DEF Inv
<1> QED
  BY <1>1, InvInit, PTL DEF Spec

\* With one call at a time a target never carries two mounts: nothing can have
\* been mounted since CheckTarget found it bare (Publish).
THEOREM MountsNotStacked == Spec => []NeverStacked
<1>1. Inv => NeverStacked
  BY DEF Inv, SerialInv, MountsInv, NeverStacked
<1> QED
  BY <1>1, NodeInv, PTL

\* With one call at a time a union is bound to one target at most, also when
\* mergerfs starts again between Publish's check of the references and its mount.
THEOREM UnionBoundOnce == Spec => []OneTargetPerUnion
<1>1. ASSUME Inv, Serial, NEW u \in Unions
      PROVE  Cardinality({t \in Targets : MountedAt(u, t)}) <= 1
  <2> DEFINE at == {t \in Targets : MountedAt(u, t)}
  <2>1. \A s, t \in at : s = t
    BY <1>1 DEF Inv, SerialInv, MountsInv
  <2>2. at = {} \/ \E t : at = {t}
    BY <2>1
  <2> HIDE DEF at
  <2>3. Cardinality(at) = 0 \/ Cardinality(at) = 1
    BY <2>2, FS_EmptySet, FS_Singleton
  <2> QED
    BY <2>3 DEF at
<1>2. Inv => OneTargetPerUnion
  BY <1>1 DEF OneTargetPerUnion, MountedAt
<1> QED
  BY <1>2, NodeInv, PTL

\* With one call at a time Unpublish is only answered OK when nothing is mounted
\* at the target any more, dead mounts included (CleanupMountPoint).
THEOREM UnpublishedIsClean == Spec => []UnpublishedMeansClean
<1>1. Inv => UnpublishedMeansClean
  BY DEF Inv, SerialInv, CleanInv, UnpublishedMeansClean
<1> QED
  BY <1>1, NodeInv, PTL

\* With one call at a time what Publish was answered OK for stays at the target,
\* unchanged, until kubelet unpublishes it, whatever becomes of mergerfs.
THEOREM PublishedIsKept == Spec => PublishedStaysBound
<1>1. ASSUME Inv, [Next]_vars, Serial, NEW t \in Targets,
             belief[t] = "published", belief'[t] = "published"
      PROVE  target[t].mounts # << >> /\ target'[t].mounts = target[t].mounts
  <2>1. TypeInv /\ BeliefInv /\ MountsInv /\ BoundInv
    BY <1>1 DEF Inv, SerialInv, SerialBoundInv
  <2>2. target[t].mounts # << >>
    BY <1>1, <2>1 DEF BoundInv
  <2>3. ASSUME NEW c \in Calls, CallStep(c) PROVE Same(t)
    <3>1. call[c].target = t => call[c].at \notin {"mount", "umount"}
      BY <1>1, <2>1, <2>2 DEF MountsInv, BeliefInv, TypeInv, CallsInv, UnpublishSteps
    <3> QED
      BY <2>1, <2>3, <3>1, TableStep
  <2>4. CASE UNCHANGED target
    BY <2>2, <2>4
  <2> QED
    BY <1>1, <2>2, <2>3, <2>4 DEF Same, Next, StartPublish, StartUnpublish, Start, MakeSourceDir,
      Serve, StopServing, Crash, vars
<1>2. Inv /\ [Next]_vars =>
        [Serial =>
           \A t \in Targets :
             belief[t] = "published" /\ belief'[t] = "published" =>
               target[t].mounts # << >> /\ target'[t].mounts = target[t].mounts]_vars
  BY <1>1
<1> QED
  BY <1>2, NodeInv, PTL DEF Spec, PublishedStaysBound

\* Once mergerfs has mounted, and while it stays, a consumer that had nothing by
\* then is never told that it was published for anything but the union.
THEOREM LatePublishIsUnion == Spec => LatePublishMeansUnion
<1> SUFFICES ASSUME NEW t \in Targets
             PROVE  Spec => [](Serial /\ ~ setting.stops /\ Ready(t) => []ShowsUnion(t))
  BY DEF LatePublishMeansUnion
<1>1. Serial /\ ~ setting.stops /\ Ready(t) => Late(t)
  BY DEF Ready, Late, MountedAt
<1>2. Inv /\ Late(t) /\ [Next]_vars => Late(t)'
  BY LateNext DEF Inv
<1>3. Inv /\ Late(t) => ShowsUnion(t)
  <2> SUFFICES ASSUME Inv, Late(t), target[t].mounts # << >>
               PROVE  target[t].mounts[Len(target[t].mounts)] \in Unions
    BY DEF Inv, SerialBoundInv, BoundInv, Late, ShowsUnion
  <2> DEFINE mounts == target[t].mounts
  <2>1. mounts \in Seq(Layers) /\ source \in Unions
    BY DEF Inv, TypeInv, TypeOK, Layers, Late
  <2>2. Len(mounts) \in Nat \ {0}
    BY <2>1, EmptySeq
  <2>3. \A n \in Nat \ {0} : n \in 1 .. n
    OBVIOUS
  <2>4. Len(mounts) \in DOMAIN mounts
    BY <2>1, <2>2, <2>3, LenProperties
  <2> QED
    BY <2>1, <2>4 DEF Late, MountedAt
<1> QED
  BY <1>1, <1>2, <1>3, NodeInv, PTL DEF Spec
=============================================================================
