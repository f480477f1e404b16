----------------------------- MODULE NodePublish -----------------------------
(***************************************************************************)
(* NodePublishVolume and NodeUnpublishVolume of the Union CSI node server, *)
(* for one volume on one node.                                             *)
(*                                                                         *)
(* The attach pod's mergerfs mounts the union at the source path; Publish  *)
(* binds it to the target path of a consumer, Unpublish removes that mount *)
(* again.  The handlers hold no lock and look at the mount table one       *)
(* system call at a time, while mergerfs comes, stops and dies, and the    *)
(* node server itself may crash.  A union whose mergerfs is gone leaves    *)
(* dead mounts behind ("corrupted": every access fails).                   *)
(***************************************************************************)
EXTENDS Naturals, Sequences, FiniteSets

CONSTANTS
  Calls,     \* the goroutines that can serve a call at the same time
  Targets,   \* target paths kubelet asks for
  NoTarget,  \* an idle call is about no target
  Plain,     \* the directory at the source path with no union on it
  MaxUnions, \* bound: times mergerfs is started
  Settings   \* the environments to consider, see below

(***************************************************************************)
(* What the calls may meet:                                                *)
(*   calls    the goroutines kubelet keeps busy with the volume            *)
(*   stops    mergerfs may stop or die                                     *)
(*   unions   bound: times mergerfs is started                             *)
(*   faults   bound: failed system calls and crashes                       *)
(***************************************************************************)
Environments == [calls  : SUBSET Calls,
                 stops  : BOOLEAN,
                 unions : 0 .. MaxUnions,
                 faults : Nat]

ASSUME NodeBoundsAssumption == MaxUnions \in Nat

ASSUME NodeSettingsAssumption == Settings \subseteq Environments

Unions == 1 .. MaxUnions

ASSUME PlainAssumption == Plain \notin Unions /\ NoTarget \notin Targets

VARIABLES
  sourceDir,  \* whether kubelet has made the source directory
  source,     \* what the source path shows: a union or Plain
  served,     \* the unions with a live mergerfs, at most one
  started,    \* the number of unions so far
  setting,    \* the environment of this behaviour
  target,     \* directory and mounts, the topmost last, of each target path
  call,       \* the calls being served
  belief,     \* what kubelet believes of each target
  faults      \* failed system calls and crashes so far

attached == <<sourceDir, source, served, started, setting>>
vars == <<attached, target, call, belief, faults>>

Steps == {"idle", "checkSource", "getRefs", "checkTarget", "makeDir", "mount",
          "cleanUp", "umount", "remove", "replied"}

Call == [at : Steps, publish : BOOLEAN, target : Targets \cup {NoTarget},
         code : {"none", "OK", "Internal"}]

Idle == [at |-> "idle", publish |-> FALSE, target |-> NoTarget, code |-> "none"]

Beliefs == {"none", "unsure", "published", "removing", "removed"}

\* Every variable keeps its type, and no mount loses the directory it is on
\* (hazard: overlapping calls stack mounts on a target).
TypeOK ==
  /\ sourceDir \in BOOLEAN
  /\ source \in Unions \cup {Plain}
  /\ served \subseteq Unions
  /\ setting \in Settings
  /\ started \in 0 .. setting.unions
  /\ target \in [Targets -> [dir : BOOLEAN, mounts : Seq(Unions \cup {Plain})]]
  /\ \A t \in Targets : target[t].mounts # << >> => target[t].dir
  /\ call \in [Calls -> Call]
  /\ belief \in [Targets -> Beliefs]
  /\ faults \in 0 .. setting.faults

Init ==
  /\ sourceDir = FALSE
  /\ source = Plain
  /\ served = {}
  /\ started = 0
  /\ setting \in Settings
  /\ target = [t \in Targets |-> [dir |-> FALSE, mounts |-> << >>]]
  /\ call = [c \in Calls |-> Idle]
  /\ belief = [t \in Targets |-> "none"]
  /\ faults = 0

-----------------------------------------------------------------------------
(* System calls and replies *)

Works == UNCHANGED faults

Fault == faults < setting.faults /\ faults' = faults + 1

Becomes(c, state) == call' = [call EXCEPT ![c] = state]

Goto(c, step) == Becomes(c, [call[c] EXCEPT !.at = step])

Reply(c, code) == Becomes(c, [call[c] EXCEPT !.at = "replied", !.code = code])

\* The system call fails, and with it the request.
Fails(c) == Fault /\ Reply(c, "Internal")

Dead(layer) == layer # Plain /\ layer \notin served

\* IsCorruptedMnt holds of the error a look at the target's topmost mount gives.
IsCorruptedMnt(mounts) == mounts # << >> /\ Dead(mounts[Len(mounts)])

\* The mounts of what the source path shows, the source itself apart.  A path with
\* nothing on it is looked up below the mount it is in (mount-utils v0.28.2), and
\* has the targets it was bound to for references.
GetMountRefs ==
  UNION {{<<t, j>> : j \in {i \in DOMAIN target[t].mounts : target[t].mounts[i] = source}}
         : t \in Targets}

SetTarget(t, dir, mounts) ==
  target' = [target EXCEPT ![t] = [dir |-> dir, mounts |-> mounts]]

-----------------------------------------------------------------------------
(* kubelet starts a call *)

Start(c, t) ==
  /\ c \in setting.calls
  /\ call[c] = Idle
  /\ UNCHANGED <<attached, target, faults>>

StartPublish(c, t) ==
  /\ belief[t] # "removing"
  /\ Start(c, t)
  /\ Becomes(c, [Idle EXCEPT !.at = "checkSource", !.publish = TRUE, !.target = t])
  /\ belief' = [belief EXCEPT ![t] = IF @ = "published" THEN @ ELSE "unsure"]

StartUnpublish(c, t) ==
  /\ belief[t] \in {"unsure", "published", "removing"}
  /\ Start(c, t)
  /\ Becomes(c, [Idle EXCEPT !.at = "cleanUp", !.target = t])
  /\ belief' = [belief EXCEPT ![t] = "removing"]

-----------------------------------------------------------------------------
(* Publish *)

CheckSource(c) ==
  /\ call[c].at = "checkSource"
  /\ \/ Works /\ sourceDir /\ ~ Dead(source) /\ Goto(c, "getRefs")
     \/ Works /\ (~ sourceDir \/ Dead(source)) /\ Reply(c, "Internal")
     \/ Fails(c)
  /\ UNCHANGED <<attached, target, belief>>

\* Mutant of GetRefs: only mounts at the request's own target count, and an
\* error of GetMountRefs is taken for no references.
GetRefsOfTarget(c) ==
  /\ call[c].at = "getRefs"
  /\ IF \E ref \in GetMountRefs : ref[1] = call[c].target
     THEN Reply(c, "OK")
     ELSE Goto(c, "checkTarget")
  /\ UNCHANGED <<attached, target, belief, faults>>

\* Mutant of GetRefs: one reference is enough, wherever it is mounted.
GetRefsOfAny(c) ==
  /\ call[c].at = "getRefs"
  /\ IF Dead(source) \/ GetMountRefs = {} THEN Goto(c, "checkTarget") ELSE Reply(c, "OK")
  /\ UNCHANGED <<attached, target, belief, faults>>

\* Mutant of GetRefs: the mount a failed request left at the target is in the way.
GetRefsNone(c) ==
  /\ call[c].at = "getRefs"
  /\ IF Dead(source) \/ GetMountRefs = {}
     THEN Goto(c, "checkTarget")
     ELSE Reply(c, "Internal")
  /\ UNCHANGED <<attached, target, belief, faults>>

\* A dead source has no references, which is no error; nor is a source that
\* mergerfs has not mounted yet.
GetRefs(c) ==
  /\ call[c].at = "getRefs"
  /\ LET t    == call[c].target
         refs == IF Dead(source) THEN {} ELSE GetMountRefs
         only == \E ref \in refs : ref[1] = t /\ refs = {ref}
     IN
     \/ Works /\ refs = {} /\ Goto(c, "checkTarget")
     \/ Works /\ only /\ Reply(c, "OK")
     \/ Works /\ refs # {} /\ ~ only /\ Reply(c, "Internal")
     \/ Fails(c)
  /\ UNCHANGED <<attached, target, belief>>

\* Mutant of CheckTarget: whatever is mounted at the target is mounted over.
CheckTargetNot(c) ==
  /\ call[c].at = "checkTarget"
  /\ Goto(c, "makeDir")
  /\ UNCHANGED <<attached, target, belief, faults>>

\* A target that is mounted by another device, dead or alive, is left alone.
CheckTarget(c) ==
  /\ call[c].at = "checkTarget"
  /\ \/ Works /\ target[call[c].target].mounts = << >> /\ Goto(c, "makeDir")
     \/ Works /\ target[call[c].target].mounts # << >> /\ Reply(c, "Internal")
     \/ Fails(c)
  /\ UNCHANGED <<attached, target, belief>>

MakeDir(c) ==
  /\ call[c].at = "makeDir"
  /\ LET t == call[c].target IN
     \/ Works /\ Goto(c, "mount") /\ SetTarget(t, TRUE, target[t].mounts)
     \/ Fails(c) /\ UNCHANGED target
  /\ UNCHANGED <<attached, belief>>

\* What is bound is what the source path shows by now.
Mount(c) ==
  /\ call[c].at = "mount"
  /\ LET t     == call[c].target
         able  == ~ Dead(source) /\ target[t].dir
         Bound == able /\ SetTarget(t, TRUE, Append(target[t].mounts, source))
     IN
     \/ Works /\ Bound /\ Reply(c, "OK")
     \/ Works /\ ~ able /\ UNCHANGED target /\ Reply(c, "Internal")
     \/ Fails(c) /\ (Bound \/ UNCHANGED target)
  /\ UNCHANGED <<attached, belief>>

-----------------------------------------------------------------------------
(* Unpublish: CleanupMountPoint, "not mounted" errors ignored *)

\* Mutant of CleanUp: a corrupted target is taken for one that does not exist.
CleanUpSkippingDead(c) ==
  /\ call[c].at = "cleanUp"
  /\ LET mounts == target[call[c].target].mounts IN
     IF mounts = << >> \/ IsCorruptedMnt(mounts) THEN Reply(c, "OK") ELSE Goto(c, "umount")
  /\ UNCHANGED <<attached, target, belief, faults>>

\* Mutant of CleanUp: a corrupted target is an error.
CleanUpRefusingDead(c) ==
  /\ call[c].at = "cleanUp"
  /\ LET mounts == target[call[c].target].mounts IN
     IF IsCorruptedMnt(mounts) THEN Reply(c, "Internal")
     ELSE IF mounts = << >> THEN Reply(c, "OK") ELSE Goto(c, "umount")
  /\ UNCHANGED <<attached, target, belief, faults>>

\* A mount that is corrupted is unmounted like one that is not.  PathExists and
\* the look for a mount point are one step.
CleanUp(c) ==
  /\ call[c].at = "cleanUp"
  /\ LET t == target[call[c].target] IN
     \/ Works /\ ~ t.dir /\ Reply(c, "OK")
     \/ Works /\ t.dir /\ t.mounts = << >> /\ Goto(c, "remove")
     \/ Works /\ t.dir /\ t.mounts # << >> /\ Goto(c, "umount")
     \/ Fails(c)
  /\ UNCHANGED <<attached, target, belief>>

\* umount calls a path that is there "not mounted", and one that is not otherwise.
Umount(c) ==
  /\ call[c].at = "umount"
  /\ LET t      == call[c].target
         mounts == target[t].mounts
         Popped == /\ mounts # << >>
                   /\ SetTarget(t, TRUE, SubSeq(mounts, 1, Len(mounts) - 1))
     IN
     \/ Works /\ Popped /\ Goto(c, "remove")
     \/ /\ Works
        /\ mounts = << >>
        /\ Reply(c, IF target[t].dir THEN "OK" ELSE "Internal")
        /\ UNCHANGED target
     \/ Fails(c) /\ (Popped \/ UNCHANGED target)
  /\ UNCHANGED <<attached, belief>>

\* Mutant of RemoveDir: it is not looked whether a mount is left.
RemoveDirUnseen(c) ==
  /\ call[c].at = "remove"
  /\ SetTarget(call[c].target, FALSE, target[call[c].target].mounts)
  /\ Reply(c, "OK")
  /\ UNCHANGED <<attached, belief, faults>>

\* The directory goes, unless something is still mounted there.
RemoveDir(c) ==
  /\ call[c].at = "remove"
  /\ LET t == call[c].target IN
     \/ Works /\ target[t].mounts = << >> /\ SetTarget(t, FALSE, << >>) /\ Reply(c, "OK")
     \/ Works /\ target[t].mounts # << >> /\ UNCHANGED target /\ Reply(c, "Internal")
     \/ Fails(c) /\ UNCHANGED target
  /\ UNCHANGED <<attached, belief>>

-----------------------------------------------------------------------------
(* The reply reaches kubelet; the attach pod; crashes *)

Return(c) ==
  /\ call[c].at = "replied"
  /\ LET t  == call[c].target
         ok == call[c].code = "OK"
     IN belief' =
          IF ok /\ call[c].publish /\ belief[t] \in {"unsure", "published"}
          THEN [belief EXCEPT ![t] = "published"]
          ELSE IF ok /\ ~ call[c].publish /\ belief[t] = "removing"
          THEN [belief EXCEPT ![t] = "removed"]
          ELSE belief
  /\ Becomes(c, Idle)
  /\ UNCHANGED <<attached, target, faults>>

\* kubelet makes the hostPath directory when it starts the attach pod.
MakeSourceDir ==
  /\ ~ sourceDir
  /\ sourceDir' = TRUE
  /\ UNCHANGED <<source, served, started, setting, target, call, belief, faults>>

\* mergerfs mounts a new union; it refuses a path that is mounted.
Serve ==
  /\ sourceDir
  /\ source = Plain
  /\ served = {}
  /\ started < setting.unions
  /\ started' = started + 1
  /\ source' = started + 1
  /\ served' = {started + 1}
  /\ UNCHANGED <<sourceDir, setting, target, call, belief, faults>>

\* mergerfs goes: unmounted and stopped, or killed with the mount left behind
\* until somebody unmounts it.
StopServing ==
  /\ setting.stops
  /\ source # Plain
  /\ served' = {}
  /\ source' \in IF served = {} THEN {Plain} ELSE {Plain, source}
  /\ UNCHANGED <<sourceDir, started, setting, target, call, belief, faults>>

Crash ==
  /\ Fault
  /\ call' = [c \in Calls |-> Idle]
  /\ UNCHANGED <<attached, target, belief>>

-----------------------------------------------------------------------------

CallStep(c) ==
  \/ CheckSource(c) \/ GetRefs(c) \/ CheckTarget(c) \/ MakeDir(c) \/ Mount(c)
  \/ CleanUp(c) \/ Umount(c) \/ RemoveDir(c)
  \/ Return(c)

Next ==
  \/ \E c \in Calls, t \in Targets : StartPublish(c, t) \/ StartUnpublish(c, t)
  \/ \E c \in Calls : CallStep(c)
  \/ MakeSourceDir
  \/ Serve
  \/ StopServing
  \/ Crash

Spec == Init /\ [][Next]_vars

(***************************************************************************)
(* Goroutines run, and kubelet repeats NodeUnpublishVolume until it is     *)
(* answered OK.                                                            *)
(***************************************************************************)
RetryUnpublish(t) ==
  belief[t] = "removing" /\ \E c \in Calls : StartUnpublish(c, t)

Fairness ==
  /\ \A c \in Calls : WF_vars(CallStep(c))
  /\ \A t \in Targets : SF_vars(RetryUnpublish(t))

FairSpec == Spec /\ Fairness

-----------------------------------------------------------------------------
(* Properties *)

\* kubelet has one call in flight at a time.
Serial == \A c, d \in setting.calls : c = d

\* A target never carries two mounts, however often Publish is repeated after
\* lost replies, crashes and restarts of mergerfs (Publish is idempotent).
NeverStacked == Serial => \A t \in Targets : Len(target[t].mounts) <= 1

\* A union is bound to one target at most: Publish for a second consumer is
\* refused as long as any trace of the first is mounted (Publish's check of the
\* mount references).
OneTargetPerUnion ==
  Serial =>
    \A u \in Unions :
      Cardinality({t \in Targets : \E j \in DOMAIN target[t].mounts :
                                     target[t].mounts[j] = u}) <= 1

\* Once Unpublish is answered OK nothing is mounted at the target any more, not
\* even the dead mount of a union whose mergerfs is gone (Unpublish).
UnpublishedMeansClean ==
  Serial => \A t \in Targets : belief[t] = "removed" => target[t].mounts = << >>

\* A kubelet that keeps calling Unpublish is eventually answered OK, be the
\* target mounted, stacked, corrupted or gone (CleanupMountPoint).
UnpublishCompletes ==
  \A t \in Targets : belief[t] = "removing" ~> belief[t] = "removed"

\* What a consumer was given stays as it is until kubelet unpublishes it, however
\* often Publish is repeated while mergerfs stops and starts again: it is neither
\* mounted over nor lost (Publish's checks of the references and of the target).
PublishedStaysBound ==
  [][Serial =>
       \A t \in Targets :
         belief[t] = "published" /\ belief'[t] = "published" =>
           target[t].mounts # << >> /\ target'[t].mounts = target[t].mounts]_vars

\* A target believed published shows a union.
ShowsUnion(t) ==
  belief[t] = "published" =>
    target[t].mounts # << >> /\ target[t].mounts[Len(target[t].mounts)] \in Unions

\* The union is mounted, nothing is at the target, and nobody is about to change it.
Ready(t) ==
  /\ source # Plain
  /\ target[t].mounts = << >>
  /\ \A c \in Calls : call[c] = Idle

\* Once mergerfs has mounted, and while it stays, a consumer that has nothing yet
\* can only be told that it was published if it got the union: no lost reply,
\* crash or call for another consumer makes Publish answer OK for less.
LatePublishMeansUnion ==
  \A t \in Targets : [](Serial /\ ~ setting.stops /\ Ready(t) => []ShowsUnion(t))

\* What a consumer gets is the union, also before mergerfs has mounted (the
\* comments in Publish; what the code does differs).
PublishedMeansUnion == Serial /\ ~ setting.stops => \A t \in Targets : ShowsUnion(t)
=============================================================================
