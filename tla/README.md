# A TLA+ model of the Union CSI driver

This directory models the Union CSI driver (`src/`): a CSI plugin for
Kubernetes that builds one volume out of two smaller ones, merged with
mergerfs.  It holds the TLA+ modules, the TLC configurations that check them on
small instances, and TLAPS proofs about them.

1. [The system](#1-the-system)
2. [Modules](#2-modules)
3. [Runs](#3-runs)
4. [Environment and fairness](#4-environment-and-fairness)
5. [Proofs](#5-proofs)
6. [Where the code and its documentation disagree](#6-where-the-code-and-its-documentation-disagree)
7. [What is not modelled](#7-what-is-not-modelled)
8. [Plan](#8-plan)

How to run: `tlc -config LowerVolumeOverlap.cfg MCLowerVolume` (the module of
each run is in `PROJECT.json`), `tlapm LowerVolumeProofs.tla`.

## 1. The system

A volume of the driver is a `VolumeSplit` object and two *lower*
PersistentVolumeClaims.  It is attached to a node by an *attach pod* that runs
there and mounts the lower claims; inside the pod `gogomergerfs` runs mergerfs,
which serves the union of the claims at a directory of the node; the node
server bind-mounts that directory where the consumer's pod wants it.

| Component | Source | State | Operations |
|---|---|---|---|
| controller: volumes | `pkg/csi/driver/controller_server.go`, `pkg/union/union.go`, `splitter.go` | `VolumeSplit`s and claims on the API server, an informer's cache of claims | CreateVolume, DeleteVolume |
| controller: attachment | the same, `pkg/union/attacher.go`, `pkg/union/pod/` | the attach pod on the API server, informers' caches of pods and nodes | ControllerPublishVolume, ControllerUnpublishVolume |
| node server | `pkg/csi/driver/node_server.go`, `pkg/mount/mounter.go` | the node's directories and mount table | NodePublishVolume, NodeUnpublishVolume |
| blocking merger | `gogomergerfs/pkg/merger/` | a mutex, `running`, two channels, the union mount | Run, Stop, CleanUp |
| gogomergerfs process | `gogomergerfs/pkg/cmd/`, `gogomergerfs/pkg/signal/` | the process, its signal channel and context | the command with `--block`, SIGTERM and SIGINT |
| request validation | `pkg/csi/validation/` | none | one check per request |
| driver process | `cmd/union-csi-driver/`, `pkg/csi/driver/` (`driver.go`, `helpers.go`, `identity_server.go`, `capabilities.go`) | the servers of its mode, its socket file | start-up, the RPCs that answer constants or Unimplemented |
| API client, manifests | `pkg/k8s/`, `deploy/` | none of their own | wiring |

How they interact:

- The container orchestrator (CO: external-provisioner, external-attacher,
  kubelet) calls the controller and the node server by gRPC, one goroutine per
  call.  No handler holds a lock.  What two calls share is the API server, the
  informer caches and the mount table, reached one request or system call at a
  time.
- The informers are watched copies of the API server that trail it.  Lower
  claims, nodes and attach pods are looked up there; splits are not.
- Controller and node server meet only in objects: the path in the publish
  context, the attach pod, the mounts its container makes.
- In the attach pod two goroutines share a blocking merger; kubelet starts the
  container again when it ends and signals it when the pod is deleted.

What is hard here: check-then-act on caches and on the mount table; calls that
stop half way (an error, a lost reply, a deadline, a crash) and are repeated;
objects deleted and created again under the same name; deletion that is only
asked for and completes later; waits with a bounded number of polls; a FUSE
mount that outlives or precedes the process that serves it; two channels and a
mutex in one protocol.  `PROJECT.json` lists each of these at its line under
`hazards`, with the properties that are about it.

What makes each component correct:

- volumes: an acknowledged volume is complete, and stays so until it is given
  up; a volume given up is eventually gone with all its claims; no claim is
  left without the split that lists it.
- attachment: published means a running attach pod on that node and no other;
  unpublished means none is left there; no call waits for ever; nobody else's
  pod is deleted.
- node server: one mount per target, one target per union, a consumer gets the
  union if mergerfs has mounted and keeps what it was given, nothing is left after
  Unpublish.
- merger and process: one Run at a time, its mount is there while it blocks,
  Stop returns, the mount goes before the process does.
- the volume on its node, from attach to detach: what a consumer was given stays
  alive until it is unpublished, the union goes after the last consumer, and the
  detach leaves nothing behind.
- driver process: no request makes it panic, what CreateVolume accepts can be
  used, a repeated request means the same, it serves again after a crash.

## 2. Modules

| Module | Models | MC module |
|---|---|---|
| `LowerVolume` | CreateVolume and DeleteVolume with splitter and union, the claim informer, the pvc-protection controller, the CO's side of both calls | `MCLowerVolume` |
| `VolumeLifecycle` | the abstract life of a volume, which `LowerVolume` implements | |
| `VolumeAttachment` | the abstract attachment of a volume, which `Attachment` implements | |
| `Attachment` | ControllerPublishVolume and ControllerUnpublishVolume with attacher, the pod informer, scheduler and kubelet, for one volume | `MCAttachment` |
| `NodePublish` | NodePublishVolume and NodeUnpublishVolume with mounter, mount table and mergerfs, for one volume on one node | `MCNodePublish` |
| `UnionVolume` | one volume on one node: `VolumeAttachment`, `Gogomergerfs` and `NodePublish` composed | `MCUnionVolume` |
| `Requests` | the validators, what each handler makes of a request before it calls the union or the mounter, the capabilities | |
| `Driver` | the process union-csi-driver: start-up, registration, crashes, requests by `Requests` | `MCDriver` |
| `BlockingMerger` | Run, Stop and CleanUp of `blockingMerger` | |
| `Gogomergerfs` | the process in the attach pod: its goroutines, its signals, its end; composed from the actions of `BlockingMerger` | |
| `LowerVolumeProofs`, `AttachmentProofs`, `VolumeAttachmentProofs`, `NodePublishProofs`, `BlockingMergerProofs`, `GogomergerfsProofs`, `UnionVolumeProofs`, `DriverProofs` | the theorems about each, and their proofs | |

Conventions shared by the CSI modules:

- A call is a record: `at` is the step it is at, the other fields its local
  variables.  A step is an API request, a cache lookup or a system call with
  the code up to the next one.  `Goto` and `Reply` are the two ways on.
- `Answered` (`Works` on the node) is a request that is answered as the
  server's state says; `Fault` is one that fails for another reason, with its
  effect or without.  `Crash` loses all calls; the informer then lists anew.
  `MaxFaults`, or `faults` of a setting, bounds both together.
- `SetPod` and `Notify` change an object and queue a watch event, `Deliver`
  hands the next one to the cache; `MaxLag` or `lag` bounds the queue.  The claim cache
  is a set of keys because the code never looks at a claim it finds there.
- What the CO believes (`acked`, `retired`, `deleted`; `belief`) is updated when
  it starts a call and when a reply reaches it.  Correctness is stated against
  that belief: it is all a CO can rely on.
- `Attachment` and `NodePublish` take their environment from the variable
  `setting`: chosen once in `Init` from the constant set `Settings`, so that one
  run covers several environments, and a property that needs a kind one says so
  in its premise (`Serial`, `setting.prompt`, `Undisturbed`).  `regime` of `UnionVolume` and
  `config` of `Driver` are the same.

### LowerVolume

Names are sequences of parts: `makeSplitName` appends the part "split", so that
the suffix the code appends twice, and a volume that is called like another's
split, come out as they do in the code.  The claims a split lists follow from
its `volume` and `spec` (`makeClaimKey`, `splitQuantity`), so they are not
stored again.  CreateVolume is `StartCreate`, `CreateGet`, `doCreateSplit`,
`CreateGetAgain`, then `LookupClaim` and `CreateClaim` for each branch;
DeleteVolume is `StartDelete`, `DeleteGet`, `DeleteClaim` for each branch,
`DeleteSplit`.  A claim that is deleted is marked, and goes by `FinalizeClaim`.

`VolumeLifecycle` says what is promised: build up part by part, promise only
what is complete, do not touch what is promised, never rebuild what was given
up, take it down to the last part.  The refinement mapping takes the split and
the live claims for the parts and `acked` for the promises.

### Attachment

The pod is its node, its phase and whether it is being deleted; `Ended` is
Succeeded or Failed.  The selector sends the pod to one node, hence `node` is
known from the start and counts as assigned (`AssignedTo`) unless the pod is
Pending.  Publish is `GetSplit`, `GetNode`, `Attach`, `CreatePod`, `PollAttach`
repeatedly; Unpublish is `GetSplit`, `GetNode`, `Detach`, `DeletePod`,
`PollDetach` repeatedly.  `KeepPolling` counts the attempts (12 in the code,
`MaxPolls` here).

### NodePublish

`source` is what the source path shows: a union, numbered in the order mergerfs
was started, or the plain directory; `served` says whether its mergerfs lives.
Each target has a directory and a stack of mounts.  `CheckSource`, `GetRefs`,
`CheckTarget`, `MakeDir`, `Mount` are Publish; `CleanUp`, `Umount`, `RemoveDir`
are what CleanupMountPoint of mount-utils does for Unpublish.

`GetRefs` is GetMountRefs of the mount-utils that `go.mod` pins (v0.28.2): a source
that is not mounted, but lies below a mount, is no error, and has the other
bind mounts of that directory for references.  Publish therefore binds the plain
directory if it comes before mergerfs (section 6); the model always does so too.

### BlockingMerger and Gogomergerfs

A critical section that cannot block is one step.  The only wait with the mutex
held is Stop's send to a full channel, so `mu` is seen held only there.
`mounts` counts the mounts on the target.

`Gogomergerfs` instantiates `BlockingMerger` with one Runner and one Cleaner and
uses its actions in its own: Run and CleanUp one after the other, the first
signal as `Cancel`, the end of the process as the loss of every field but the
mount.  mergerfs dies with its container and does not mount over a mount.

### VolumeAttachment and UnionVolume

`VolumeAttachment` has a place, a stage (starting, running, stopping) and what
the CO believes of each node.  It promises that the place is taken only when the
CO has asked for it, given up only when the CO has given it up, and that each OK
is true.  `ImplementsVolumeAttachment` maps the attach pod to place and stage.
It is claimed under `Contract`: one call at a time, calls further apart than the
watch trails, no Unpublish after a failed Publish, nobody else ending pods.

`UnionVolume` looks at one node.  It takes the attachment from
`VolumeAttachment`, the container of the attach pod from `Gogomergerfs` (and so
from `BlockingMerger`) and the node server from `NodePublish`.  Its actions are
theirs, joined where the parts meet: a pod is created, gets its hostPath
directory and its container, is Running as soon as that has started, is deleted
with a signal, and is gone when the container has ended.  What `NodePublish`
knows of mergerfs, `source` and `served`, is defined here from the container's
mount and daemon, so that `ImplementsNode` checks the assumptions `NodePublish`
makes about them.  An early Publish binds the plain directory here as well, and
that directory stays what the consumer has.  kubelet publishes only what it was told is attached, and the
volume is withdrawn only when no consumer has a trace of it, as CSI asks.

### Requests and Driver

`Requests` has an operator for each function of `pkg/csi/validation`; an
error list becomes the predicate that it is empty.  `checkModes` and
`NodePublishVolume` say "panic" where the code would dereference nil; the
typed-nil branches of the validators are there too (`filled`), but a request
decoded from the wire cannot take them, so the run does not.  A map of parameters
is a set of key, spelling and value; as the code walks it in any order,
`parseParameters` is the set of options it may come to.

`Driver` goes through main step by step (`phase`).  `built` are the servers
NewDriver makes, `services` what Run registers: two switches over the mode.
A request goes to a handler only if its service is registered.  `file` is the
socket file, the only thing that outlives the process; `config.removable` says
whether os.Remove can remove it (parseEndpoint takes any error but "not there" for
fatal).

## 3. Runs

`LowerVolume` (`Calls`, `Volumes`, `Specs`, `MaxFaults`, `MaxLag`):

| Run | Instance | Shows |
|---|---|---|
| LowerVolumeOverlap | 2 overlapping calls, 1 volume, 2 specs in two namespaces (one capacity odd), 2 faults, lag 2; 271 000 states | `TypeOK`, `AckedVolumeBacked`: two calls can race through every step and each be cut short |
| LowerVolumeSerial | 1 call, 2 volumes of which one is created again after its deletion, 1 fault, lag 2; 79 000 states | `ClaimsHaveSplit`, `DeletedMeansGone`, `RetiredVolumeReclaimed`; `ImplementsLifecycle`, the refinement of `VolumeLifecycle` with its fairness, for the volume that lives once |
| LowerVolumeRepeat, -Conflict | 1 call | violations, section 6 |

The properties of LowerVolumeSerial need one call at a time: with a Create and
a Delete of one volume in flight together a claim can be created after
DeleteVolume has passed it.  The CO does keep calls for a volume apart.
`AckedVolumeBacked` needs no such order but fails when names are used again
(section 6).

`Attachment`, with two nodes and waits of two polls:

| Run | Settings | Shows |
|---|---|---|
| AttachmentSafety | `Prompt`, `Lagging`, `Draining`, `Evicting`, `Overlapping` of `MCAttachment`; 499 000 states | `TypeOK`; `OnlyOwnPodDeleted`, with a cache up to six events behind or with drains; `PublishedMeansAttached` and `DetachedMeansGone` in `Prompt`; `ImplementsVolumeAttachment` in `Prompt` |
| AttachmentLive | `Evicting`, `Churning`; 84 000 states | `CallsAnswered`, `DetachCompletes` |

What is known where a premise does not hold.  `OnlyOwnPodDeleted` fails with
overlapping calls, or when a pod is evicted, or its node leaves, while the cache
is far behind: the code deletes by name and without a UID.
`PublishedMeansAttached` and `DetachedMeansGone` fail if a call starts while the
cache still shows what an earlier call has removed (a deadline of one call, an
immediate next one); they are promised for calls that are seconds apart, as
retries are.  `PublishedMeansAttached` also fails with evictions, not only
because the pod goes later: `isPodTerminating` does not look at the deletion
timestamp, so Publish may be answered OK for a pod on its way out.
`DetachedMeansGone` fails when the CO unpublishes after a failed Publish
(`unsure`): Unpublish is answered OK for a pod that is not scheduled yet, which
gets to the node afterwards and is left there.  `DetachCompletes` needs the
nodes to stay: from a node that has left, Unpublish is answered NotFound for
ever, which a comment in `DetachLower` mentions.

`NodePublish`, with two targets:

| Run | Settings | Shows |
|---|---|---|
| NodePublishShared | `Restarting`, `Steady`, `Overlapping` of `MCNodePublish`; 198 000 states | `NeverStacked`, `OneTargetPerUnion`, `UnpublishedMeansClean`, `PublishedStaysBound` with one call at a time, while mergerfs stops and dies; `LatePublishMeansUnion` in `Steady`; `TypeOK` and `UnpublishCompletes` even where overlapping calls have stacked mounts |
| NodePublishUnmerged | no fault, mergerfs stays, mergerfs mounts late or never | violation, section 6 |

Two unions are enough for "the union before the restart and the one after it",
two targets for "another consumer".  `LatePublishMeansUnion` speaks of a target that
is bare, with no call under way, when the union is there; what an earlier Publish
has bound is what `PublishedStaysBound` is about, and need not be the union.

`BlockingMerger` and `Gogomergerfs`:

| Run | Instance | Shows |
|---|---|---|
| BlockingMergerShared | 2 Runs, 2 Stops, 1 CleanUp, contexts cancelled; 4 800 states | `TypeOK`, `OneRun`, `MergedWhileRunning`; `NoLeftoverRequest` and `LoneStopReturns` (the Stop returns and so does the Run it stops) of the behaviours in which no two goroutines are in Stop together and no context is cancelled |
| GogomergerfsForced | all faults, signals at any time; 260 states | `TypeOK`, `LeftBehindOnlyIfForced`, `SignalEndsProcess` |

`NoLeftoverRequest` fails without its premise: a Run that ends by its context,
or a second Stop, leaves a request in the channel, and the next Run returns at
once for it.  The runs of `BlockingMerger` do not check for deadlock because two
Stops do deadlock (section 6); the one of `Gogomergerfs` does not because the
container of a deleted pod stops for good.  Only LowerVolumeOverlap uses
symmetry, of interchangeable goroutines, and it checks no temporal property.

`UnionVolume` and `Driver`:

| Run | Instance | Shows |
|---|---|---|
| UnionVolumeAttached | 2 targets, 2 mounts of mergerfs, 1 failed system call or node server crash; undisturbed, with crashes of the container, with evictions, with both; 208 000 states | `TypeOK`, `ImplementsNode` and `ReleasedMeansClean` always; `UnionOutlivesConsumers` without evictions; `NeverDeadWhilePublished` and `PublishCompletes` undisturbed |
| DriverServing | all modes, endpoints and surroundings, 1 kill, 1164 requests, a socket file that can be removed or not; 519 000 states | `TypeOK`, `NeverPanics`, `SpecsAsAssumed`, `CreatedMeansUsable`, `SameRequestSameSpec`, `ServesAgain` |

Two mounts of mergerfs are an attachment and the next one, or a container and
its successor.  What a consumer gets depends on when it is published.  After the
merge it is the union; before it the plain directory, even undisturbed, and
NodePublishVolume is answered OK (section 6).  The two do not mix: if the answer to
an early Publish is lost, its repetitions after the merge find the target on
another device and fail for ever ("already mounted by a different device").  That is
the exception `PublishCompletes` makes (`PlainAt`), and why `NeverDeadWhilePublished`
counts the plain directory as alive.  What remains true, and is not obvious, is that
the union does not go before its consumers do (`UnionOutlivesConsumers`).

What is known where a premise does not hold: when the attach pod is evicted between
Publish's look at the source and its bind mount, the union is unmounted in between,
and the consumer gets the plain directory although mergerfs had mounted
(`UnionOutlivesConsumers` fails).  When a container is killed, its mount stays
behind dead, its successor refuses to mount over it, and the volume is of no use
at that node, attached again or not, until somebody unmounts it; the consumers
see errors.
With another consumer of a union, a target that was unpublished half way keeps
Publish from completing (only one target per union is allowed), hence
`PublishCompletes` speaks of the only consumer.

The requests of DriverServing have every field right but one or two; the replies
to a request depend on one field at a time.  `CreatedMeansUsable` has no
converse: ControllerPublishVolume accepts a block capability, which CreateVolume
and NodePublishVolume refuse.  `SameRequestSameSpec` is about keys that differ in more
than their case: of two that do not, either value can win.  `ServesAgain` assumes
sound surroundings (`Sound`), a socket file that can be removed among them.

Each property of a passing run has a mutant: a definition such as
`DetachAnyNode` that stands next to the one it replaces and changes it as a
plausible slip would.  With the mutant in place TLC finds the property violated
in the same instance.

## 4. Environment and fairness

- *Bounds.*  `MaxFaults` (`faults`) counts failed requests and crashes, `MaxLag`
  (`lag`) the watch events under way, `MaxPolls` the attempts of a wait,
  `MaxUnions` (`unions`) the starts of mergerfs, `MaxMounts` the mounts on the
  merger's target.  Two faults let one
  attempt and its retry both go wrong; two polls let a wait go on once and give
  up.  A full event queue delays writers until the informer catches up: more
  lag is fewer, not other, behaviours of the code, except where section 3 says
  otherwise.
- *Switches.*  `SerialCalls`, `calls`: provisioner, attacher and kubelet keep
  one call per volume in flight, though CSI allows for more.  `Reused`: the
  names that are asked for again after their deletion (provisioned names carry
  the claim's UID, so normally none).  `prompt`: calls are further apart than
  the watch trails.  `unsure`: the CO also unpublishes after a failed Publish, as
  CSI asks it to.  `evicting`, `leaving`, `stops`, `Faults`, `Resends`: what else
  happens in the cluster, on the node, in the container.
- *One controller.*  The deployment asks for one replica.  A failed request has
  its effect at once or never; one that takes effect later is not modelled.
- *Fairness.*  Goroutines run and the watch delivers (weak fairness; strong for
  the calls of `Attachment`, where a full event queue, which is the model's and
  not the API server's, holds requests back).  A CO
  repeats DeleteVolume, ControllerUnpublishVolume and NodeUnpublishVolume until
  they are answered OK (strong fairness, because a retry can only start between
  other calls): that is what the sidecars' work queues and kubelet's reconciler
  do.  Finalizers, kubelets and the garbage collector finish deletions (strong,
  since a full event queue disables them for a while).  In `BlockingMerger` every
  goroutine that can go on does, strongly, because Go's mutex starves nobody.
  In `Gogomergerfs` kubelet signals the container of a deleted pod, and need not
  kill it.  Nothing obliges a CO to call Create or Publish, the scheduler to find
  room, or mergerfs to start.  Faults are finitely many in the CSI modules and
  unlimited in `Gogomergerfs`.  In `UnionVolume` the node server runs (weak)
  and kubelet repeats NodePublishVolume until it is answered OK (strong, other
  targets take their turns); neither the container nor mergerfs has to do
  anything, since Publish does not wait for them.  In `Driver` main goes on, which includes
  that the informers reach the API server, and kubelet starts the container again;
  no client has to send anything, and kills are finitely many.

## 5. Proofs

| Module | Theorem | Statement | Hypotheses |
|---|---|---|---|
| `LowerVolumeProofs` | `TypeCorrect` | `Spec => []TypeOK` | |
| | `AckedVolumesAreBacked` | `Spec => []AckedVolumeBacked` | `Reused = {}`, `NamesKeptApart` |
| | `ClaimsKeepTheirSplit` | `Spec => []ClaimsHaveSplit` | `SerialCalls`, `NamesKeptApart` |
| | `DeletedVolumesAreGone` | `Spec => []DeletedMeansGone` | `SerialCalls`, `NamesKeptApart` |
| | `LifecycleImplemented` | `Spec => Lifecycle!Init /\ [][Lifecycle!Next]_(Lifecycle!vars)` | `Reused = {}`, `SerialCalls`, `NamesKeptApart` |
| `AttachmentProofs` | `AttachmentTypeOK` | `Spec => []TypeOK` | |
| | `OwnPodDeleted` | `Spec => OnlyOwnPodDeleted` | |
| | `PublishedIsAttached` | `Spec => []PublishedMeansAttached` | |
| | `DetachedIsGone` | `Spec => []DetachedMeansGone` | |
| | `AttachmentImplements` | `Spec => ImplementsVolumeAttachment` | |
| `VolumeAttachmentProofs` | `PromisesSuffice` | `Spec => [](PublishedAtOnePlace /\ ReleasedMeansGone)` | `NoNode \notin Nodes` |
| `NodePublishProofs` | `NodeTypeOK` | `Spec => []TypeOK` | |
| | `MountsNotStacked` | `Spec => []NeverStacked` | |
| | `UnionBoundOnce` | `Spec => []OneTargetPerUnion` | |
| | `UnpublishedIsClean` | `Spec => []UnpublishedMeansClean` | |
| | `PublishedIsKept` | `Spec => PublishedStaysBound` | |
| | `LatePublishIsUnion` | `Spec => LatePublishMeansUnion` | |
| `BlockingMergerProofs` | `MergerTypes` | `Spec => []TypeOK` | |
| | `RunsExclude` | `Spec => []OneRun` | |
| | `MountKept` | `Spec => []MergedWhileRunning` | |
| | `NoRequestLeftOver` | `Spec => NoLeftoverRequest` | |
| `GogomergerfsProofs` | `ContainerTypes` | `Spec => []TypeOK` | |
| | `MountsNotForgotten` | `Spec => []LeftBehindOnlyIfForced` | |
| `UnionVolumeProofs` | `VolumeTypeOK` | `Spec => []TypeOK` | |
| | `VolumeImplementsNode` | `Spec => ImplementsNode` | |
| | `ReleasedIsClean` | `Spec => []ReleasedMeansClean` | |
| | `UnionOutlives` | `Spec => UnionOutlivesConsumers` | |
| | `PublishedIsNotDead` | `Spec => []NeverDeadWhilePublished` | |
| `DriverProofs` | `DriverTypeOK` | `Spec => []TypeOK` | |
| | `HandlersNeverPanic` | `Spec => []NeverPanics` | |
| | `SpecsAreAsAssumed` | `Spec => []SpecsAsAssumed` | |
| | `CreatedIsUsable` | `Spec => []CreatedMeansUsable` | |
| | `RepeatedAsksForTheSame` | `Spec => SameRequestSameSpec` | |

They hold for every number of goroutines, volumes, specs, nodes, targets, mounts,
faults, polls and watch events under way, and for every request.  The hypotheses
are the ones in the table and the named assumptions of each module, which TLC
evaluates on every run: bounds are natural numbers, settings are of the right
shape, null values are none of the values they stand in for (`NilAssumption`,
`NoNodeAssumption`, `NullsAssumption` and the like), and a request has the fields
that its protobuf message has (`MessagesAssumption`).  Premises that are part of a
property (`Serial`, `Contract`, `Undisturbed`, `Alone`, the regime) are sections
2 to 4's.  The table's three:

- `SerialCalls`: the CO has one call for a volume in flight (section 3 says what
  goes wrong otherwise).
- `Reused = {}`: no name is asked for again after DeleteVolume (section 6).
- `NamesKeptApart`: no volume is called `x-split` where another is called `x`.  The
  lookup with the suffix twice takes the former's split for the latter's, and
  CreateVolume acknowledges a volume that has no split.

*Acknowledged volumes* (`AckedVolumesAreBacked`).  The inductive invariant is
`BackedInv`.  Being backed is not inductive: nothing in it says that a call that
is about to answer OK has its claims.  `CreateProgress` says how far each
CreateVolume has come and that it has come with the volume's own split;
`KeptClaimsFit` that the claims of a volume nobody has given up are live and of
the size its split gives them; `KeptClaimsExist` that the informer, which may
miss claims, shows none that is gone, so that adopting a claim from the cache is
sound; `SplitsFiled` and `CallsOwnSplit` that no split is mistaken for another's;
`DeletesRetire` that whoever deletes a part deletes it of a volume that is given
up.  The proof has a lemma for each action and each conjunct the action can
disturb.  Overlapping calls are included: `SerialCalls` is not assumed.

*Deleted volumes and the life cycle.*  `SerialInv` follows the one call of a
volume: while a CreateVolume makes claims the split is there, while a DeleteVolume
goes through them those it has passed are gone, and when it answers OK nothing is
left.  A step for another volume leaves this one untouched
(`ElsewhereUntouched`), a claim only comes to life by CreateClaim
(`ComesToLife`).  These two theorems hold also when names are used again.  For the
refinement, each request is shown to change one part of one volume, added while
the volume is not given up (`PartAdded`) or removed once it is (`PartRemoved`), or
no part at all (`NothingChanges`); a reply is a promise, and `BackedInv` says that
it is true.

*The attachment.*  The controller decides on cached pods.  What it may be about to
see is `podCache` and the events under way, so the invariants of
`AttachmentProofs` speak of every pod `InView` and of every two of them in order
(`Before`).  `LifeInv`: if nobody else takes pods away, what the informer has yet
to hear is the life of one pod from its creation, or to its end, since a pod is
only created when none is in view and only deleted when one is; `UndisturbedInv`
adds what a call at `createPod` or `deletePod` can rely on.  `PromptInv` is the
other way to be safe: calls start with a cache that has caught up.  Either
suffices for `OwnPodDeleted`.  With both, `SteadyInv` keeps a published volume's pod
running and undeleted, and under the CO's contract `SureInv` adds that a volume
being detached has a running pod or none, which excludes the pod that is scheduled
after Unpublish was answered.  The refinement is then one case for each action.

`PromisesSuffice` says what follows for whoever sees `VolumeAttachment` only: a
published volume runs where it is published because nothing stops it before the
CO gives it up, and the place is not taken again before it is empty.

*The targets.*  A step of a call changes the mounts of its own target and no
other, by nothing, one more or one less (`TableStep`, `TableChange`).  `MountsInv`
joins the properties about mounts to what a call between its checks and its mount
has established: its target is bare, and the union at the source, if one is alive
there, is bound nowhere.  The latter survives a restart of mergerfs because unions
are new when they appear (`UnionsInv`).  `BeliefInv` ties kubelet's belief to the
call in flight, `CleanInv` follows an Unpublish from its last system call to
kubelet's ear, and `BoundInv` follows a Publish in the same way: what is answered OK
is bound.  `Late` is what `LatePublishIsUnion` carries on from the moment the target
is bare and the union there: mergerfs stays, and whatever is bound to the target
is that union.  Types need no premise, and hold with overlapping calls.

*The merger.*  `Safe` is `TypeOK`, `OneRun` and `MergedWhileRunning` together.
The steps that matter are Merge, which finds no Run blocking because `running`
is FALSE, stopRunning, which ends the only one, and Unmerge, which finds none;
every other step makes no Run begin or end to block (`NeitherInNorOut`).
`Handover`, for one goroutine in Stop at a time and no context cancelled, follows a
request: it is in the channel and its Run still blocks, or one Run has taken it, or
its confirmation is in the other channel, and as long as one of these holds the
Stop waits.

*The process.*  `Inv` adds that a mount that is there before the merge was left
by an earlier container, that CleanUp starts only when Run has returned, and
that nobody calls Stop.

*The volume on its node.*  `UnionVolumeProofs` stands on the proofs about its parts,
instantiated: what is an invariant of `Gogomergerfs` and of `NodePublish` is one
here, once every step is shown to be one of theirs.  For the container that is so
by construction, but for the pod's disappearance.  For the node server it is what
`VolumeImplementsNode` says: mergerfs mounts only where nothing is mounted, with a
new union, and only in a started container (`PodInv`, `MergeServes`); the union goes
in CleanUp only (`MountGoes`).  `OrderInv` is the orchestrator's part: a pod is only
being deleted, unless by an evictor, when the volume is not published, and then no
consumer has a trace of it.  So no call is under way and no target bound when the
union goes (`CleanUpIsLast`), which is `UnionOutlives`.  `CalmInv` says that
undisturbed a mount, be it a union or the plain directory an early Publish bound, is
a live one until CleanUp, and `UntouchedInv` that nothing is mounted at a target
kubelet never asked for.

*The requests.*  `Driver` keeps the last request and its reply.  `ReplyInv` says that
the reply is one of the handler's, `GrantedInv` what CreateVolume has accepted a
capability for, and `ServersInv` that what is registered has been built.  The rest
are lemmas about the operators of `Requests`, for every request: none of them
dereferences nil after the validation, and `parseParameters` comes to one result
if the keys are unambiguous, however the map is walked.

Only model-checked: all liveness properties (`RetiredVolumeReclaimed`,
`CallsAnswered`, `DetachCompletes`, `UnpublishCompletes`, `LoneStopReturns`,
`SignalEndsProcess`, `PublishCompletes`, `ServesAgain`) and the fairness of
`ImplementsLifecycle`, because fairness and ENABLED are out of the prover's
reach.  Every invariant and every action property of a passing run is proved.

## 6. Where the code and its documentation disagree

Each line is a run that TLC finds violated; `PROJECT.json` quotes the sentence it
contradicts.

| Run | What happens |
|---|---|
| LowerVolumeRepeat | CreateVolume repeated for an existing volume fails: the split is looked up as `<name>-split-split` |
| LowerVolumeConflict | a failed lookup is answered AlreadyExists, although the comment says it exits early |
| NodePublishUnmerged | the plain directory is bound if mergerfs has not mounted yet: a Running attach pod does not mean it has, and GetMountRefs of mount-utils v0.28.2 does not report that the source is no mount |

Known as well, without a run of their own: a volume name used again after
DeleteVolume is acknowledged on the old, terminating claims, because
`isValidLowerClaimFromSplit` is always true (`AckedVolumeBacked` with `Reused` not
empty); a second Stop that sends its request after the Run has taken the first one's
never returns, although `merger.go` calls it safe to Stop several times
(`LoneStopReturns` without `Alone`; gogomergerfs never calls Stop); the cases
section 3 names where the premise of a property fails, the pair of names of section 5, and a second signal,
which ends the process with the mount left behind (`forced` in
`Gogomergerfs`; the comment on `SetupSignalHandler` announces it, the promise in
`gogomergerfs/README.md` to unmount before exiting does not except it).

## 7. What is not modelled

- The texts of errors and logs, the logging interceptor, `--version`,
  `Driver.Stop` (called by nobody), requests whose context ends before the handler
  starts.
- The request validation is not composed with the handlers' work: `LowerVolume`,
  `Attachment` and `NodePublish` start from requests that pass (`Specs`,
  `ModesAssumption`); `SpecsAsAssumed` is what `Driver` shows about those.
- Names beyond their structure, the pod's spec beyond its node, mount options
  and the read-only flag (the code never compares them with an existing mount).
- Node informer lag: a node is there or not.
- The node's id and its `kubernetes.io/hostname` label are taken to be the same.
- kubelet's restarts of a single container of the attach pod do not show in
  `Attachment`, where the pod stays Running; they are in `Gogomergerfs`, and
  their effect on the node in `NodePublish` (`Serve`, `StopServing`).
- The shell that starts gogomergerfs in the pod is taken to pass signals on by
  having been replaced by it.
- Generated-style API code, manifests, image builds, examples.

## 8. Plan

Modelled and checked: everything of section 2.  Nothing else of the repository
keeps state or decides anything.  Proved: every safety property the runs check.

What could be added:

1. `AckedVolumesAreBacked` for names that are used again, for the volumes whose
   earlier life has left nothing behind.
2. `OnlyOwnPodDeleted` under weaker premises: how far behind the cache may be when a
   pod is evicted before Unpublish takes the next node's for it.
3. `NeverStacked` for overlapping calls of different targets: `Serial` is one call
   for the volume, and kubelet only promises one for each target.
