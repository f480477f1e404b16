----------------------------- MODULE LowerVolume -----------------------------
(***************************************************************************)
(* CreateVolume and DeleteVolume of the Union CSI controller.              *)
(*                                                                         *)
(* A volume is backed by one VolumeSplit object and by the two lower       *)
(* PersistentVolumeClaims the split lists.  Each call runs in a goroutine  *)
(* of its own, holds no lock, and reaches the API server one request at a  *)
(* time; lower claims are looked up in an informer cache that trails the   *)
(* server.  Every request may fail, with or without having taken effect    *)
(* (a timeout, a lost answer), and the controller may crash between any    *)
(* two requests.                                                           *)
(*                                                                         *)
(* The container orchestrator (CO) is the environment: it starts calls,    *)
(* repeats them, and gives up a volume by calling DeleteVolume.            *)
(***************************************************************************)
EXTENDS Naturals, Sequences, FiniteSets

CONSTANTS
  Calls,        \* the goroutines that can serve a call at the same time
  Volumes,      \* volume names, each a sequence of name parts
  Specs,        \* the VolumeSplit specs the CO can ask for
  NoSplit,      \* no VolumeSplit has this name
  NoClaim,      \* no PersistentVolumeClaim has this key
  MaxFaults,    \* bound: failed requests and crashes of a behaviour
  MaxLag,       \* bound: claim events the informer has yet to see
  SerialCalls,  \* TRUE: the CO has one call in flight for a volume
  Reused        \* the volume names the CO creates again after their deletion

SpecsAssumption ==
  Specs \subseteq [ns : STRING, class : STRING, size : Nat, modes : SUBSET STRING]

VolumesAssumption == Volumes \subseteq Seq(STRING) \ {<< >>}

BoundsAssumption == /\ MaxFaults \in Nat
                    /\ MaxLag \in Nat
                    /\ SerialCalls \in BOOLEAN
                    /\ Reused \subseteq Volumes

\* The validator rejects a request without capabilities, so no spec has an
\* empty set of access modes (pkg/csi/validation/controller_validator.go).
ModesAssumption == \A s \in Specs : s.modes # {}

ASSUME ConstantsAssumption ==
  SpecsAssumption /\ VolumesAssumption /\ BoundsAssumption /\ ModesAssumption

-----------------------------------------------------------------------------
(* Names, specs and objects *)

makeSplitName(volumeId) == Append(volumeId, "split")

\* GetSplit completes the name it is given.
storedUnder(volumeId) == makeSplitName(volumeId)

\* CreateSplit hands GetSplit a name that is complete already.
lookedUpUnder(volumeId) == storedUnder(makeSplitName(volumeId))

SplitNames == {storedUnder(v) : v \in Volumes} \cup {lookedUpUnder(v) : v \in Volumes}

NoName == << >>

\* What the client returns along with an error: a zero VolumeSplitSpec.
EmptySpec == [ns |-> "", class |-> "nil", size |-> 0, modes |-> {}]

Splits == [volume : Volumes, spec : Specs]

\* A request asking for new is satisfied by a split created for old.
isSplitSpecCompatible(old, new) ==
  /\ old.ns = new.ns
  /\ old.class = new.class
  /\ new.size <= old.size
  /\ new.modes \subseteq old.modes

Branches == {0, 1}

\* Each of the two lower claims gets half of the capacity, rounded down.
splitQuantity(size) == size \div 2

\* Namespace and name of the i-th lower claim of a split.
makeClaimKey(split, i) == <<split.spec.ns, split.volume, i>>

ClaimKeys == {s.ns : s \in Specs} \X Volumes \X Branches
Claims == [size : Nat, deleting : BOOLEAN]

ASSUME NullsAssumption == NoSplit \notin Splits /\ NoClaim \notin Claims

-----------------------------------------------------------------------------
(* State *)

VARIABLES
  splits,       \* the API server's VolumeSplits, by name
  claims,       \* the API server's lower claims, by namespace and name
  claimCache,   \* keys of the claims in the informer's store
  claimEvents,  \* watch events on their way to the informer, oldest first
  call,         \* the calls being served
  acked,        \* <<volume, spec>> the CO was told exist and has not given up
  retired,      \* volumes the CO has called DeleteVolume for
  deleted,      \* retired volumes the CO was told are gone
  faults        \* failed requests and crashes so far

server == <<splits, claims>>
informer == <<claimCache, claimEvents>>
orchestrator == <<acked, retired, deleted>>
vars == <<server, informer, call, orchestrator, faults>>

Steps == {"idle", "get", "createSplit", "getAgain", "lookupClaim", "createClaim",
          "deleteGet", "deleteClaim", "deleteSplit", "replied"}
Codes == {"none", "OK", "Internal", "AlreadyExists"}

Idle == [at |-> "idle", volume |-> NoName, spec |-> EmptySpec, split |-> NoSplit,
         i |-> 0, code |-> "none", faulted |-> FALSE]

Call == [at      : Steps,
         volume  : Volumes \cup {NoName},
         spec    : Specs \cup {EmptySpec},
         split   : Splits \cup {NoSplit},
         i       : Branches,
         code    : Codes,
         faulted : BOOLEAN]

Event == [key : ClaimKeys, present : BOOLEAN]

\* Every variable keeps its type and the informer's backlog its bound.
TypeOK ==
  /\ splits \in [SplitNames -> Splits \cup {NoSplit}]
  /\ claims \in [ClaimKeys -> Claims \cup {NoClaim}]
  /\ claimCache \subseteq ClaimKeys
  /\ claimEvents \in Seq(Event)
  /\ Len(claimEvents) <= MaxLag
  /\ call \in [Calls -> Call]
  /\ acked \subseteq Volumes \X Specs
  /\ retired \subseteq Volumes
  /\ deleted \subseteq retired
  /\ faults \in 0 .. MaxFaults

\* The informer is in sync before the server starts to serve.
Init ==
  /\ splits = [n \in SplitNames |-> NoSplit]
  /\ claims = [k \in ClaimKeys |-> NoClaim]
  /\ claimCache = {}
  /\ claimEvents = << >>
  /\ call = [c \in Calls |-> Idle]
  /\ acked = {}
  /\ retired = {}
  /\ deleted = {}
  /\ faults = 0

-----------------------------------------------------------------------------
(* Requests and replies *)

\* The request of this step is answered, as the server's state says.
Answered == UNCHANGED faults

\* The request of this step fails for a reason the server's state does not give.
Fault == faults < MaxFaults /\ faults' = faults + 1

Becomes(c, state) == call' = [call EXCEPT ![c] = state]

Goto(c, step) == Becomes(c, [call[c] EXCEPT !.at = step])

\* Enter the loop over the claims of a split.
GotoWith(c, step, split) ==
  Becomes(c, [call[c] EXCEPT !.at = step, !.split = split, !.i = 0])

Reply(c, code) == Becomes(c, [call[c] EXCEPT !.at = "replied", !.code = code])

\* Mutant of FailWith: an error is logged and swallowed.
FailWithOK(c, code) == Reply(c, "OK")

FailWith(c, code) ==
  Becomes(c, [call[c] EXCEPT !.at = "replied", !.code = code, !.faulted = TRUE])

\* Go on with a VolumeSplit that exists, provided it suits the request.
Adopt(c, split) ==
  IF isSplitSpecCompatible(split.spec, call[c].spec)
  THEN GotoWith(c, "lookupClaim", split)
  ELSE Reply(c, "AlreadyExists")

\* Mutant of NextBranch: the loop runs one branch too far.
NextBranchOneTooMany(c, step, after) ==
  Becomes(c, [call[c] EXCEPT !.at = step, !.i = @ + 1])

\* Mutant of NextBranch: the loop ends after the first branch.
NextBranchFirstOnly(c, step, after) == after

\* The two loops over the claims of a split: the next claim, or what follows.
NextBranch(c, step, after) ==
  IF call[c].i = 0
  THEN Becomes(c, [call[c] EXCEPT !.at = step, !.i = 1])
  ELSE after

ClaimOf(c) == makeClaimKey(call[c].split, call[c].i)

\* The server tells its watchers.
Notify(key, present) ==
  /\ Len(claimEvents) < MaxLag
  /\ claimEvents' = Append(claimEvents, [key |-> key, present |-> present])
  /\ UNCHANGED claimCache

-----------------------------------------------------------------------------
(* CreateVolume *)

MayStart(c, v) ==
  /\ call[c] = Idle
  /\ SerialCalls => \A d \in Calls : call[d].volume # v

StartCreate(c, v, s) ==
  /\ MayStart(c, v)
  /\ v \in retired => v \in Reused /\ v \in deleted
  /\ Becomes(c, [Idle EXCEPT !.at = "get", !.volume = v, !.spec = s])
  /\ retired' = retired \ {v}
  /\ deleted' = deleted \ {v}
  /\ UNCHANGED <<server, informer, acked, faults>>

\* An error other than NotFound does not stop CreateSplit: it compares the
\* request with the empty object that came with the error, which lists no
\* claims to create should it pass.
CreateGet(c) ==
  /\ call[c].at = "get"
  /\ LET found == splits[lookedUpUnder(call[c].volume)] IN
     \/ /\ Answered
        /\ IF found = NoSplit THEN Goto(c, "createSplit") ELSE Adopt(c, found)
     \/ /\ Fault
        /\ FailWith(c, IF isSplitSpecCompatible(EmptySpec, call[c].spec)
                       THEN "Internal" ELSE "AlreadyExists")
  /\ UNCHANGED <<server, informer, orchestrator>>

doCreateSplit(c) ==
  /\ call[c].at = "createSplit"
  /\ LET name   == storedUnder(call[c].volume)
         new    == [volume |-> call[c].volume, spec |-> call[c].spec]
         Stored == splits[name] = NoSplit /\ splits' = [splits EXCEPT ![name] = new]
     IN
     \/ /\ Answered
        /\ Stored
        /\ GotoWith(c, "lookupClaim", new)
     \/ /\ Answered
        /\ splits[name] # NoSplit
        /\ Goto(c, "getAgain")
        /\ UNCHANGED splits
     \/ /\ Fault
        /\ FailWith(c, "Internal")
        /\ Stored \/ UNCHANGED splits
  /\ UNCHANGED <<claims, informer, orchestrator>>

CreateGetAgain(c) ==
  /\ call[c].at = "getAgain"
  /\ LET found == splits[lookedUpUnder(call[c].volume)] IN
     \/ /\ Answered
        /\ IF found = NoSplit THEN Reply(c, "Internal") ELSE Adopt(c, found)
     \/ /\ Fault
        /\ FailWith(c, "Internal")
  /\ UNCHANGED <<server, informer, orchestrator>>

\* Any claim found in the cache is taken for the right one.
LookupClaim(c) ==
  /\ call[c].at = "lookupClaim"
  /\ IF ClaimOf(c) \in claimCache
     THEN NextBranch(c, "lookupClaim", Reply(c, "OK"))
     ELSE Goto(c, "createClaim")
  /\ UNCHANGED <<server, informer, orchestrator, faults>>

CreateClaim(c) ==
  /\ call[c].at = "createClaim"
  /\ LET key    == ClaimOf(c)
         new    == [size |-> splitQuantity(call[c].split.spec.size), deleting |-> FALSE]
         Stored == /\ claims[key] = NoClaim
                   /\ claims' = [claims EXCEPT ![key] = new]
                   /\ Notify(key, TRUE)
         Same   == UNCHANGED <<claims, informer>>
     IN
     \/ Answered /\ Stored /\ NextBranch(c, "lookupClaim", Reply(c, "OK"))
     \/ Answered /\ claims[key] # NoClaim /\ Same /\ Reply(c, "Internal")
     \/ Fault /\ FailWith(c, "Internal") /\ (Stored \/ Same)
  /\ UNCHANGED <<splits, orchestrator>>

-----------------------------------------------------------------------------
(* DeleteVolume *)

StartDelete(c, v) ==
  /\ MayStart(c, v)
  /\ Becomes(c, [Idle EXCEPT !.at = "deleteGet", !.volume = v])
  /\ acked' = {a \in acked : a[1] # v}
  /\ retired' = retired \cup {v}
  /\ UNCHANGED <<server, informer, deleted, faults>>

\* Mutant of DeleteGet: the split goes before its claims.
DeleteGetSkippingClaims(c) ==
  /\ call[c].at = "deleteGet"
  /\ Answered
  /\ LET found == splits[storedUnder(call[c].volume)] IN
     IF found = NoSplit THEN Reply(c, "OK") ELSE GotoWith(c, "deleteSplit", found)
  /\ UNCHANGED <<server, informer, orchestrator>>

DeleteGet(c) ==
  /\ call[c].at = "deleteGet"
  /\ LET found == splits[storedUnder(call[c].volume)] IN
     \/ Answered /\ found = NoSplit /\ Reply(c, "OK")
     \/ Answered /\ found # NoSplit /\ GotoWith(c, "deleteClaim", found)
     \/ Fault /\ FailWith(c, "Internal")
  /\ UNCHANGED <<server, informer, orchestrator>>

\* A claim carries the pvc-protection finalizer: it is marked, not removed.
DeleteClaim(c) ==
  /\ call[c].at = "deleteClaim"
  /\ LET key    == ClaimOf(c)
         Marked == /\ claims[key] # NoClaim
                   /\ claims' = [claims EXCEPT ![key] = [@ EXCEPT !.deleting = TRUE]]
         Done   == NextBranch(c, "deleteClaim", Goto(c, "deleteSplit"))
     IN
     \/ Answered /\ Marked /\ Done
     \/ Answered /\ claims[key] = NoClaim /\ UNCHANGED claims /\ Done
     \/ Fault /\ FailWith(c, "Internal") /\ (Marked \/ UNCHANGED claims)
  /\ UNCHANGED <<splits, informer, orchestrator>>

\* Deleting a split that is gone already is answered OK too.
DeleteSplit(c) ==
  /\ call[c].at = "deleteSplit"
  /\ LET name    == storedUnder(call[c].volume)
         Removed == splits' = [splits EXCEPT ![name] = NoSplit]
     IN
     \/ Answered /\ Removed /\ Reply(c, "OK")
     \/ Fault /\ FailWith(c, "Internal") /\ (Removed \/ UNCHANGED splits)
  /\ UNCHANGED <<claims, informer, orchestrator>>

-----------------------------------------------------------------------------
(* The reply reaches the CO; the rest of the cluster; crashes *)

\* A call that carries a spec is a CreateVolume.
IsCreate(c) == call[c].spec # EmptySpec

Return(c) ==
  /\ call[c].at = "replied"
  /\ LET v  == call[c].volume
         ok == call[c].code = "OK"
     IN /\ acked' = IF ok /\ IsCreate(c) /\ v \notin retired
                    THEN acked \cup {<<v, call[c].spec>>} ELSE acked
        /\ deleted' = IF ok /\ ~ IsCreate(c) /\ v \in retired
                      THEN deleted \cup {v} ELSE deleted
  /\ Becomes(c, Idle)
  /\ UNCHANGED <<server, informer, retired, faults>>

\* The pvc-protection controller lets a claim go that nothing uses.
FinalizeClaim(key) ==
  /\ claims[key] # NoClaim
  /\ claims[key].deleting
  /\ claims' = [claims EXCEPT ![key] = NoClaim]
  /\ Notify(key, FALSE)
  /\ UNCHANGED <<splits, call, orchestrator, faults>>

\* The informer takes the next event in.
Deliver ==
  /\ claimEvents # << >>
  /\ LET event == Head(claimEvents) IN
     claimCache' = IF event.present THEN claimCache \cup {event.key}
                                    ELSE claimCache \ {event.key}
  /\ claimEvents' = Tail(claimEvents)
  /\ UNCHANGED <<server, call, orchestrator, faults>>

\* The controller restarts: calls are lost, the informer lists the claims anew.
Crash ==
  /\ Fault
  /\ call' = [c \in Calls |-> Idle]
  /\ claimCache' = {k \in ClaimKeys : claims[k] # NoClaim}
  /\ claimEvents' = << >>
  /\ UNCHANGED <<server, orchestrator>>

-----------------------------------------------------------------------------

CallStep(c) ==
  \/ CreateGet(c) \/ doCreateSplit(c) \/ CreateGetAgain(c)
  \/ LookupClaim(c) \/ CreateClaim(c)
  \/ DeleteGet(c) \/ DeleteClaim(c) \/ DeleteSplit(c)
  \/ Return(c)

Next ==
  \/ \E c \in Calls, v \in Volumes, s \in Specs : StartCreate(c, v, s)
  \/ \E c \in Calls, v \in Volumes : StartDelete(c, v)
  \/ \E c \in Calls : CallStep(c)
  \/ \E key \in ClaimKeys : FinalizeClaim(key)
  \/ Deliver
  \/ Crash

Spec == Init /\ [][Next]_vars

(***************************************************************************)
(* Goroutines run, the watch delivers, the finalizer controller works, and *)
(* the external-provisioner repeats DeleteVolume until it is answered OK.  *)
(* Faults are finitely many.                                               *)
(***************************************************************************)
RetryDelete(v) ==
  v \in retired \ deleted /\ \E c \in Calls : StartDelete(c, v)

Fairness ==
  /\ \A c \in Calls : WF_vars(CallStep(c))
  /\ \A v \in Volumes : SF_vars(RetryDelete(v))
  /\ \A key \in ClaimKeys : SF_vars(FinalizeClaim(key))
  /\ WF_vars(Deliver)

FairSpec == Spec /\ Fairness

-----------------------------------------------------------------------------
(* Properties *)

SplitOf(v) == splits[storedUnder(v)]

\* The claim exists and has not been deleted.
Live(key) == claims[key] # NoClaim /\ ~ claims[key].deleting

\* The volume exists, suits the spec s and has both of its halves.
Backed(v, s) ==
  /\ SplitOf(v) # NoSplit
  /\ SplitOf(v).volume = v
  /\ isSplitSpecCompatible(SplitOf(v).spec, s)
  /\ \A i \in Branches :
       LET key == makeClaimKey(SplitOf(v), i)
       IN Live(key) /\ claims[key].size = splitQuantity(SplitOf(v).spec.size)

\* A volume that CreateVolume answered OK for, and that nobody has called
\* DeleteVolume for since, has a VolumeSplit that suits every request it was
\* acknowledged for and two live lower claims of the size that split gives
\* them (CreateLower; hazards: stale claim cache, partial creation, retries).
AckedVolumeBacked == \A a \in acked : Backed(a[1], a[2])

\* A live lower claim always has the VolumeSplit that lists it, so that
\* DeleteVolume can still find it: no order of partial failures leaks a claim
\* (CreateLower writes the split first, DeleteLower removes it last).
ClaimsHaveSplit ==
  \A key \in ClaimKeys :
    Live(key) => /\ SplitOf(key[2]) # NoSplit
                 /\ SplitOf(key[2]).spec.ns = key[1]

\* Once DeleteVolume is answered OK the volume is gone for good: no split, and
\* no lower claim that is not on its way out (DeleteLower).
DeletedMeansGone ==
  \A v \in deleted :
    /\ SplitOf(v) = NoSplit
    /\ \A key \in ClaimKeys : key[2] = v => ~ Live(key)

\* A volume the CO gives up is eventually deleted, finalizers and all, whatever
\* CreateVolume and the faults had left of it, unless the CO creates it again
\* (DeleteLower is idempotent).
RetiredVolumeReclaimed ==
  \A v \in Volumes :
    v \in retired ~>
      \/ v \notin retired
      \/ /\ SplitOf(v) = NoSplit
         /\ \A key \in ClaimKeys : key[2] = v => claims[key] = NoClaim

\* CreateVolume repeated with the parameters the existing split was created
\* with gets that split: nothing but a failed request makes it fail
\* (CreateSplit's doc comment; what the code does differs).
RepeatedCreateSucceeds ==
  \A c \in Calls :
    call[c].at = "replied" /\ IsCreate(c) /\ ~ call[c].faulted
      /\ SplitOf(call[c].volume) = [volume |-> call[c].volume, spec |-> call[c].spec]
    => call[c].code = "OK"

\* AlreadyExists tells the CO that the volume exists and does not suit the
\* request (ErrIdempotencyIncompatible; what the code does differs).
AlreadyExistsMeansConflict ==
  \A c \in Calls :
    call[c].at = "replied" /\ call[c].code = "AlreadyExists"
    => /\ SplitOf(call[c].volume) # NoSplit
       /\ ~ isSplitSpecCompatible(SplitOf(call[c].volume).spec, call[c].spec)

\* The parts of a volume that are there to be used.
partsOf(v) ==
  {p \in {"split"} : SplitOf(v) # NoSplit} \cup
  {p \in {"lower0"} : \E key \in ClaimKeys : key[2] = v /\ key[3] = 0 /\ Live(key)} \cup
  {p \in {"lower1"} : \E key \in ClaimKeys : key[2] = v /\ key[3] = 1 /\ Live(key)}

\* The volumes with one life to live.
Once == Volumes \ Reused

Lifecycle == INSTANCE VolumeLifecycle WITH
  Volumes  <- Once,
  Parts    <- {"split", "lower0", "lower1"},
  parts    <- [v \in Once |-> partsOf(v)],
  promised <- {a[1] : a \in acked} \cap Once,
  retired  <- retired \cap Once

\* The requests CreateVolume and DeleteVolume send amount to the life of a
\* volume that VolumeLifecycle describes: built up part by part, acknowledged
\* when complete, untouched while promised, never rebuilt once given up, and
\* then taken down to the last part (CreateLower, DeleteLower).
ImplementsLifecycle == Lifecycle!Spec

-----------------------------------------------------------------------------
(* Strengthenings: with TypeOK, the inductive invariants of the proofs *)

\* No volume has the name of another volume's split.
NamesKeptApart == \A v, w \in Volumes : lookedUpUnder(v) # storedUnder(w)

CreateSteps == {"get", "createSplit", "getAgain", "lookupClaim", "createClaim"}
DeleteSteps == {"deleteGet", "deleteClaim", "deleteSplit"}
ClaimSteps  == {"lookupClaim", "createClaim", "deleteClaim"}

\* A call in this state knows what its next step uses.
Formed(state) ==
  /\ state.at # "idle" => state.volume \in Volumes
  /\ state.at \in CreateSteps => state.spec \in Specs
  /\ state.at \in ClaimSteps => state.split \in Splits

CallsFormed == \A c \in Calls : Formed(call[c])

SplitsFiled ==
  \A n \in SplitNames : splits[n] # NoSplit => n = storedUnder(splits[n].volume)

(* Of the volumes that have not been given up: *)

KeptClaimsFit ==
  \A key \in ClaimKeys :
    claims[key] # NoClaim /\ key[2] \notin retired
    => /\ ~ claims[key].deleting
       /\ SplitOf(key[2]) # NoSplit
       /\ SplitOf(key[2]).spec.ns = key[1]
       /\ claims[key].size = splitQuantity(SplitOf(key[2]).spec.size)

\* The informer may miss a claim, but shows none that does not exist.
KeptClaimsExist ==
  \A key \in ClaimKeys :
    /\ key[2] \notin retired
    /\ \/ key \in claimCache
       \/ \E j \in 1 .. Len(claimEvents) : claimEvents[j].key = key
    => claims[key] # NoClaim

\* How far a CreateVolume has come, it has come with the volume's own split.
CreateProgress(state) ==
  LET Made(i) == claims[makeClaimKey(state.split, i)] # NoClaim
      done    == state.at = "replied" /\ state.code = "OK"
  IN state.volume \notin retired /\ (done \/ state.at \in {"lookupClaim", "createClaim"})
     => /\ state.split \in Splits
        /\ state.split = SplitOf(state.volume)
        /\ isSplitSpecCompatible(state.split.spec, state.spec)
        /\ state.i = 1 => Made(0)
        /\ done => Made(0) /\ Made(1)

KeptCreatesProgress == \A c \in Calls : CreateProgress(call[c])

CallsOwnSplit ==
  \A c \in Calls : call[c].at \in ClaimSteps => call[c].split.volume = call[c].volume

DeletesRetire ==
  \A c \in Calls : call[c].at \in DeleteSteps => call[c].volume \in retired

AckedKept == \A a \in acked : a[1] \notin retired

BackedInv ==
  /\ TypeOK
  /\ CallsFormed
  /\ SplitsFiled
  /\ CallsOwnSplit
  /\ KeptClaimsFit
  /\ KeptClaimsExist
  /\ KeptCreatesProgress
  /\ DeletesRetire
  /\ AckedKept
  /\ AckedVolumeBacked

(* With one call in flight for a volume: *)

\* A call has its volume to itself.
OneCall ==
  \A c, d \in Calls : call[c].volume = call[d].volume /\ call[c].at # "idle" => c = d

NoneLive(v) == \A key \in ClaimKeys : key[2] = v => ~ Live(key)

\* What a call has found and done its volume still shows, and a volume that was
\* deleted, or is being deleted, is not created at the same time.
CallSerial(c) ==
  LET state == call[c]
      v     == call[c].volume
      done  == call[c].at = "replied" /\ call[c].code = "OK"
  IN /\ state.at \in ClaimSteps => state.split = SplitOf(v)
     /\ state.at = "deleteClaim" /\ state.i = 1 => ~ Live(makeClaimKey(state.split, 0))
     /\ state.at = "deleteSplit" => NoneLive(v)
     /\ done /\ ~ IsCreate(c) => SplitOf(v) = NoSplit /\ NoneLive(v)
     /\ state.at \in DeleteSteps => v \in retired
     /\ state.at # "idle" /\ IsCreate(c) => v \notin retired

CallsSerial == \A c \in Calls : CallSerial(c)

SerialInv ==
  /\ TypeOK
  /\ CallsFormed
  /\ SplitsFiled
  /\ CallsOwnSplit
  /\ OneCall
  /\ CallsSerial
  /\ ClaimsHaveSplit
  /\ DeletedMeansGone
=============================================================================
