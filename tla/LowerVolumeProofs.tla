-------------------------- MODULE LowerVolumeProofs --------------------------
(***************************************************************************)
(* Theorems about LowerVolume, for every set of calls, volumes and specs   *)
(* and every bound.                                                        *)
(***************************************************************************)
EXTENDS LowerVolume, SequenceTheorems, TLAPS

-----------------------------------------------------------------------------
(* Names and keys *)

\* The objects of a split that exists have a place in the server's state
\* (makeSplitName, makeClaimName).
LEMMA KeysInDomain ==
  /\ \A v \in Volumes : storedUnder(v) \in SplitNames /\ lookedUpUnder(v) \in SplitNames
  /\ \A split \in Splits, i \in Branches :
       /\ makeClaimKey(split, i) \in ClaimKeys
       /\ makeClaimKey(split, i)[1] = split.spec.ns
       /\ makeClaimKey(split, i)[2] = split.volume
  /\ \A key \in ClaimKeys : key[2] \in Volumes
  /\ \A key \in ClaimKeys, split \in Splits :
       key[1] = split.spec.ns /\ key[2] = split.volume
       => \E i \in Branches : key = makeClaimKey(split, i)
  BY DEF SplitNames, Splits, makeClaimKey, ClaimKeys, Branches

\* A stored split is found under its volume's name only (makeSplitName).
LEMMA StoredUnderInjective ==
  \A v, w \in Volumes : storedUnder(v) = storedUnder(w) => v = w
<1> SUFFICES ASSUME NEW v \in Volumes, NEW w \in Volumes,
                    Append(v, "split") = Append(w, "split")
             PROVE  v = w
  BY DEF storedUnder, makeSplitName
<1>1. v \in Seq(STRING) /\ w \in Seq(STRING)
  BY ConstantsAssumption DEF VolumesAssumption
<1>2. Len(v) = Len(w)
  BY <1>1
<1>3. \A i \in 1 .. Len(v) : v[i] = w[i]
  BY <1>1, <1>2
<1> QED
  BY <1>1, <1>2, <1>3

-----------------------------------------------------------------------------
(* Types *)

TypeInv == TypeOK /\ CallsFormed

\* Nothing is stored and nobody is served to begin with (Init).
LEMMA TypeInvInit == Init => TypeInv
  BY ConstantsAssumption
  DEF Init, TypeInv, TypeOK, CallsFormed, Formed, Idle, Call, Steps, Codes, Branches, NoName,
      CreateSteps, ClaimSteps, BoundsAssumption

\* A call that takes a typed, well-formed state leaves all calls so.
LEMMA BecomesTyped ==
  ASSUME TypeInv, NEW c \in Calls, NEW state \in Call, Formed(state), Becomes(c, state)
  PROVE  call' \in [Calls -> Call] /\ CallsFormed'
  BY DEF TypeInv, TypeOK, CallsFormed, Formed, Becomes

\* The states the helpers of the handlers put a call in are typed and well
\* formed.
LEMMA HelpersTyped ==
  ASSUME TypeInv, NEW c \in Calls, call[c].at # "idle"
  PROVE  /\ \A code \in Codes :
              Reply(c, code) \/ FailWith(c, code)
              => call' \in [Calls -> Call] /\ CallsFormed'
         /\ \A split \in Splits, step \in ClaimSteps :
              /\ step \in CreateSteps => call[c].spec \in Specs
              /\ GotoWith(c, step, split)
              => call' \in [Calls -> Call] /\ CallsFormed'
         /\ \A step \in Steps :
              /\ step \in CreateSteps => call[c].spec \in Specs
              /\ step \in ClaimSteps => call[c].split \in Splits
              /\ \/ Goto(c, step)
                 \/ Becomes(c, [call[c] EXCEPT !.at = step, !.i = 1])
              => call' \in [Calls -> Call] /\ CallsFormed'
<1> USE DEF Steps, Codes, CreateSteps, ClaimSteps
<1>1. call[c] \in Call /\ Formed(call[c])
  BY DEF TypeInv, TypeOK, CallsFormed
<1>2. \A code \in Codes :
        LET r == [call[c] EXCEPT !.at = "replied", !.code = code]
            f == [call[c] EXCEPT !.at = "replied", !.code = code, !.faulted = TRUE]
        IN r \in Call /\ Formed(r) /\ f \in Call /\ Formed(f)
  BY <1>1 DEF Call, Formed
<1>3. \A split \in Splits, step \in ClaimSteps :
        LET g == [call[c] EXCEPT !.at = step, !.split = split, !.i = 0]
        IN (step \in CreateSteps => call[c].spec \in Specs) => g \in Call /\ Formed(g)
  BY <1>1 DEF Call, Formed, Branches
<1>4. \A step \in Steps :
        LET g == [call[c] EXCEPT !.at = step]
            n == [call[c] EXCEPT !.at = step, !.i = 1]
        IN /\ step \in CreateSteps => call[c].spec \in Specs
           /\ step \in ClaimSteps => call[c].split \in Splits
           => g \in Call /\ Formed(g) /\ n \in Call /\ Formed(n)
  BY <1>1 DEF Call, Formed, Branches
<1> QED
  BY <1>2, <1>3, <1>4, BecomesTyped DEF Reply, FailWith, GotoWith, Goto

\* Every step leaves typed variables and well-formed calls.
LEMMA TypeInvNext == TypeInv /\ [Next]_vars => TypeInv'
<1> SUFFICES ASSUME TypeInv, [Next]_vars
             PROVE  TypeInv'
  OBVIOUS
<1> DEFINE CallsTyped == call \in [Calls -> Call] /\ CallsFormed
           RestTyped  == /\ splits \in [SplitNames -> Splits \cup {NoSplit}]
                         /\ claims \in [ClaimKeys -> Claims \cup {NoClaim}]
                         /\ claimCache \subseteq ClaimKeys
                         /\ claimEvents \in Seq(Event)
                         /\ Len(claimEvents) <= MaxLag
                         /\ acked \subseteq Volumes \X Specs
                         /\ retired \subseteq Volumes
                         /\ deleted \subseteq retired
                         /\ faults \in 0 .. MaxFaults
<1>a. CallsTyped /\ RestTyped
  BY DEF TypeInv, TypeOK
<1>b. SUFFICES CallsTyped' /\ RestTyped'
  BY DEF TypeInv, TypeOK
<1>c. ASSUME NEW c \in Calls PROVE call[c] \in Call /\ Formed(call[c])
  BY <1>a DEF CallsFormed
<1> HIDE DEF CallsTyped, RestTyped
<1>d. Idle \in Call /\ Formed(Idle)
  BY DEF Idle, Call, Formed, Steps, Codes, Branches, CreateSteps, ClaimSteps
<1>1. ASSUME NEW c \in Calls, NEW v \in Volumes, NEW s \in Specs, StartCreate(c, v, s)
      PROVE  CallsTyped' /\ RestTyped'
  <2> DEFINE new == [Idle EXCEPT !.at = "get", !.volume = v, !.spec = s]
  <2>1. new \in Call /\ Formed(new)
    BY <1>d DEF Idle, Call, Formed, Steps, CreateSteps, ClaimSteps
  <2>2. CallsTyped'
    BY <1>1, <2>1, BecomesTyped DEF StartCreate, CallsTyped
  <2>3. RestTyped'
    BY <1>1, <1>a DEF RestTyped, StartCreate, server, informer
  <2> QED
    BY <2>2, <2>3
<1>2. ASSUME NEW c \in Calls, NEW v \in Volumes, StartDelete(c, v)
      PROVE  CallsTyped' /\ RestTyped'
  <2> DEFINE new == [Idle EXCEPT !.at = "deleteGet", !.volume = v]
  <2>1. new \in Call /\ Formed(new)
    BY <1>d DEF Idle, Call, Formed, Steps, CreateSteps, ClaimSteps
  <2>2. CallsTyped'
    BY <1>2, <2>1, BecomesTyped DEF StartDelete, CallsTyped
  <2>3. RestTyped'
    BY <1>2, <1>a DEF RestTyped, StartDelete, server, informer
  <2> QED
    BY <2>2, <2>3
<1>3. ASSUME NEW c \in Calls, CreateGet(c)
      PROVE  CallsTyped' /\ RestTyped'
  <2>1. CallsTyped'
    BY <1>3, <1>a, <1>c, HelpersTyped, KeysInDomain
    DEF CallsTyped, RestTyped, Formed, Steps, Codes, CreateSteps, ClaimSteps, CreateGet, Adopt
  <2>2. RestTyped'
    BY <1>3, <1>a, <1>c, ConstantsAssumption
    DEF RestTyped, CreateGet, BoundsAssumption, Answered, Fault, server, informer,
        orchestrator
  <2> QED
    BY <2>1, <2>2
<1>4. ASSUME NEW c \in Calls, doCreateSplit(c)
      PROVE  CallsTyped' /\ RestTyped'
  <2>1. CallsTyped'
    BY <1>4, <1>a, <1>c, HelpersTyped, KeysInDomain
    DEF CallsTyped, RestTyped, Formed, Steps, Codes, CreateSteps, ClaimSteps, doCreateSplit, Splits
  <2>2. RestTyped'
    BY <1>4, <1>a, <1>c, ConstantsAssumption, KeysInDomain
    DEF RestTyped, doCreateSplit, Formed, CreateSteps, Splits, BoundsAssumption, Answered,
        Fault, server, informer, orchestrator
  <2> QED
    BY <2>1, <2>2
<1>5. ASSUME NEW c \in Calls, CreateGetAgain(c)
      PROVE  CallsTyped' /\ RestTyped'
  <2>1. CallsTyped'
    BY <1>5, <1>a, <1>c, HelpersTyped, KeysInDomain
    DEF CallsTyped, RestTyped, Formed, Steps, Codes, CreateSteps, ClaimSteps, CreateGetAgain, Adopt
  <2>2. RestTyped'
    BY <1>5, <1>a, <1>c, ConstantsAssumption
    DEF RestTyped, CreateGetAgain, BoundsAssumption, Answered, Fault, server, informer,
        orchestrator
  <2> QED
    BY <2>1, <2>2
<1>6. ASSUME NEW c \in Calls, LookupClaim(c)
      PROVE  CallsTyped' /\ RestTyped'
  <2>1. CallsTyped'
    BY <1>6, <1>a, <1>c, HelpersTyped, KeysInDomain
    DEF CallsTyped, RestTyped, Formed, Steps, Codes, CreateSteps, ClaimSteps, LookupClaim,
        NextBranch
  <2>2. RestTyped'
    BY <1>6, <1>a, <1>c, ConstantsAssumption
    DEF RestTyped, LookupClaim, Answered, Fault, server, informer, orchestrator
  <2> QED
    BY <2>1, <2>2
<1>7. ASSUME NEW c \in Calls, CreateClaim(c)
      PROVE  CallsTyped' /\ RestTyped'
  <2>1. CallsTyped'
    BY <1>7, <1>a, <1>c, HelpersTyped, KeysInDomain
    DEF CallsTyped, RestTyped, Formed, Steps, Codes, CreateSteps, ClaimSteps, CreateClaim,
        NextBranch
  <2>2. ClaimOf(c) \in ClaimKeys /\ call[c].split.spec.size \in Nat
    BY <1>7, <1>c, KeysInDomain, ConstantsAssumption
    DEF CreateClaim, ClaimOf, Formed, ClaimSteps, Call, Splits, SpecsAssumption
  <2>3. [size |-> splitQuantity(call[c].split.spec.size), deleting |-> FALSE] \in Claims
    BY <2>2 DEF Claims, splitQuantity
  <2>4. [key |-> ClaimOf(c), present |-> TRUE] \in Event
    BY <2>2 DEF Event
  <2>5. claims' \in [ClaimKeys -> Claims \cup {NoClaim}]
    BY <1>7, <1>a, <2>2, <2>3 DEF RestTyped, CreateClaim
  <2>6. /\ Notify(ClaimOf(c), TRUE) \/ UNCHANGED informer
        /\ Answered \/ Fault
        /\ UNCHANGED <<splits, orchestrator>>
    BY <1>7 DEF CreateClaim, informer
  <2>7. claimEvents' \in Seq(Event) /\ Len(claimEvents') <= MaxLag /\ claimCache' = claimCache
    BY <1>a, <2>4, <2>6, ConstantsAssumption DEF RestTyped, Notify, BoundsAssumption, informer
  <2>8. faults' \in 0 .. MaxFaults /\ UNCHANGED <<splits, orchestrator>>
    BY <1>a, <2>6, ConstantsAssumption DEF RestTyped, BoundsAssumption, Answered, Fault
  <2>9. RestTyped'
    BY <1>a, <2>5, <2>7, <2>8 DEF RestTyped, orchestrator
  <2> QED
    BY <2>1, <2>9
<1>8. ASSUME NEW c \in Calls, DeleteGet(c)
      PROVE  CallsTyped' /\ RestTyped'
  <2>1. CallsTyped'
    BY <1>8, <1>a, <1>c, HelpersTyped, KeysInDomain
    DEF CallsTyped, RestTyped, Formed, Steps, Codes, CreateSteps, ClaimSteps, DeleteGet
  <2>2. RestTyped'
    BY <1>8, <1>a, <1>c, ConstantsAssumption
    DEF RestTyped, DeleteGet, BoundsAssumption, Answered, Fault, server, informer,
        orchestrator
  <2> QED
    BY <2>1, <2>2
<1>9. ASSUME NEW c \in Calls, DeleteClaim(c)
      PROVE  CallsTyped' /\ RestTyped'
  <2>1. CallsTyped'
    BY <1>9, <1>a, <1>c, HelpersTyped, KeysInDomain
    DEF CallsTyped, RestTyped, Formed, Steps, Codes, CreateSteps, ClaimSteps, DeleteClaim,
        NextBranch
  <2>2. ClaimOf(c) \in ClaimKeys
    BY <1>9, <1>c, KeysInDomain DEF DeleteClaim, ClaimOf, Formed, ClaimSteps, Call
  <2>3. ASSUME claims[ClaimOf(c)] # NoClaim
        PROVE  [claims[ClaimOf(c)] EXCEPT !.deleting = TRUE] \in Claims
    BY <2>2, <2>3, <1>a DEF RestTyped, Claims
  <2>4. claims' \in [ClaimKeys -> Claims \cup {NoClaim}]
    BY <1>9, <1>a, <2>2, <2>3 DEF RestTyped, DeleteClaim
  <2>5. RestTyped'
    BY <1>9, <1>a, <2>4, ConstantsAssumption
    DEF RestTyped, DeleteClaim, BoundsAssumption, Answered, Fault, informer, orchestrator
  <2> QED
    BY <2>1, <2>5
<1>10. ASSUME NEW c \in Calls, DeleteSplit(c)
      PROVE  CallsTyped' /\ RestTyped'
  <2>1. CallsTyped'
    BY <1>10, <1>a, <1>c, HelpersTyped, KeysInDomain
    DEF CallsTyped, RestTyped, Formed, Steps, Codes, CreateSteps, ClaimSteps, DeleteSplit
  <2>2. RestTyped'
    BY <1>10, <1>a, <1>c, ConstantsAssumption
    DEF RestTyped, DeleteSplit, BoundsAssumption, Answered, Fault, server, informer,
        orchestrator
  <2> QED
    BY <2>1, <2>2
<1>11. ASSUME NEW c \in Calls, Return(c)
       PROVE  CallsTyped' /\ RestTyped'
  <2>1. CallsTyped'
    BY <1>11, <1>d, BecomesTyped DEF Return, CallsTyped
  <2>2. RestTyped'
    BY <1>11, <1>a, <1>c
    DEF RestTyped, Return, IsCreate, Call, Formed, server, informer
  <2> QED
    BY <2>1, <2>2
<1>12. ASSUME NEW key \in ClaimKeys, FinalizeClaim(key)
       PROVE  CallsTyped' /\ RestTyped'
  BY <1>12, <1>a, ConstantsAssumption
  DEF FinalizeClaim, Notify, Event, CallsTyped, CallsFormed, RestTyped, BoundsAssumption,
      orchestrator
<1>13. CASE Deliver
  <2>1. claimEvents \in Seq(Event) /\ claimEvents # << >> /\ Len(claimEvents) <= MaxLag
    BY <1>13, <1>a DEF Deliver, RestTyped
  <2>2. /\ Head(claimEvents) \in Event
        /\ Tail(claimEvents) \in Seq(Event)
        /\ Len(Tail(claimEvents)) = Len(claimEvents) - 1
    BY <2>1, HeadTailProperties
  <2>3. Head(claimEvents).key \in ClaimKeys /\ Len(Tail(claimEvents)) <= MaxLag
    BY <2>1, <2>2, ConstantsAssumption DEF Event, BoundsAssumption
  <2> QED
    BY <1>13, <1>a, <2>2, <2>3
    DEF Deliver, CallsTyped, CallsFormed, RestTyped, server, orchestrator
<1>14. CASE Crash
  BY <1>14, <1>a, <1>d, ConstantsAssumption
  DEF Crash, CallsTyped, CallsFormed, RestTyped, BoundsAssumption, Fault, server, orchestrator
<1>15. CASE UNCHANGED vars
  BY <1>15, <1>a
  DEF vars, CallsTyped, CallsFormed, RestTyped, server, informer, orchestrator
<1> QED
  BY <1>1, <1>2, <1>3, <1>4, <1>5, <1>6, <1>7, <1>8, <1>9, <1>10, <1>11, <1>12, <1>13,
     <1>14, <1>15
  DEF Next, CallStep

\* Type correctness: every variable of LowerVolume keeps its type, and the
\* informer's backlog its bound (all handlers).
THEOREM TypeCorrect == Spec => []TypeOK
<1>1. Spec => []TypeInv
  BY TypeInvInit, TypeInvNext, PTL DEF Spec
<1> QED
  BY <1>1, PTL DEF TypeInv

-----------------------------------------------------------------------------
(***************************************************************************)
(* AckedVolumeBacked.  As long as no name is used again, the split of a    *)
(* volume that was not given up is written once and its claims are only    *)
(* ever added, so that whatever a CreateVolume has seen of them stays.     *)
(***************************************************************************)

\* What exists of the volumes that are not given up stays as it is.
Grows ==
  \A v \in Volumes :
    v \notin retired'
    => /\ SplitOf(v) # NoSplit => SplitOf(v)' = SplitOf(v)
       /\ \A key \in ClaimKeys :
            key[2] = v /\ claims[key] # NoClaim => claims'[key] = claims[key]

BackedHypotheses == Reused = {} /\ NamesKeptApart

\* No split is found under the name CreateSplit looks up.
LEMMA NothingLookedUp ==
  ASSUME TypeInv, SplitsFiled, NamesKeptApart, NEW v \in Volumes
  PROVE  splits[lookedUpUnder(v)] = NoSplit
<1>1. lookedUpUnder(v) \in SplitNames
  BY KeysInDomain
<1>2. splits[lookedUpUnder(v)] \in Splits \cup {NoSplit}
  BY <1>1 DEF TypeInv, TypeOK
<1>3. ASSUME splits[lookedUpUnder(v)] # NoSplit PROVE FALSE
  BY <1>1, <1>2, <1>3 DEF SplitsFiled, NamesKeptApart, Splits
<1> QED
  BY <1>3

\* A split that is stored belongs to the volume it is found by.
LEMMA SplitOfOwn ==
  ASSUME TypeInv, SplitsFiled, NEW v \in Volumes, SplitOf(v) # NoSplit
  PROVE  SplitOf(v) \in Splits /\ SplitOf(v).volume = v
<1>1. storedUnder(v) \in SplitNames
  BY KeysInDomain
<1>2. SplitOf(v) \in Splits
  BY <1>1 DEF TypeInv, TypeOK, SplitOf
<1>3. storedUnder(v) = storedUnder(SplitOf(v).volume) /\ SplitOf(v).volume \in Volumes
  BY <1>1, <1>2 DEF SplitsFiled, SplitOf, Splits
<1> QED
  BY <1>2, <1>3, StoredUnderInjective

\* Names given up stay given up (StartCreate).
LEMMA RetiredStays ==
  ASSUME TypeInv, Reused = {}, [Next]_vars
  PROVE  retired \subseteq retired'
  BY DEF Next, CallStep, StartCreate, StartDelete, CreateGet, doCreateSplit, CreateGetAgain,
         LookupClaim, CreateClaim, DeleteGet, DeleteClaim, DeleteSplit, Return, FinalizeClaim,
         Deliver, Crash, vars, orchestrator

\* The step a call takes leaves the others alone.
LEMMA OthersStay ==
  ASSUME TypeInv, NEW c \in Calls, NEW d \in Calls, c # d,
         \/ CallStep(c)
         \/ \E v \in Volumes, s \in Specs : StartCreate(c, v, s)
         \/ \E v \in Volumes : StartDelete(c, v)
  PROVE  call'[d] = call[d]
<1>1. \E state : Becomes(c, state)
  BY DEF CallStep, StartCreate, StartDelete, CreateGet, doCreateSplit, CreateGetAgain,
         LookupClaim, CreateClaim, DeleteGet, DeleteClaim, DeleteSplit, Return,
         Goto, GotoWith, Reply, FailWith, Adopt, NextBranch
<1> QED
  BY <1>1 DEF Becomes, TypeInv, TypeOK

\* A call changes by a step of its own, or with a crash.
LEMMA WhoMoves ==
  ASSUME TypeInv, [Next]_vars, NEW c \in Calls, call'[c] # call[c]
  PROVE  \/ CallStep(c)
         \/ \E v \in Volumes, s \in Specs : StartCreate(c, v, s)
         \/ \E v \in Volumes : StartDelete(c, v)
         \/ Crash
  BY OthersStay DEF Next, FinalizeClaim, Deliver, vars

\* The call goes on with the request and the loop it had.
SameRequest(c) ==
  call'[c].volume = call[c].volume /\ call'[c].spec = call[c].spec

SameLoop(c) == call'[c].split = call[c].split /\ call'[c].i = call[c].i

\* What the helpers of the handlers make of a call, field by field (Goto and the
\* others).
LEMMA HelperEffects ==
  ASSUME TypeInv, NEW c \in Calls
  PROVE  /\ \A step \in Steps : Goto(c, step)
              => call'[c].at = step /\ SameRequest(c) /\ SameLoop(c)
         /\ \A step \in Steps, split \in Splits : GotoWith(c, step, split)
              => /\ call'[c].at = step /\ SameRequest(c)
                 /\ call'[c].split = split /\ call'[c].i = 0
         /\ \A step \in Steps : Becomes(c, [call[c] EXCEPT !.at = step, !.i = 1])
              => /\ call'[c].at = step /\ SameRequest(c)
                 /\ call'[c].split = call[c].split /\ call'[c].i = 1
         /\ \A code \in Codes : Reply(c, code) \/ FailWith(c, code)
              => /\ call'[c].at = "replied" /\ call'[c].code = code
                 /\ SameRequest(c) /\ SameLoop(c)
         /\ Becomes(c, Idle) => call'[c] = Idle
<1>1. call[c] \in Call /\ (\A state : Becomes(c, state) => call'[c] = state)
  BY DEF TypeInv, TypeOK, Becomes
<1>5. ASSUME NEW step \in Steps, Goto(c, step)
      PROVE  call'[c].at = step /\ SameRequest(c) /\ SameLoop(c)
  BY <1>1, <1>5 DEF Goto, SameRequest, SameLoop, Call
<1>6. ASSUME NEW step \in Steps, NEW split \in Splits, GotoWith(c, step, split)
      PROVE  /\ call'[c].at = step /\ SameRequest(c)
             /\ call'[c].split = split /\ call'[c].i = 0
  BY <1>1, <1>6 DEF GotoWith, SameRequest, Call
<1>7. ASSUME NEW step \in Steps, Becomes(c, [call[c] EXCEPT !.at = step, !.i = 1])
      PROVE  /\ call'[c].at = step /\ SameRequest(c)
             /\ call'[c].split = call[c].split /\ call'[c].i = 1
  BY <1>1, <1>7 DEF SameRequest, Call
<1>8. ASSUME NEW code \in Codes, Reply(c, code) \/ FailWith(c, code)
      PROVE  /\ call'[c].at = "replied" /\ call'[c].code = code
             /\ SameRequest(c) /\ SameLoop(c)
  BY <1>1, <1>8 DEF Reply, FailWith, SameRequest, SameLoop, Call
<1> QED
  BY <1>1, <1>5, <1>6, <1>7, <1>8

\* Who changes a split, and to what (doCreateSplit, DeleteSplit).
LEMMA SplitsEffect ==
  ASSUME TypeInv, [Next]_vars, NEW n \in SplitNames, splits'[n] # splits[n]
  PROVE  \E c \in Calls :
           /\ n = storedUnder(call[c].volume)
           /\ \/ /\ doCreateSplit(c)
                 /\ splits[n] = NoSplit
                 /\ splits'[n] = [volume |-> call[c].volume, spec |-> call[c].spec]
              \/ DeleteSplit(c) /\ splits'[n] = NoSplit
<1>1. \E c \in Calls : doCreateSplit(c) \/ DeleteSplit(c)
  BY DEF Next, CallStep, StartCreate, StartDelete, CreateGet, CreateGetAgain, LookupClaim,
         CreateClaim, DeleteGet, DeleteClaim, Return, FinalizeClaim, Deliver, Crash, vars, server
<1>2. ASSUME NEW c \in Calls, doCreateSplit(c)
      PROVE  /\ n = storedUnder(call[c].volume)
             /\ splits[n] = NoSplit
             /\ splits'[n] = [volume |-> call[c].volume, spec |-> call[c].spec]
  BY <1>2 DEF doCreateSplit, TypeInv, TypeOK
<1>3. ASSUME NEW c \in Calls, DeleteSplit(c)
      PROVE  n = storedUnder(call[c].volume) /\ splits'[n] = NoSplit
  BY <1>3 DEF DeleteSplit, TypeInv, TypeOK
<1> QED
  BY <1>1, <1>2, <1>3

\* Who changes a claim, and to what (CreateClaim, DeleteClaim, FinalizeClaim).
LEMMA ClaimsEffect ==
  ASSUME TypeInv, [Next]_vars, NEW key \in ClaimKeys, claims'[key] # claims[key]
  PROVE  \/ \E c \in Calls :
               /\ CreateClaim(c)
               /\ key = ClaimOf(c)
               /\ claims[key] = NoClaim
               /\ claims'[key] = [size |-> splitQuantity(call[c].split.spec.size),
                                  deleting |-> FALSE]
         \/ \E c \in Calls :
               /\ DeleteClaim(c)
               /\ key = ClaimOf(c)
               /\ claims[key] # NoClaim
               /\ claims'[key] = [claims[key] EXCEPT !.deleting = TRUE]
         \/ /\ FinalizeClaim(key)
            /\ claims[key] # NoClaim
            /\ claims[key].deleting
            /\ claims'[key] = NoClaim
<1>1. \/ \E c \in Calls : CreateClaim(c) \/ DeleteClaim(c)
      \/ \E k \in ClaimKeys : FinalizeClaim(k)
  BY DEF Next, CallStep, StartCreate, StartDelete, CreateGet, doCreateSplit, CreateGetAgain,
         LookupClaim, DeleteGet, DeleteSplit, Return, Deliver, Crash, vars, server
<1>2. ASSUME NEW c \in Calls, CreateClaim(c)
      PROVE  /\ key = ClaimOf(c)
             /\ claims[key] = NoClaim
             /\ claims'[key] = [size |-> splitQuantity(call[c].split.spec.size),
                                deleting |-> FALSE]
  BY <1>2 DEF CreateClaim, TypeInv, TypeOK
<1>3. ASSUME NEW c \in Calls, DeleteClaim(c)
      PROVE  /\ key = ClaimOf(c)
             /\ claims[key] # NoClaim
             /\ claims'[key] = [claims[key] EXCEPT !.deleting = TRUE]
  BY <1>3 DEF DeleteClaim, TypeInv, TypeOK
<1>4. ASSUME NEW k \in ClaimKeys, FinalizeClaim(k)
      PROVE  /\ k = key
             /\ claims[key] # NoClaim
             /\ claims[key].deleting
             /\ claims'[key] = NoClaim
  BY <1>4 DEF FinalizeClaim, TypeInv, TypeOK
<1> QED
  BY <1>1, <1>2, <1>3, <1>4

\* Of a volume that is not given up nothing changes (SplitsEffect, ClaimsEffect).
LEMMA KeptGrows ==
  ASSUME BackedInv, Reused = {}, [Next]_vars
  PROVE  Grows
<1> USE DEF BackedInv
<1>1. TypeInv /\ retired \subseteq retired'
  BY RetiredStays DEF TypeInv
<1> SUFFICES ASSUME NEW v \in Volumes, v \notin retired, v \notin retired'
             PROVE  /\ SplitOf(v) # NoSplit => SplitOf(v)' = SplitOf(v)
                    /\ \A key \in ClaimKeys :
                         key[2] = v /\ claims[key] # NoClaim => claims'[key] = claims[key]
  BY <1>1 DEF Grows
<1>2. ASSUME SplitOf(v) # NoSplit, splits'[storedUnder(v)] # splits[storedUnder(v)]
      PROVE  FALSE
  <2>1. PICK c \in Calls : storedUnder(v) = storedUnder(call[c].volume) /\ DeleteSplit(c)
    BY <1>1, <1>2, KeysInDomain, SplitsEffect DEF SplitOf
  <2>2. call[c].volume \in Volumes /\ call[c].volume \in retired
    BY <2>1 DEF DeleteSplit, DeletesRetire, DeleteSteps, CallsFormed, Formed
  <2> QED
    BY <2>1, <2>2, StoredUnderInjective
<1>3. ASSUME NEW key \in ClaimKeys, key[2] = v, claims[key] # NoClaim,
             claims'[key] # claims[key]
      PROVE  FALSE
  <2>1. ~ claims[key].deleting
    BY <1>3 DEF KeptClaimsFit
  <2>2. PICK c \in Calls : DeleteClaim(c) /\ key = ClaimOf(c)
    BY <1>1, <1>3, <2>1, ClaimsEffect
  <2>3. call[c].at = "deleteClaim"
    BY <2>2 DEF DeleteClaim
  <2>4. call[c].volume \in retired /\ call[c].split.volume = call[c].volume
    BY <2>3 DEF DeletesRetire, DeleteSteps, CallsOwnSplit, ClaimSteps
  <2> QED
    BY <1>3, <2>2, <2>4 DEF ClaimOf, makeClaimKey
<1> QED
  BY <1>2, <1>3 DEF SplitOf

\* What a CreateVolume has seen of its volume no step takes away.
LEMMA SeenStays ==
  ASSUME BackedInv, Reused = {}, [Next]_vars, NEW c \in Calls,
         call[c].volume \notin retired',
         \/ call[c].at \in {"lookupClaim", "createClaim"}
         \/ call[c].at = "replied" /\ call[c].code = "OK"
  PROVE  /\ call[c].split \in Splits
         /\ call[c].split.volume = call[c].volume
         /\ call[c].split = splits'[storedUnder(call[c].volume)]
         /\ isSplitSpecCompatible(call[c].split.spec, call[c].spec)
         /\ call[c].i = 1 => claims'[makeClaimKey(call[c].split, 0)] # NoClaim
         /\ call[c].at = "replied"
            => /\ claims'[makeClaimKey(call[c].split, 0)] # NoClaim
               /\ claims'[makeClaimKey(call[c].split, 1)] # NoClaim
<1> USE DEF BackedInv
<1> DEFINE state == call[c]
<1>1. Grows /\ retired \subseteq retired' /\ TypeInv
  BY KeptGrows, RetiredStays DEF TypeInv
<1>3. state.volume \in Volumes
  BY DEF CallsFormed, Formed
<1>4. /\ state.split \in Splits
      /\ state.split = SplitOf(state.volume)
      /\ isSplitSpecCompatible(state.split.spec, state.spec)
      /\ state.i = 1 => claims[makeClaimKey(state.split, 0)] # NoClaim
      /\ state.at = "replied" => /\ claims[makeClaimKey(state.split, 0)] # NoClaim
                                 /\ claims[makeClaimKey(state.split, 1)] # NoClaim
  BY <1>1 DEF KeptCreatesProgress, CreateProgress
<1>5. splits'[storedUnder(state.volume)] = SplitOf(state.volume)
  BY <1>1, <1>3, <1>4, NullsAssumption DEF Grows, SplitOf
<1>6. state.split.volume = state.volume
  BY <1>1, <1>3, <1>4, NullsAssumption, SplitOfOwn
<1>7. \A i \in Branches : claims[makeClaimKey(state.split, i)] # NoClaim
        => claims'[makeClaimKey(state.split, i)] # NoClaim
  BY <1>1, <1>3, <1>4, <1>6, KeysInDomain DEF Grows
<1> QED
  BY <1>4, <1>5, <1>6, <1>7 DEF Branches

\* Progress a CreateVolume has made is not lost to a step of somebody else.
LEMMA ProgressStays ==
  ASSUME BackedInv, Reused = {}, [Next]_vars, NEW c \in Calls, call'[c] = call[c]
  PROVE  CreateProgress(call[c])'
  BY SeenStays DEF CreateProgress, makeClaimKey, isSplitSpecCompatible, SplitOf

\* CreateVolume goes on with the volume's own split, one claim after the other
\* (CreateSplit, createLowerFromSplit).
LEMMA KeptCreatesProgressNext ==
  ASSUME BackedInv, BackedHypotheses, [Next]_vars
  PROVE  KeptCreatesProgress'
<1> USE DEF BackedInv
<1>1. Grows /\ retired \subseteq retired' /\ TypeInv
  BY KeptGrows, RetiredStays DEF TypeInv, BackedHypotheses
<1> SUFFICES ASSUME NEW c \in Calls
             PROVE  CreateProgress(call[c])'
  BY DEF KeptCreatesProgress
<1>2. CASE call'[c] = call[c]
  BY <1>2, ProgressStays DEF BackedHypotheses
<1>3. CASE call'[c].at \notin {"replied", "lookupClaim", "createClaim"}
  BY <1>3 DEF CreateProgress
<1>4. CASE call'[c].at = "replied" /\ call'[c].code # "OK"
  BY <1>4 DEF CreateProgress
<1>5. CASE call[c].volume \in retired /\ call'[c].volume = call[c].volume
  BY <1>1, <1>5 DEF CreateProgress
<1>6. CASE CallStep(c)
  <2>1. call[c] \in Call /\ Formed(call[c])
    BY DEF TypeOK, CallsFormed
  <2>2. CASE CreateGet(c)
    <3>1. splits[lookedUpUnder(call[c].volume)] = NoSplit
      BY <1>1, <2>1, <2>2, NothingLookedUp
      DEF CreateGet, Formed, BackedHypotheses
    <3> QED
      BY <1>1, <2>2, <3>1, <1>3, <1>4, HelperEffects DEF CreateGet, Steps, Codes
  <2>3. CASE doCreateSplit(c)
    <3> DEFINE new == [volume |-> call[c].volume, spec |-> call[c].spec]
    <3>1. new \in Splits /\ storedUnder(call[c].volume) \in SplitNames
      BY <2>1, <2>3, KeysInDomain DEF doCreateSplit, Formed, CreateSteps, Splits
    <3>2. isSplitSpecCompatible(call[c].spec, call[c].spec)
      BY <2>1, <2>3, ConstantsAssumption
      DEF doCreateSplit, Formed, CreateSteps, isSplitSpecCompatible, SpecsAssumption
    <3>3. \/ /\ GotoWith(c, "lookupClaim", new)
             /\ splits' = [splits EXCEPT ![storedUnder(call[c].volume)] = new]
          \/ Goto(c, "getAgain")
          \/ FailWith(c, "Internal")
      BY <2>3 DEF doCreateSplit
    <3>4. CASE /\ GotoWith(c, "lookupClaim", new)
               /\ splits' = [splits EXCEPT ![storedUnder(call[c].volume)] = new]
      <4>1. /\ call'[c].at = "lookupClaim" /\ SameRequest(c)
            /\ call'[c].split = new /\ call'[c].i = 0
        BY <1>1, <3>1, <3>4, HelperEffects DEF Steps
      <4>2. splits'[storedUnder(call[c].volume)] = new
        BY <3>1, <3>4 DEF TypeOK
      <4> QED
        BY <3>1, <3>2, <4>1, <4>2
        DEF CreateProgress, SameRequest, SplitOf, isSplitSpecCompatible
    <3> QED
      BY <1>1, <1>3, <1>4, <3>3, <3>4, HelperEffects DEF Steps, Codes
  <2>4. CASE CreateGetAgain(c)
    <3>1. splits[lookedUpUnder(call[c].volume)] = NoSplit
      BY <1>1, <2>1, <2>4, NothingLookedUp
      DEF CreateGetAgain, Formed, BackedHypotheses
    <3> QED
      BY <1>1, <2>4, <3>1, <1>4, HelperEffects DEF CreateGetAgain, Codes
  <2>5. CASE LookupClaim(c) \/ CreateClaim(c)
    <3>1. call[c].split \in Splits /\ call[c].i \in Branches /\ call[c].volume \in Volumes
      BY <2>1, <2>5 DEF LookupClaim, CreateClaim, Call, Formed, ClaimSteps
    <3>2. CASE call'[c].volume \in retired'
      BY <3>2 DEF CreateProgress
    <3>3. CASE Reply(c, "Internal") \/ FailWith(c, "Internal")
      BY <1>1, <1>4, <3>3, HelperEffects DEF Codes
    <3>4. CASE call'[c].volume \notin retired' /\ Goto(c, "createClaim")
      <4>1. call'[c].at = "createClaim" /\ SameRequest(c) /\ SameLoop(c)
        BY <1>1, <3>4, HelperEffects DEF Steps
      <4> QED
        BY <2>5, <3>4, <4>1, SeenStays
        DEF CreateProgress, SameRequest, SameLoop, LookupClaim, CreateClaim, makeClaimKey,
            isSplitSpecCompatible, SplitOf, BackedHypotheses
    <3>5. CASE /\ call'[c].volume \notin retired'
               /\ NextBranch(c, "lookupClaim", Reply(c, "OK"))
               /\ claims'[ClaimOf(c)] # NoClaim
      <4>1. CASE call[c].i = 0
        <5>1. /\ call'[c].at = "lookupClaim" /\ SameRequest(c)
              /\ call'[c].split = call[c].split /\ call'[c].i = 1
          BY <1>1, <3>5, <4>1, HelperEffects DEF NextBranch, Steps
        <5> QED
          BY <2>5, <3>5, <4>1, <5>1, SeenStays
          DEF CreateProgress, SameRequest, LookupClaim, CreateClaim, makeClaimKey, ClaimOf,
              isSplitSpecCompatible, SplitOf, BackedHypotheses
      <4>2. CASE call[c].i = 1
        <5>1. Reply(c, "OK")
          BY <3>5, <4>2 DEF NextBranch
        <5>2. /\ call'[c].at = "replied" /\ SameRequest(c)
              /\ call'[c].split = call[c].split /\ call'[c].i = 1
          BY <1>1, <4>2, <5>1, HelperEffects DEF Codes, SameLoop
        <5> QED
          BY <2>5, <3>5, <4>2, <5>2, SeenStays
          DEF CreateProgress, SameRequest, LookupClaim, CreateClaim, makeClaimKey, ClaimOf,
              isSplitSpecCompatible, SplitOf, BackedHypotheses
      <4> QED
        BY <3>1, <4>1, <4>2 DEF Branches
    <3>6. CASE LookupClaim(c)
      <4>1. ClaimOf(c) \in ClaimKeys /\ ClaimOf(c)[2] = call[c].split.volume
        BY <3>1, KeysInDomain DEF ClaimOf
      <4>2. ASSUME ClaimOf(c) \in claimCache, call[c].volume \notin retired
            PROVE  claims'[ClaimOf(c)] # NoClaim
        BY <3>6, <4>1, <4>2
        DEF LookupClaim, CallsOwnSplit, ClaimSteps, KeptClaimsExist, server
      <4>3. call'[c].volume = call[c].volume
        BY <1>1, <3>6, HelperEffects
        DEF LookupClaim, NextBranch, SameRequest, Steps, Codes
      <4> QED
        BY <1>1, <3>2, <3>4, <3>5, <3>6, <4>2, <4>3 DEF LookupClaim
    <3>7. CASE CreateClaim(c)
      <4>1. ClaimOf(c) \in ClaimKeys
        BY <3>1, KeysInDomain DEF ClaimOf
      <4>2. \/ /\ NextBranch(c, "lookupClaim", Reply(c, "OK"))
               /\ claims' = [claims EXCEPT ![ClaimOf(c)] =
                               [size |-> splitQuantity(call[c].split.spec.size),
                                deleting |-> FALSE]]
            \/ Reply(c, "Internal") \/ FailWith(c, "Internal")
        BY <3>7 DEF CreateClaim
      <4>3. [size |-> splitQuantity(call[c].split.spec.size), deleting |-> FALSE] # NoClaim
        <5>1. call[c].split.spec.size \in Nat
          BY <3>1, ConstantsAssumption DEF Splits, SpecsAssumption
        <5>2. [size |-> splitQuantity(call[c].split.spec.size), deleting |-> FALSE] \in Claims
          BY <5>1 DEF Claims, splitQuantity
        <5> QED
          BY <5>2, NullsAssumption
      <4> QED
        BY <3>2, <3>3, <3>5, <4>1, <4>2, <4>3 DEF TypeOK
    <3> QED
      BY <2>5, <3>6, <3>7
  <2>7. CASE DeleteGet(c) \/ DeleteClaim(c) \/ DeleteSplit(c)
    <3>1. call[c].volume \in retired
      BY <2>7 DEF DeleteGet, DeleteClaim, DeleteSplit, DeletesRetire, DeleteSteps
    <3>2. call'[c].volume = call[c].volume
      <4>1. CASE DeleteGet(c)
        <5>1. splits[storedUnder(call[c].volume)] \in Splits \cup {NoSplit}
          BY <2>1, <4>1, KeysInDomain DEF DeleteGet, Formed, TypeOK
        <5> QED
          BY <1>1, <4>1, <5>1, HelperEffects DEF DeleteGet, SameRequest, Steps, Codes
      <4>2. CASE DeleteClaim(c)
        BY <1>1, <4>2, HelperEffects DEF DeleteClaim, NextBranch, SameRequest, Steps, Codes
      <4>3. CASE DeleteSplit(c)
        BY <1>1, <4>3, HelperEffects DEF DeleteSplit, SameRequest, Codes
      <4> QED
        BY <2>7, <4>1, <4>2, <4>3
    <3> QED
      BY <3>1, <3>2, <1>5
  <2>8. CASE Return(c)
    <3>1. Idle.at = "idle"
      BY DEF Idle
    <3> QED
      BY <1>1, <2>8, <3>1, <1>3, HelperEffects DEF Return
  <2> QED
    BY <1>6, <2>2, <2>3, <2>4, <2>5, <2>7, <2>8 DEF CallStep
<1>7. CASE \/ \E v \in Volumes, s \in Specs : StartCreate(c, v, s)
           \/ \E v \in Volumes : StartDelete(c, v)
  <2>1. \E v, s : \/ Becomes(c, [Idle EXCEPT !.at = "get", !.volume = v, !.spec = s])
                  \/ Becomes(c, [Idle EXCEPT !.at = "deleteGet", !.volume = v])
    BY <1>7 DEF StartCreate, StartDelete
  <2>2. call'[c].at \in {"get", "deleteGet"}
    BY <2>1 DEF Becomes, Idle, TypeOK
  <2> QED
    BY <2>2, <1>3
<1>8. CASE Crash
  BY <1>8, <1>3 DEF Crash, Idle
<1> QED
  BY <1>1, <1>2, <1>6, <1>7, <1>8, WhoMoves

\* A split is stored under its volume's split name (doCreateSplit).
LEMMA SplitsFiledNext ==
  ASSUME TypeInv, SplitsFiled, [Next]_vars
  PROVE  SplitsFiled'
<1> SUFFICES ASSUME NEW n \in SplitNames, splits'[n] # NoSplit
             PROVE  n = storedUnder(splits'[n].volume)
  BY DEF SplitsFiled, storedUnder, makeSplitName
<1>1. CASE splits'[n] = splits[n]
  BY <1>1 DEF SplitsFiled
<1>2. CASE splits'[n] # splits[n]
  <2>1. PICK c \in Calls :
          /\ n = storedUnder(call[c].volume)
          /\ splits'[n] = [volume |-> call[c].volume, spec |-> call[c].spec]
    BY <1>2, SplitsEffect
  <2> QED
    BY <2>1
<1> QED
  BY <1>1, <1>2

\* Who starts the loop over a split's claims, and with which split
\* (CreateSplit, DeleteLower).
LEMMA LoopEffect ==
  ASSUME TypeInv, NamesKeptApart, SplitsFiled, [Next]_vars, NEW c \in Calls,
         call'[c].at \in ClaimSteps
  PROVE  /\ call'[c].volume = call[c].volume
         /\ \/ call[c].at \in ClaimSteps /\ call'[c].split = call[c].split
            \/ call'[c].split.volume = call[c].volume
<1>1. CASE call'[c] = call[c]
  BY <1>1
<1>2. CASE CallStep(c)
  <2> USE DEF Steps, Codes, ClaimSteps, SameRequest, SameLoop
  <2>1. call[c] \in Call /\ Formed(call[c])
    BY DEF TypeInv, TypeOK, CallsFormed
  <2>2. CASE CreateGet(c) \/ CreateGetAgain(c)
    <3>1. splits[lookedUpUnder(call[c].volume)] = NoSplit
      BY <2>1, <2>2, NothingLookedUp DEF CreateGet, CreateGetAgain, Formed
    <3> QED
      BY <2>2, <3>1, HelperEffects DEF CreateGet, CreateGetAgain
  <2>3. CASE doCreateSplit(c)
    <3> DEFINE new == [volume |-> call[c].volume, spec |-> call[c].spec]
    <3>1. new \in Splits
      BY <2>1, <2>3 DEF doCreateSplit, Formed, CreateSteps, Splits
    <3>2. GotoWith(c, "lookupClaim", new) \/ Goto(c, "getAgain") \/ FailWith(c, "Internal")
      BY <2>3 DEF doCreateSplit
    <3>3. CASE GotoWith(c, "lookupClaim", new)
      <4>1. call'[c].split = new /\ SameRequest(c)
        BY <3>1, <3>3, HelperEffects
      <4> QED
        BY <4>1
    <3>4. CASE Goto(c, "getAgain") \/ FailWith(c, "Internal")
      BY <3>4, HelperEffects
    <3> QED
      BY <3>2, <3>3, <3>4
  <2>4. CASE LookupClaim(c)
    BY <2>4, HelperEffects DEF LookupClaim, NextBranch
  <2>5. CASE CreateClaim(c)
    <3>1. \/ NextBranch(c, "lookupClaim", Reply(c, "OK"))
          \/ Reply(c, "Internal") \/ FailWith(c, "Internal")
      BY <2>5 DEF CreateClaim
    <3> QED
      BY <2>5, <3>1, HelperEffects DEF CreateClaim, NextBranch
  <2>6. CASE DeleteGet(c)
    <3>1. SplitOf(call[c].volume) # NoSplit
          => SplitOf(call[c].volume) \in Splits
             /\ SplitOf(call[c].volume).volume = call[c].volume
      BY <2>1, <2>6, SplitOfOwn DEF DeleteGet, Formed
    <3> QED
      BY <2>6, <3>1, HelperEffects DEF DeleteGet, SplitOf
  <2>7. CASE DeleteClaim(c)
    BY <2>7, HelperEffects DEF DeleteClaim, NextBranch
  <2>8. CASE DeleteSplit(c)
    BY <2>8, HelperEffects DEF DeleteSplit
  <2>9. CASE Return(c)
    <3>1. Idle.at = "idle"
      BY DEF Idle
    <3> QED
      BY <2>9, <3>1, HelperEffects DEF Return
  <2> QED
    BY <1>2, <2>2, <2>3, <2>4, <2>5, <2>6, <2>7, <2>8, <2>9 DEF CallStep
<1>3. CASE \/ \E v \in Volumes, s \in Specs : StartCreate(c, v, s)
           \/ \E v \in Volumes : StartDelete(c, v)
  <2>1. \E v, s : \/ Becomes(c, [Idle EXCEPT !.at = "get", !.volume = v, !.spec = s])
                  \/ Becomes(c, [Idle EXCEPT !.at = "deleteGet", !.volume = v])
    BY <1>3 DEF StartCreate, StartDelete
  <2>2. call'[c].at \in {"get", "deleteGet"}
    BY <2>1 DEF Becomes, Idle, TypeInv, TypeOK
  <2> QED
    BY <2>2 DEF ClaimSteps
<1>4. CASE Crash
  BY <1>4 DEF Crash, Idle, ClaimSteps
<1> QED
  BY <1>1, <1>2, <1>3, <1>4, WhoMoves

\* The loops run over the claims of the volume's own split.
LEMMA CallsOwnSplitNext ==
  ASSUME TypeInv, NamesKeptApart, SplitsFiled, CallsOwnSplit, [Next]_vars
  PROVE  CallsOwnSplit'
  BY LoopEffect DEF CallsOwnSplit

\* Only calls for names that are given up delete (StartDelete).
LEMMA DeletesRetireNext ==
  ASSUME TypeInv, Reused = {}, DeletesRetire, [Next]_vars
  PROVE  DeletesRetire'
<1> SUFFICES ASSUME NEW c \in Calls, call'[c].at \in DeleteSteps
             PROVE  call'[c].volume \in retired'
  BY DEF DeletesRetire
<1>1. retired \subseteq retired'
  BY RetiredStays
<1>2. CASE call'[c] = call[c]
  BY <1>1, <1>2 DEF DeletesRetire
<1>3. CASE CallStep(c)
  <2> USE DEF Steps, Codes, DeleteSteps, SameRequest, SameLoop
  <2>1. call[c] \in Call /\ Formed(call[c])
    BY DEF TypeInv, TypeOK, CallsFormed
  <2>2. CASE CreateGet(c) \/ CreateGetAgain(c)
    <3>1. splits[lookedUpUnder(call[c].volume)] \in Splits \cup {NoSplit}
      BY <2>1, <2>2, KeysInDomain DEF CreateGet, CreateGetAgain, Formed, TypeInv, TypeOK
    <3> QED
      BY <2>2, <3>1, HelperEffects DEF CreateGet, CreateGetAgain, Adopt
  <2>3. CASE doCreateSplit(c)
    <3> DEFINE new == [volume |-> call[c].volume, spec |-> call[c].spec]
    <3>1. new \in Splits
      BY <2>1, <2>3 DEF doCreateSplit, Formed, CreateSteps, Splits
    <3>2. GotoWith(c, "lookupClaim", new) \/ Goto(c, "getAgain") \/ FailWith(c, "Internal")
      BY <2>3 DEF doCreateSplit
    <3> QED
      BY <3>1, <3>2, HelperEffects
  <2>4. CASE LookupClaim(c)
    BY <2>4, HelperEffects DEF LookupClaim, NextBranch
  <2>5. CASE CreateClaim(c)
    <3>1. \/ NextBranch(c, "lookupClaim", Reply(c, "OK"))
          \/ Reply(c, "Internal") \/ FailWith(c, "Internal")
      BY <2>5 DEF CreateClaim
    <3> QED
      BY <3>1, HelperEffects DEF NextBranch
  <2>6. CASE DeleteGet(c) \/ DeleteClaim(c) \/ DeleteSplit(c)
    <3>1. call[c].volume \in retired
      BY <2>6 DEF DeleteGet, DeleteClaim, DeleteSplit, DeletesRetire
    <3>2. CASE DeleteGet(c)
      <4>1. splits[storedUnder(call[c].volume)] \in Splits \cup {NoSplit}
        BY <2>1, <3>2, KeysInDomain DEF DeleteGet, Formed, TypeInv, TypeOK
      <4> QED
        BY <1>1, <3>1, <3>2, <4>1, HelperEffects DEF DeleteGet
    <3>3. CASE DeleteClaim(c)
      BY <1>1, <3>1, <3>3, HelperEffects DEF DeleteClaim, NextBranch
    <3>4. CASE DeleteSplit(c)
      BY <3>4, HelperEffects DEF DeleteSplit
    <3> QED
      BY <2>6, <3>2, <3>3, <3>4
  <2>7. CASE Return(c)
    <3>1. Idle.at = "idle"
      BY DEF Idle
    <3> QED
      BY <2>7, <3>1, HelperEffects DEF Return
  <2> QED
    BY <1>3, <2>2, <2>3, <2>4, <2>5, <2>6, <2>7 DEF CallStep
<1>4. ASSUME NEW v \in Volumes, NEW s \in Specs, StartCreate(c, v, s) PROVE FALSE
  <2>1. call'[c].at = "get"
    BY <1>4 DEF StartCreate, Becomes, Idle, TypeInv, TypeOK
  <2> QED
    BY <2>1 DEF DeleteSteps
<1>5. ASSUME NEW v \in Volumes, StartDelete(c, v) PROVE call'[c].volume \in retired'
  BY <1>5 DEF StartDelete, Becomes, Idle, TypeInv, TypeOK
<1>6. CASE Crash
  BY <1>6 DEF Crash, Idle, DeleteSteps
<1> QED
  BY <1>2, <1>3, <1>4, <1>5, <1>6, WhoMoves

\* The claims of a volume that was not given up are those its split asks for
\* (createLowerClaimFromSplit).
LEMMA KeptClaimsFitNext ==
  ASSUME BackedInv, BackedHypotheses, [Next]_vars
  PROVE  KeptClaimsFit'
<1> USE DEF BackedInv
<1>1. TypeInv /\ Grows /\ retired \subseteq retired'
  BY KeptGrows, RetiredStays DEF TypeInv, BackedHypotheses
<1> SUFFICES ASSUME NEW key \in ClaimKeys, claims'[key] # NoClaim, key[2] \notin retired'
             PROVE  LET split == splits'[storedUnder(key[2])] IN
                    /\ ~ claims'[key].deleting
                    /\ split # NoSplit
                    /\ split.spec.ns = key[1]
                    /\ claims'[key].size = splitQuantity(split.spec.size)
  BY DEF KeptClaimsFit, SplitOf, storedUnder, makeSplitName, splitQuantity
<1>2. key[2] \in Volumes /\ key[2] \notin retired
  BY <1>1, KeysInDomain
<1>3. CASE claims[key] # NoClaim
  BY <1>1, <1>2, <1>3 DEF Grows, SplitOf, KeptClaimsFit
<1>4. CASE claims[key] = NoClaim
  <2>1. PICK c \in Calls :
          /\ CreateClaim(c)
          /\ key = ClaimOf(c)
          /\ claims'[key] = [size |-> splitQuantity(call[c].split.spec.size), deleting |-> FALSE]
    BY <1>1, <1>4, ClaimsEffect
  <2>2. call[c].at = "createClaim"
    BY <2>1 DEF CreateClaim
  <2>3. /\ call[c].split \in Splits /\ call[c].i \in Branches
        /\ call[c].split.volume = call[c].volume
    BY <2>2 DEF TypeOK, Call, CallsFormed, Formed, ClaimSteps, CallsOwnSplit
  <2>4. key[2] = call[c].volume /\ key[1] = call[c].split.spec.ns
    BY <2>1, <2>3, KeysInDomain DEF ClaimOf
  <2>5. call[c].split = splits'[storedUnder(key[2])]
    BY <2>2, <2>4, SeenStays DEF BackedHypotheses
  <2>6. ~ claims'[key].deleting /\ claims'[key].size = splitQuantity(call[c].split.spec.size)
    BY <2>1
  <2> QED
    BY <2>3, <2>4, <2>5, <2>6, NullsAssumption
<1> QED
  BY <1>3, <1>4

\* The informer shows no claim of such a volume that does not exist.
LEMMA KeptClaimsExistNext ==
  ASSUME BackedInv, BackedHypotheses, [Next]_vars
  PROVE  KeptClaimsExist'
<1> USE DEF BackedInv
<1>1. TypeInv /\ Grows /\ retired \subseteq retired'
  BY KeptGrows, RetiredStays DEF TypeInv, BackedHypotheses
<1> DEFINE Announced(key) == \/ key \in claimCache
                             \/ \E j \in 1 .. Len(claimEvents) : claimEvents[j].key = key
<1> SUFFICES ASSUME NEW key \in ClaimKeys, Announced(key)', key[2] \notin retired'
             PROVE  claims'[key] # NoClaim
  BY DEF KeptClaimsExist
<1>2. key[2] \in Volumes /\ key[2] \notin retired
  BY <1>1, KeysInDomain
<1>3. CASE Announced(key)
  BY <1>1, <1>2, <1>3 DEF Grows, KeptClaimsExist
<1>4. CASE UNCHANGED informer
  BY <1>3, <1>4 DEF informer
<1>5. ASSUME NEW k \in ClaimKeys, NEW present \in BOOLEAN, Notify(k, present), key # k
      PROVE  Announced(key)
  <2> DEFINE event == [key |-> k, present |-> present]
  <2>1. claimEvents' = Append(claimEvents, event) /\ claimCache' = claimCache
    BY <1>5 DEF Notify
  <2>2. event \in Event /\ event.key = k /\ claimEvents \in Seq(Event)
    BY <1>5 DEF Event, TypeOK
  <2>3. /\ Len(claimEvents') = Len(claimEvents) + 1
        /\ \A j \in 1 .. Len(claimEvents) : claimEvents'[j] = claimEvents[j]
        /\ claimEvents'[Len(claimEvents) + 1] = event
    BY <2>1, <2>2, AppendProperties
  <2>4. ASSUME NEW j \in 1 .. Len(claimEvents'), claimEvents'[j].key = key
        PROVE  j \in 1 .. Len(claimEvents) /\ claimEvents[j].key = key
    BY <1>5, <2>2, <2>3, <2>4
  <2> QED
    BY <2>1, <2>4
<1>6. ASSUME NEW c \in Calls, CreateClaim(c)
      PROVE  claims'[key] # NoClaim
  <2>1. call[c].split \in Splits /\ ClaimOf(c) \in ClaimKeys
    BY <1>6, KeysInDomain
    DEF CreateClaim, ClaimOf, TypeOK, Call, CallsFormed, Formed, ClaimSteps
  <2>2. [size |-> splitQuantity(call[c].split.spec.size), deleting |-> FALSE] \in Claims
    <3>1. call[c].split.spec.size \in Nat
      BY <2>1, ConstantsAssumption DEF Splits, SpecsAssumption
    <3> QED
      BY <3>1 DEF Claims, splitQuantity
  <2>3. \/ /\ claims' = [claims EXCEPT ![ClaimOf(c)] =
                          [size |-> splitQuantity(call[c].split.spec.size), deleting |-> FALSE]]
           /\ Notify(ClaimOf(c), TRUE)
        \/ UNCHANGED informer
    BY <1>6 DEF CreateClaim, informer
  <2> QED
    BY <1>3, <1>4, <1>5, <2>1, <2>2, <2>3, NullsAssumption DEF TypeOK
<1>7. ASSUME NEW k \in ClaimKeys, FinalizeClaim(k)
      PROVE  claims'[key] # NoClaim
  <2>1. k[2] \in retired
    BY <1>7 DEF FinalizeClaim, KeptClaimsFit
  <2>2. Notify(k, FALSE)
    BY <1>7 DEF FinalizeClaim
  <2> QED
    BY <1>2, <1>3, <1>5, <2>1, <2>2
<1>8. CASE Deliver
  <2>1. claimEvents \in Seq(Event) /\ claimEvents # << >>
    BY <1>8 DEF Deliver, TypeOK
  <2>2. \A j \in 1 .. Len(Tail(claimEvents)) :
          Tail(claimEvents)[j] = claimEvents[j + 1] /\ j + 1 \in 1 .. Len(claimEvents)
    BY <2>1, HeadTailProperties
  <2>3. Head(claimEvents) = claimEvents[1] /\ 1 \in 1 .. Len(claimEvents)
    BY <2>1
  <2> QED
    BY <1>3, <1>8, <2>2, <2>3 DEF Deliver
<1>9. CASE Crash
  <2>1. claimCache' = {k \in ClaimKeys : claims[k] # NoClaim} /\ claimEvents' = << >>
        /\ claims' = claims
    BY <1>9 DEF Crash, server
  <2> QED
    BY <2>1
<1>10. \/ UNCHANGED informer
       \/ \E c \in Calls : CreateClaim(c)
       \/ \E k \in ClaimKeys : FinalizeClaim(k)
       \/ Deliver
       \/ Crash
  BY DEF Next, CallStep, StartCreate, StartDelete, CreateGet, doCreateSplit, CreateGetAgain,
         LookupClaim, DeleteGet, DeleteClaim, DeleteSplit, Return, vars
<1> QED
  BY <1>4, <1>6, <1>7, <1>8, <1>9, <1>10

\* CreateVolume is acknowledged for names that are not given up (Return).
LEMMA AckedKeptNext ==
  ASSUME TypeInv, Reused = {}, AckedKept, [Next]_vars
  PROVE  AckedKept'
<1>1. CASE UNCHANGED <<acked, retired>>
  BY <1>1 DEF AckedKept
<1>2. ASSUME NEW c \in Calls, NEW v \in Volumes, NEW s \in Specs, StartCreate(c, v, s)
      PROVE  AckedKept'
  BY <1>2 DEF StartCreate, AckedKept
<1>3. ASSUME NEW c \in Calls, NEW v \in Volumes, StartDelete(c, v)
      PROVE  AckedKept'
  BY <1>3 DEF StartDelete, AckedKept
<1>4. ASSUME NEW c \in Calls, Return(c)
      PROVE  AckedKept'
  BY <1>4 DEF Return, AckedKept
<1> QED
  BY <1>1, <1>2, <1>3, <1>4
  DEF Next, CallStep, CreateGet, doCreateSplit, CreateGetAgain, LookupClaim, CreateClaim,
      DeleteGet, DeleteClaim, DeleteSplit, FinalizeClaim, Deliver, Crash, vars, orchestrator

\* An acknowledged volume stays backed, and a new acknowledgement is for a
\* volume whose CreateVolume has seen both of its claims.
LEMMA AckedVolumeBackedNext ==
  ASSUME BackedInv, BackedHypotheses, [Next]_vars, AckedKept', KeptClaimsFit', TypeInv'
  PROVE  AckedVolumeBacked'
<1> USE DEF BackedInv
<1>1. TypeInv /\ Grows /\ retired \subseteq retired'
  BY KeptGrows, RetiredStays DEF TypeInv, BackedHypotheses
<1> DEFINE Suits(split, s) ==
             /\ split \in Splits
             /\ isSplitSpecCompatible(split.spec, s)
             /\ claims'[makeClaimKey(split, 0)] # NoClaim
             /\ claims'[makeClaimKey(split, 1)] # NoClaim
<1>2. ASSUME NEW v \in Volumes, NEW s \in Specs, v \notin retired',
             Suits(splits'[storedUnder(v)], s), splits'[storedUnder(v)].volume = v
      PROVE  Backed(v, s)'
  <2> DEFINE split == splits'[storedUnder(v)]
  <2>1. ASSUME NEW i \in Branches
        PROVE  LET key == makeClaimKey(split, i) IN
               /\ claims'[key] # NoClaim
               /\ ~ claims'[key].deleting
               /\ claims'[key].size = splitQuantity(split.spec.size)
    <3>1. makeClaimKey(split, i) \in ClaimKeys /\ makeClaimKey(split, i)[2] = v
      BY <1>2, KeysInDomain
    <3>2. claims'[makeClaimKey(split, i)] # NoClaim
      BY <1>2 DEF Branches
    <3> QED
      BY <1>2, <3>1, <3>2
      DEF KeptClaimsFit, SplitOf, splitQuantity, storedUnder, makeSplitName
  <2>2. split # NoSplit /\ isSplitSpecCompatible(split.spec, s)
    BY <1>2, NullsAssumption
  <2> QED
    BY <1>2, <2>1, <2>2
    DEF Backed, Live, SplitOf, isSplitSpecCompatible, makeClaimKey, splitQuantity,
        storedUnder, makeSplitName
<1>3. ASSUME NEW v \in Volumes, NEW s \in Specs, <<v, s>> \in acked, v \notin retired'
      PROVE  Backed(v, s)'
  <2>1. Backed(v, s)
    BY <1>3 DEF AckedVolumeBacked
  <2>2. SplitOf(v) \in Splits /\ splits'[storedUnder(v)] = SplitOf(v) /\ SplitOf(v).volume = v
    BY <1>1, <1>3, <2>1, SplitOfOwn DEF Backed, Grows, SplitOf
  <2>3. ASSUME NEW i \in Branches
        PROVE  claims'[makeClaimKey(SplitOf(v), i)] # NoClaim
    BY <1>1, <1>3, <2>1, <2>2, KeysInDomain DEF Backed, Live, Grows
  <2> QED
    BY <1>2, <1>3, <2>1, <2>2, <2>3 DEF Backed, Branches
<1>4. ASSUME NEW c \in Calls, Return(c), call[c].code = "OK", NEW v \in Volumes,
             NEW s \in Specs, v = call[c].volume, s = call[c].spec, v \notin retired
      PROVE  Backed(v, s)'
  <2>1. call[c].at = "replied" /\ v \notin retired'
    BY <1>4 DEF Return
  <2>2. Suits(splits'[storedUnder(v)], s) /\ splits'[storedUnder(v)].volume = v
    BY <1>4, <2>1, SeenStays DEF BackedHypotheses
  <2> QED
    BY <1>2, <2>1, <2>2
<1>5. SUFFICES ASSUME NEW v \in Volumes, NEW s \in Specs, <<v, s>> \in acked'
               PROVE  Backed(v, s)'
  <2>1. \A a \in acked' : a[1] \in Volumes /\ a[2] \in Specs /\ a = <<a[1], a[2]>>
    BY DEF TypeInv, TypeOK
  <2> QED
    BY <2>1 DEF AckedVolumeBacked
<1>6. v \notin retired'
  BY <1>5 DEF AckedKept
<1>7. CASE <<v, s>> \in acked
  BY <1>3, <1>6, <1>7
<1>8. CASE <<v, s>> \notin acked
  <2>1. PICK c \in Calls : Return(c)
    BY <1>5, <1>8
    DEF Next, CallStep, StartCreate, StartDelete, CreateGet, doCreateSplit, CreateGetAgain,
        LookupClaim, CreateClaim, DeleteGet, DeleteClaim, DeleteSplit, FinalizeClaim, Deliver,
        Crash, vars, orchestrator
  <2>2. /\ call[c].code = "OK" /\ v = call[c].volume /\ s = call[c].spec
        /\ v \notin retired
    BY <1>5, <1>8, <2>1 DEF Return
  <2> QED
    BY <1>4, <2>1, <2>2
<1> QED
  BY <1>7, <1>8

\* The inductive invariant holds before anything is asked for (Init).
LEMMA BackedInvInit == Init => BackedInv
<1> SUFFICES ASSUME Init PROVE BackedInv
  OBVIOUS
<1>1. TypeInv
  BY TypeInvInit
<1>2. \A c \in Calls : call[c].at = "idle"
  BY DEF Init, Idle
<1> QED
  BY <1>1, <1>2
  DEF BackedInv, TypeInv, Init, SplitsFiled, KeptClaimsFit, KeptClaimsExist,
      KeptCreatesProgress, CreateProgress, CallsOwnSplit, DeletesRetire, AckedKept,
      AckedVolumeBacked, ClaimSteps, DeleteSteps

\* Every step keeps it, each part by the lemma of its name (all handlers).
LEMMA BackedInvNext ==
  ASSUME BackedHypotheses
  PROVE  BackedInv /\ [Next]_vars => BackedInv'
<1> SUFFICES ASSUME BackedInv, [Next]_vars
             PROVE  BackedInv'
  OBVIOUS
<1>1. TypeInv /\ TypeInv'
  BY TypeInvNext DEF BackedInv, TypeInv
<1>2. SplitsFiled' /\ CallsOwnSplit' /\ DeletesRetire' /\ AckedKept'
  BY <1>1, SplitsFiledNext, CallsOwnSplitNext, DeletesRetireNext, AckedKeptNext
  DEF BackedInv, BackedHypotheses
<1>3. KeptClaimsFit' /\ KeptClaimsExist' /\ KeptCreatesProgress'
  BY KeptClaimsFitNext, KeptClaimsExistNext, KeptCreatesProgressNext
<1>4. AckedVolumeBacked'
  BY <1>1, <1>2, <1>3, AckedVolumeBackedNext
<1> QED
  BY <1>1, <1>2, <1>3, <1>4 DEF BackedInv, TypeInv

\* A volume that CreateVolume was answered OK for has its split and both lower
\* claims until DeleteVolume is called, however many calls overlap, whatever
\* fails and whenever the controller restarts: provided a name is not used
\* again after it was deleted, and no volume is called like another's split.
THEOREM AckedVolumesAreBacked ==
  ASSUME Reused = {}, NamesKeptApart
  PROVE  Spec => []AckedVolumeBacked
<1>1. BackedHypotheses
  BY DEF BackedHypotheses
<1>2. BackedInv /\ [Next]_vars => BackedInv'
  BY <1>1, BackedInvNext
<1>3. BackedInv => AckedVolumeBacked
  BY DEF BackedInv
<1> QED
  BY <1>2, <1>3, BackedInvInit, PTL DEF Spec

-----------------------------------------------------------------------------
(***************************************************************************)
(* ClaimsHaveSplit and DeletedMeansGone.  With one call in flight for a    *)
(* volume, what a call has found and done nobody changes before its next   *)
(* step, whether or not names are used again.                              *)
(***************************************************************************)

SerialHypotheses == SerialCalls /\ NamesKeptApart

\* The requests that change what exists of a volume.
Working(c) == doCreateSplit(c) \/ CreateClaim(c) \/ DeleteClaim(c) \/ DeleteSplit(c)

\* The split is the same, and no claim has come to life.
Untouched(v) ==
  /\ SplitOf(v)' = SplitOf(v)
  /\ \A key \in ClaimKeys : key[2] = v /\ Live(key)' => Live(key)

\* A request of CreateVolume carries a spec, one of DeleteVolume does not
\* (validateVolumeCapabilities: a spec has access modes).
LEMMA SpecsAreNotEmpty == EmptySpec \notin Specs
BY ConstantsAssumption DEF ModesAssumption, EmptySpec

\* An idle call is about no volume there is (makeSplitName).
LEMMA NoNameNoVolume == NoName \notin Volumes
BY ConstantsAssumption DEF VolumesAssumption, NoName

\* A step that is not a request for v leaves v as it is (storedUnder,
\* makeClaimKey): the claims a call works on are those of its own volume.
LEMMA ElsewhereUntouched ==
  ASSUME TypeInv, CallsOwnSplit, [Next]_vars, NEW v \in Volumes,
         \A c \in Calls : Working(c) => call[c].volume # v
  PROVE  Untouched(v)
<1>1. SplitOf(v)' = SplitOf(v)
  <2> SUFFICES ASSUME splits'[storedUnder(v)] # splits[storedUnder(v)] PROVE FALSE
    BY DEF SplitOf
  <2>1. PICK c \in Calls : /\ storedUnder(v) = storedUnder(call[c].volume)
                           /\ doCreateSplit(c) \/ DeleteSplit(c)
    BY KeysInDomain, SplitsEffect
  <2>2. call[c].volume \in Volumes
    BY <2>1 DEF doCreateSplit, DeleteSplit, TypeInv, CallsFormed, Formed
  <2> QED
    BY <2>1, <2>2, StoredUnderInjective DEF Working
<1>2. ASSUME NEW key \in ClaimKeys, key[2] = v, Live(key)' PROVE Live(key)
  <2> SUFFICES ASSUME ~ Live(key) PROVE FALSE
    OBVIOUS
  <2>1. claims'[key] # claims[key] /\ claims'[key] # NoClaim /\ ~ claims'[key].deleting
    BY <1>2 DEF Live
  <2>2. PICK c \in Calls : (CreateClaim(c) \/ DeleteClaim(c)) /\ key = ClaimOf(c)
    BY <2>1, ClaimsEffect
  <2>3. call[c].at \in ClaimSteps
    BY <2>2 DEF CreateClaim, DeleteClaim, ClaimSteps
  <2>4. call[c].split.volume = call[c].volume
    BY <2>3 DEF CallsOwnSplit
  <2> QED
    BY <1>2, <2>2, <2>4 DEF ClaimOf, makeClaimKey, Working
<1> QED
  BY <1>1, <1>2 DEF Untouched

\* A claim comes to life by CreateClaim, as its split says.
LEMMA ComesToLife ==
  ASSUME TypeInv, [Next]_vars, NEW key \in ClaimKeys, ~ Live(key), Live(key)'
  PROVE  \E c \in Calls : CreateClaim(c) /\ key = ClaimOf(c)
<1>1. claims'[key] # claims[key] /\ claims'[key] # NoClaim /\ ~ claims'[key].deleting
  BY DEF Live
<1>2. ASSUME claims[key] # NoClaim, claims'[key] = [claims[key] EXCEPT !.deleting = TRUE]
      PROVE  FALSE
  <2>1. claims[key] \in Claims
    BY <1>2 DEF TypeInv, TypeOK
  <2> QED
    BY <1>1, <1>2, <2>1 DEF Claims
<1> QED
  BY <1>1, <1>2, ClaimsEffect

\* A volume that is gone, and not being created, stays gone.
LEMMA GoneStays ==
  ASSUME TypeInv, CallsOwnSplit, [Next]_vars, NEW v \in Volumes,
         SplitOf(v) = NoSplit, NoneLive(v),
         \A c \in Calls : doCreateSplit(c) \/ CreateClaim(c) => call[c].volume # v
  PROVE  SplitOf(v)' = NoSplit /\ NoneLive(v)'
<1>1. SplitOf(v)' = NoSplit
  <2> SUFFICES ASSUME splits'[storedUnder(v)] # splits[storedUnder(v)],
                      splits'[storedUnder(v)] # NoSplit
               PROVE  FALSE
    BY DEF SplitOf
  <2>1. PICK c \in Calls : storedUnder(v) = storedUnder(call[c].volume) /\ doCreateSplit(c)
    BY KeysInDomain, SplitsEffect
  <2>2. call[c].volume \in Volumes
    BY <2>1 DEF doCreateSplit, TypeInv, CallsFormed, Formed
  <2> QED
    BY <2>1, <2>2, StoredUnderInjective
<1>2. ASSUME NEW key \in ClaimKeys, key[2] = v, Live(key)' PROVE FALSE
  <2>1. PICK c \in Calls : CreateClaim(c) /\ key = ClaimOf(c)
    BY <1>2, ComesToLife DEF NoneLive
  <2>2. call[c].at \in ClaimSteps
    BY <2>1 DEF CreateClaim, ClaimSteps
  <2>3. call[c].split.volume = call[c].volume
    BY <2>2 DEF CallsOwnSplit
  <2> QED
    BY <1>2, <2>1, <2>3 DEF ClaimOf, makeClaimKey
<1> QED
  BY <1>1, <1>2 DEF NoneLive

\* Of the volumes only those of the steps that start and end a call change sides.
LEMMA OrchestratorEffect ==
  ASSUME [Next]_vars
  PROVE  \/ UNCHANGED <<retired, deleted>>
         \/ \E c \in Calls, v \in Volumes, s \in Specs :
              StartCreate(c, v, s) /\ retired' = retired \ {v} /\ deleted' = deleted \ {v}
         \/ \E c \in Calls, v \in Volumes :
              StartDelete(c, v) /\ retired' = retired \cup {v} /\ deleted' = deleted
         \/ \E c \in Calls :
              Return(c) /\ retired' = retired
              /\ \/ deleted' = deleted
                 \/ /\ call[c].code = "OK" /\ ~ IsCreate(c)
                    /\ deleted' = deleted \cup {call[c].volume}
BY DEF Next, CallStep, StartCreate, StartDelete, CreateGet, doCreateSplit, CreateGetAgain,
       LookupClaim, CreateClaim, DeleteGet, DeleteClaim, DeleteSplit, Return, FinalizeClaim,
       Deliver, Crash, vars, orchestrator

\* Until it returns a call is about one request (all handlers).
LEMMA RequestStays ==
  ASSUME TypeInv, SplitsFiled, NamesKeptApart, NEW c \in Calls, CallStep(c)
  PROVE  call[c].at # "idle" /\ (call'[c] = Idle \/ SameRequest(c))
<1> USE DEF Steps, Codes
<1>1. call[c].at # "idle"
  BY DEF CallStep, CreateGet, doCreateSplit, CreateGetAgain, LookupClaim, CreateClaim,
         DeleteGet, DeleteClaim, DeleteSplit, Return
<1>2. call[c] \in Call /\ Formed(call[c])
  BY DEF TypeInv, TypeOK, CallsFormed
<1>3. call[c].volume \in Volumes
  BY <1>1, <1>2 DEF Formed
<1>4. CASE CreateGet(c) \/ CreateGetAgain(c)
  <2>1. splits[lookedUpUnder(call[c].volume)] = NoSplit
    BY <1>3, NothingLookedUp
  <2> QED
    BY <1>4, <2>1, HelperEffects DEF CreateGet, CreateGetAgain
<1>5. CASE doCreateSplit(c)
  <2> DEFINE new == [volume |-> call[c].volume, spec |-> call[c].spec]
  <2>1. new \in Splits
    BY <1>2, <1>5 DEF doCreateSplit, Formed, CreateSteps, Splits
  <2>2. GotoWith(c, "lookupClaim", new) \/ Goto(c, "getAgain") \/ FailWith(c, "Internal")
    BY <1>5 DEF doCreateSplit
  <2>3. CASE GotoWith(c, "lookupClaim", new)
    BY <1>1, <2>1, <2>3, HelperEffects
  <2>4. CASE Goto(c, "getAgain")
    BY <1>1, <2>4, HelperEffects
  <2>5. CASE FailWith(c, "Internal")
    BY <1>1, <2>5, HelperEffects
  <2> QED
    BY <2>2, <2>3, <2>4, <2>5
<1>6. CASE LookupClaim(c)
  BY <1>6, HelperEffects DEF LookupClaim, NextBranch
<1>7. CASE CreateClaim(c)
  <2>1. \/ NextBranch(c, "lookupClaim", Reply(c, "OK"))
        \/ Reply(c, "Internal") \/ FailWith(c, "Internal")
    BY <1>7 DEF CreateClaim
  <2>2. CASE NextBranch(c, "lookupClaim", Reply(c, "OK"))
    BY <1>1, <2>2, HelperEffects DEF NextBranch
  <2>3. CASE Reply(c, "Internal") \/ FailWith(c, "Internal")
    BY <1>1, <2>3, HelperEffects
  <2> QED
    BY <2>1, <2>2, <2>3
<1>8. CASE DeleteGet(c)
  <2>1. splits[storedUnder(call[c].volume)] \in Splits \cup {NoSplit}
    BY <1>3, KeysInDomain DEF TypeInv, TypeOK
  <2> QED
    BY <1>8, <2>1, HelperEffects DEF DeleteGet
<1>9. CASE DeleteClaim(c)
  BY <1>9, HelperEffects DEF DeleteClaim, NextBranch
<1>10. CASE DeleteSplit(c)
  BY <1>10, HelperEffects DEF DeleteSplit
<1>11. CASE Return(c)
  BY <1>11, HelperEffects DEF Return
<1> QED
  BY <1>1, <1>4, <1>5, <1>6, <1>7, <1>8, <1>9, <1>10, <1>11 DEF CallStep

\* What the start of a call makes of it (StartCreate, StartDelete).
LEMMA StartEffect ==
  ASSUME TypeInv, NEW c \in Calls, NEW v \in Volumes
  PROVE  /\ \A s \in Specs : StartCreate(c, v, s)
              => /\ call'[c].at = "get" /\ call'[c].volume = v /\ call'[c].spec = s
                 /\ call' = [call EXCEPT ![c] = call'[c]]
         /\ StartDelete(c, v)
              => /\ call'[c].at = "deleteGet" /\ call'[c].volume = v /\ call'[c].spec = EmptySpec
                 /\ call' = [call EXCEPT ![c] = call'[c]]
<1>1. call \in [Calls -> Call]
  BY DEF TypeInv, TypeOK
<1>2. ASSUME NEW s \in Specs, StartCreate(c, v, s)
      PROVE  /\ call'[c].at = "get" /\ call'[c].volume = v /\ call'[c].spec = s
             /\ call' = [call EXCEPT ![c] = call'[c]]
  BY <1>1, <1>2 DEF StartCreate, Becomes, Idle
<1>3. ASSUME StartDelete(c, v)
      PROVE  /\ call'[c].at = "deleteGet" /\ call'[c].volume = v /\ call'[c].spec = EmptySpec
             /\ call' = [call EXCEPT ![c] = call'[c]]
  BY <1>1, <1>3 DEF StartDelete, Becomes, Idle
<1> QED
  BY <1>2, <1>3

\* A volume has one call in flight, if the CO sees to it (MayStart).
LEMMA OneCallNext ==
  ASSUME SerialInv, SerialHypotheses, [Next]_vars
  PROVE  OneCall'
<1> USE DEF SerialInv, SerialHypotheses
<1>1. TypeInv
  BY DEF TypeInv
<1>2. \A c \in Calls : call[c].at # "idle" => call[c].volume \in Volumes
  BY DEF CallsFormed, Formed
<1> SUFFICES ASSUME NEW c \in Calls, NEW d \in Calls, call'[c].volume = call'[d].volume,
                    call'[c].at # "idle", c # d
             PROVE  FALSE
  BY DEF OneCall
<1>3. Idle.at = "idle" /\ Idle.volume = NoName
  BY DEF Idle
<1>4. CASE UNCHANGED call
  BY <1>4 DEF OneCall
<1>5. ASSUME NEW e \in Calls, CallStep(e) PROVE FALSE
  <2>1. \A f \in Calls \ {e} : call'[f] = call[f]
    BY <1>1, <1>5, OthersStay
  <2>2. call[e].at # "idle" /\ (call'[e] = Idle \/ call'[e].volume = call[e].volume)
    BY <1>1, <1>5, RequestStays DEF SameRequest
  <2>3. CASE call'[e].volume = call[e].volume
    <3>1. call'[c].volume = call[c].volume /\ call'[d].volume = call[d].volume
      BY <2>1, <2>3
    <3> QED
      BY <2>1, <2>2, <3>1 DEF OneCall
  <2>4. CASE call'[e] = Idle
    <3>1. c # e /\ call[c].volume \in Volumes /\ call'[c].volume = call[c].volume
      BY <1>2, <1>3, <2>1, <2>4
    <3> QED
      BY <1>3, <2>1, <2>4, <3>1, NoNameNoVolume DEF OneCall
  <2> QED
    BY <2>2, <2>3, <2>4
<1>6. ASSUME NEW e \in Calls, NEW v \in Volumes, MayStart(e, v), call'[e].volume = v,
             call' = [call EXCEPT ![e] = call'[e]]
      PROVE  FALSE
  <2>1. \A f \in Calls : call[f].volume # v
    BY <1>6 DEF MayStart
  <2>2. \A f \in Calls \ {e} : call'[f] = call[f]
    BY <1>6 DEF TypeOK
  <2> QED
    BY <1>6, <2>1, <2>2 DEF OneCall
<1>7. ASSUME NEW e \in Calls, NEW v \in Volumes, NEW s \in Specs, StartCreate(e, v, s) PROVE FALSE
  BY <1>1, <1>6, <1>7, StartEffect DEF StartCreate
<1>8. ASSUME NEW e \in Calls, NEW v \in Volumes, StartDelete(e, v) PROVE FALSE
  BY <1>1, <1>6, <1>8, StartEffect DEF StartDelete
<1>9. CASE Crash
  BY <1>3, <1>9 DEF Crash
<1> QED
  BY <1>4, <1>5, <1>7, <1>8, <1>9 DEF Next, FinalizeClaim, Deliver, vars

\* A live claim has its split: CreateClaim works on a split that is still there,
\* DeleteSplit on a volume without a live claim.
LEMMA ClaimsHaveSplitNext ==
  ASSUME SerialInv, [Next]_vars
  PROVE  ClaimsHaveSplit'
<1> USE DEF SerialInv
<1>1. TypeInv
  BY DEF TypeInv
<1> SUFFICES ASSUME NEW key \in ClaimKeys, Live(key)'
             PROVE  SplitOf(key[2])' # NoSplit /\ (SplitOf(key[2]).spec.ns)' = key[1]
  BY DEF ClaimsHaveSplit
<1> DEFINE v == key[2]
<1>2. v \in Volumes /\ storedUnder(v) \in SplitNames
  BY KeysInDomain
<1>3. CASE Live(key)
  <2>1. SplitOf(v) # NoSplit /\ SplitOf(v).spec.ns = key[1]
    BY <1>3 DEF ClaimsHaveSplit
  <2>2. SplitOf(v)' = SplitOf(v)
    <3> SUFFICES ASSUME splits'[storedUnder(v)] # splits[storedUnder(v)] PROVE FALSE
      BY DEF SplitOf
    <3>1. PICK c \in Calls : storedUnder(v) = storedUnder(call[c].volume) /\ DeleteSplit(c)
      BY <1>1, <1>2, <2>1, SplitsEffect DEF SplitOf
    <3>2. call[c].volume \in Volumes /\ call[c].at = "deleteSplit"
      BY <3>1 DEF DeleteSplit, CallsFormed, Formed
    <3>3. call[c].volume = v
      BY <1>2, <3>1, <3>2, StoredUnderInjective
    <3> QED
      BY <1>3, <3>2, <3>3 DEF CallsSerial, CallSerial, NoneLive
  <2> QED
    BY <2>1, <2>2
<1>4. CASE ~ Live(key)
  <2>1. PICK c \in Calls : CreateClaim(c) /\ key = ClaimOf(c)
    BY <1>1, <1>4, ComesToLife
  <2>2. call[c].at \in ClaimSteps
    BY <2>1 DEF CreateClaim, ClaimSteps
  <2>3. call[c].split \in Splits /\ call[c].split = SplitOf(call[c].volume)
        /\ call[c].split.volume = call[c].volume
    BY <2>2 DEF CallsFormed, Formed, CallsOwnSplit, CallsSerial, CallSerial
  <2>4. v = call[c].volume /\ key[1] = call[c].split.spec.ns
    BY <2>1, <2>3 DEF ClaimOf, makeClaimKey
  <2>5. SplitOf(v)' = SplitOf(v)
    BY <2>1 DEF CreateClaim, SplitOf
  <2> QED
    BY <2>3, <2>4, <2>5, NullsAssumption
<1> QED
  BY <1>3, <1>4

\* Deleted volumes stay gone, and a DeleteVolume that returns OK has seen to it.
LEMMA DeletedMeansGoneNext ==
  ASSUME SerialInv, [Next]_vars
  PROVE  DeletedMeansGone'
<1> USE DEF SerialInv
<1>1. TypeInv
  BY DEF TypeInv
<1>2. SUFFICES ASSUME NEW v \in Volumes, v \in deleted'
               PROVE  SplitOf(v)' = NoSplit /\ NoneLive(v)'
  <2>1. deleted' \subseteq Volumes
    BY <1>1, TypeInvNext DEF TypeInv, TypeOK
  <2> QED
    BY <1>2, <2>1 DEF DeletedMeansGone, NoneLive
<1>3. CASE v \in deleted
  <2>1. SplitOf(v) = NoSplit /\ NoneLive(v)
    BY <1>3 DEF DeletedMeansGone, NoneLive
  <2>2. ASSUME NEW c \in Calls, doCreateSplit(c) \/ CreateClaim(c) PROVE call[c].volume # v
    <3>1. call[c].at \in CreateSteps /\ call[c].at # "idle"
      BY <2>2 DEF doCreateSplit, CreateClaim, CreateSteps
    <3>2. IsCreate(c)
      BY <3>1, SpecsAreNotEmpty DEF CallsFormed, Formed, IsCreate
    <3>3. call[c].volume \notin retired
      BY <3>1, <3>2 DEF CallsSerial, CallSerial
    <3> QED
      BY <1>3, <3>3 DEF TypeOK
  <2> QED
    BY <1>1, <2>1, <2>2, GoneStays
<1>4. CASE v \notin deleted
  <2>1. PICK c \in Calls :
          Return(c) /\ call[c].code = "OK" /\ ~ IsCreate(c) /\ v = call[c].volume
    BY <1>2, <1>4, OrchestratorEffect
  <2>2. SplitOf(v) = NoSplit /\ NoneLive(v)
    BY <2>1 DEF Return, CallsSerial, CallSerial
  <2>3. UNCHANGED server
    BY <2>1 DEF Return
  <2> QED
    BY <2>2, <2>3 DEF server, SplitOf, NoneLive, Live
<1> QED
  BY <1>3, <1>4

\* Nobody else touches the volume of a call (MayStart, makeClaimKey).
LEMMA SerialElsewhere ==
  ASSUME SerialInv, SerialHypotheses, [Next]_vars, NEW c \in Calls, ~ CallStep(c),
         call'[c] = call[c]
  PROVE  CallSerial(c)'
<1> USE DEF SerialInv
<1> DEFINE v == call[c].volume
<1>1. TypeInv /\ CallSerial(c)
  BY DEF TypeInv, CallsSerial
<1>2. CASE call[c].at = "idle"
  BY <1>2 DEF CallSerial, ClaimSteps, DeleteSteps
<1>3. CASE call[c].at # "idle"
  <2>1. v \in Volumes
    BY <1>3 DEF CallsFormed, Formed
  <2>2. ASSUME NEW d \in Calls, Working(d) PROVE call[d].volume # v
    <3>1. d # c
      BY <2>2 DEF Working, CallStep
    <3> QED
      BY <1>3, <3>1 DEF OneCall
  <2>3. Untouched(v)
    BY <1>1, <2>1, <2>2, ElsewhereUntouched
  <2>4. v \in retired' <=> v \in retired
    BY OrchestratorEffect DEF StartCreate, StartDelete, MayStart, SerialHypotheses
  <2>5. NoneLive(v) => NoneLive(v)'
    BY <2>3 DEF NoneLive, Untouched
  <2>6. call[c].at = "deleteClaim" /\ ~ Live(makeClaimKey(call[c].split, 0))
        => ~ Live(makeClaimKey(call[c].split, 0))'
    <3> SUFFICES ASSUME call[c].at = "deleteClaim" PROVE
                   ~ Live(makeClaimKey(call[c].split, 0)) => ~ Live(makeClaimKey(call[c].split, 0))'
      OBVIOUS
    <3>1. call[c].split \in Splits /\ call[c].split.volume = v
      BY DEF CallsFormed, Formed, CallsOwnSplit, ClaimSteps
    <3>2. makeClaimKey(call[c].split, 0) \in ClaimKeys /\ makeClaimKey(call[c].split, 0)[2] = v
      BY <3>1, KeysInDomain DEF Branches
    <3>3. makeClaimKey(call'[c].split, 0) = makeClaimKey(call[c].split, 0)
      OBVIOUS
    <3> QED
      BY <2>3, <3>2, <3>3 DEF Untouched, Live, makeClaimKey
  <2>7. (IsCreate(c))' <=> IsCreate(c)
    BY DEF IsCreate
  <2> QED
    BY <1>1, <2>3, <2>4, <2>5, <2>6, <2>7 DEF CallSerial, Untouched
<1> QED
  BY <1>2, <1>3

\* After DeleteClaim a claim is not live (DeleteLower).
LEMMA DeleteClaimKills ==
  ASSUME TypeInv, NEW c \in Calls, DeleteClaim(c), call'[c].at # "replied"
  PROVE  \A key \in ClaimKeys : Live(key)' => Live(key) /\ key # ClaimOf(c)
<1> USE DEF Steps, Codes
<1>1. ~ FailWith(c, "Internal")
  BY HelperEffects
<1>2. call[c].split \in Splits /\ call[c].i \in Branches
  BY DEF DeleteClaim, TypeInv, TypeOK, Call, CallsFormed, Formed, ClaimSteps
<1>3. ClaimOf(c) \in ClaimKeys
  BY <1>2, KeysInDomain DEF ClaimOf
<1>4. claims \in [ClaimKeys -> Claims \cup {NoClaim}]
  BY DEF TypeInv, TypeOK
<1>5. CASE /\ claims[ClaimOf(c)] # NoClaim
           /\ claims' = [claims EXCEPT ![ClaimOf(c)] = [@ EXCEPT !.deleting = TRUE]]
  <2>1. claims[ClaimOf(c)] \in Claims
    BY <1>3, <1>4, <1>5
  <2>2. claims'[ClaimOf(c)].deleting
    BY <1>3, <1>4, <1>5, <2>1 DEF Claims
  <2>3. \A key \in ClaimKeys : key # ClaimOf(c) => claims'[key] = claims[key]
    BY <1>4, <1>5
  <2>4. \A key \in ClaimKeys : Live(key)' => Live(key) /\ key # ClaimOf(c)
    BY <2>2, <2>3 DEF Live
  <2> QED
    BY <2>4
<1>6. CASE claims[ClaimOf(c)] = NoClaim /\ UNCHANGED claims
  BY <1>6 DEF Live
<1> QED
  BY <1>1, <1>5, <1>6 DEF DeleteClaim

\* What a call does itself leaves it knowing its volume: it enters the loops with
\* the split as stored, and DeleteVolume takes one claim after the other away.
LEMMA SerialOwn ==
  ASSUME SerialInv, SerialHypotheses, [Next]_vars, NEW c \in Calls, CallStep(c)
  PROVE  CallSerial(c)'
<1> USE DEF SerialInv, SerialHypotheses, Steps, Codes
<1> DEFINE v == call[c].volume
<1>1. TypeInv /\ CallSerial(c) /\ call[c] \in Call /\ Formed(call[c])
  BY DEF TypeInv, CallsSerial, TypeOK, CallsFormed
<1>2. call[c].at # "idle" /\ (call'[c] = Idle \/ SameRequest(c))
  BY <1>1, RequestStays
<1>3. v \in Volumes /\ storedUnder(v) \in SplitNames
  BY <1>1, <1>2, KeysInDomain DEF Formed
<1>4. CASE call'[c] = Idle
  BY <1>4 DEF CallSerial, Idle, ClaimSteps, DeleteSteps
<1>5. CASE ~ Return(c) /\ SameRequest(c)
  <2>1. retired' = retired
    BY <1>5 DEF CallStep, CreateGet, doCreateSplit, CreateGetAgain, LookupClaim, CreateClaim,
                DeleteGet, DeleteClaim, DeleteSplit, orchestrator
  <2>2. /\ call'[c].volume = v
        /\ (IsCreate(c))' <=> IsCreate(c)
        /\ IsCreate(c) => v \notin retired
        /\ call[c].at \in CreateSteps => IsCreate(c)
    BY <1>1, <1>2, <1>5, SpecsAreNotEmpty DEF SameRequest, IsCreate, CallSerial, Formed
  <2> DEFINE split == call'[c].split
  <2>3. SUFFICES /\ call'[c].at \in ClaimSteps => split = splits'[storedUnder(v)]
                 /\ call'[c].at = "deleteClaim" /\ call'[c].i = 1
                    => \A key \in ClaimKeys : key = makeClaimKey(split, 0) => ~ Live(key)'
                 /\ call'[c].at = "deleteSplit" => NoneLive(v)'
                 /\ call'[c].at = "replied" /\ call'[c].code = "OK" /\ ~ IsCreate(c)
                    => splits'[storedUnder(v)] = NoSplit /\ NoneLive(v)'
                 /\ call'[c].at \in DeleteSteps => v \in retired
    <3>1. SplitOf(call[c].volume)' = splits'[storedUnder(v)]
      BY <2>2 DEF SplitOf, storedUnder, makeSplitName
    <3>2. NoneLive(call[c].volume)' <=> NoneLive(v)'
      BY <2>2 DEF NoneLive
    <3>3. call'[c].at = "deleteClaim" => makeClaimKey(split, 0) \in ClaimKeys
      <4>1. TypeInv'
        BY <1>1, TypeInvNext
      <4>2. call'[c].at = "deleteClaim" => split \in Splits
        BY <4>1 DEF TypeInv, CallsFormed, Formed, ClaimSteps
      <4> QED
        BY <4>2, KeysInDomain DEF Branches
    <3>4. Live(makeClaimKey(call[c].split, 0))' =>
            \E key : key = makeClaimKey(split, 0) /\ Live(key)'
      BY DEF Live, makeClaimKey
    <3> QED
      BY <2>1, <2>2, <2>3, <3>1, <3>2, <3>3, <3>4 DEF CallSerial
  <2> USE DEF ClaimSteps, DeleteSteps
  <2>4. CASE CreateGet(c) \/ CreateGetAgain(c)
    <3>1. splits[lookedUpUnder(v)] = NoSplit
      BY <1>1, <1>3, NothingLookedUp
    <3>2. \/ Goto(c, "createSplit") \/ Reply(c, "Internal")
          \/ FailWith(c, "Internal") \/ FailWith(c, "AlreadyExists")
      BY <2>4, <3>1 DEF CreateGet, CreateGetAgain
    <3>3. call'[c].at = "createSplit" \/ (call'[c].at = "replied" /\ call'[c].code # "OK")
      BY <1>1, <3>2, HelperEffects
    <3> QED
      BY <3>3
  <2>5. CASE doCreateSplit(c)
    <3> DEFINE new == [volume |-> v, spec |-> call[c].spec]
    <3>1. new \in Splits
      BY <1>1, <1>3, <2>5 DEF doCreateSplit, Formed, CreateSteps, Splits
    <3>2. \/ GotoWith(c, "lookupClaim", new) /\ splits' = [splits EXCEPT ![storedUnder(v)] = new]
          \/ Goto(c, "getAgain") \/ FailWith(c, "Internal")
      BY <2>5 DEF doCreateSplit
    <3>3. CASE GotoWith(c, "lookupClaim", new) /\ splits' = [splits EXCEPT ![storedUnder(v)] = new]
      <4>1. call'[c].at = "lookupClaim" /\ split = new
        BY <1>1, <3>1, <3>3, HelperEffects
      <4>2. splits'[storedUnder(v)] = new
        BY <1>3, <3>3 DEF TypeOK
      <4> QED
        BY <4>1, <4>2
    <3>4. CASE Goto(c, "getAgain")
      <4>1. call'[c].at = "getAgain"
        BY <1>1, <3>4, HelperEffects
      <4> QED
        BY <4>1
    <3>5. CASE FailWith(c, "Internal")
      <4>1. call'[c].at = "replied" /\ call'[c].code = "Internal"
        BY <1>1, <3>5, HelperEffects
      <4> QED
        BY <4>1
    <3> QED
      BY <3>2, <3>3, <3>4, <3>5
  <2>6. CASE LookupClaim(c) \/ CreateClaim(c)
    <3>1. /\ call[c].at \in {"lookupClaim", "createClaim"}
          /\ splits' = splits /\ call[c].split = splits[storedUnder(v)]
      BY <1>1, <2>6 DEF LookupClaim, CreateClaim, server, CallSerial, SplitOf
    <3>2. IsCreate(c)
      BY <2>2, <3>1 DEF CreateSteps
    <3>3. \/ NextBranch(c, "lookupClaim", Reply(c, "OK")) \/ Goto(c, "createClaim")
          \/ Reply(c, "Internal") \/ FailWith(c, "Internal")
      BY <2>6 DEF LookupClaim, CreateClaim
    <3>4. \/ call'[c].at \in {"lookupClaim", "createClaim"} /\ split = call[c].split
          \/ call'[c].at = "replied"
      <4>1. CASE NextBranch(c, "lookupClaim", Reply(c, "OK"))
        BY <1>1, <4>1, HelperEffects DEF NextBranch
      <4>2. CASE Goto(c, "createClaim")
        BY <1>1, <4>2, HelperEffects DEF SameLoop
      <4>3. CASE Reply(c, "Internal") \/ FailWith(c, "Internal")
        BY <1>1, <4>3, HelperEffects
      <4> QED
        BY <3>3, <4>1, <4>2, <4>3
    <3> QED
      BY <3>1, <3>2, <3>4
  <2>7. CASE DeleteGet(c)
    <3> DEFINE found == splits[storedUnder(v)]
    <3>1. v \in retired
      BY <1>1, <2>7 DEF DeleteGet, CallSerial
    <3>2. splits' = splits /\ claims' = claims
      BY <2>7 DEF DeleteGet, server
    <3>3. found \in Splits \cup {NoSplit}
      BY <1>3 DEF TypeOK
    <3>4. CASE found = NoSplit /\ Reply(c, "OK")
      <4>1. NoneLive(v)
        BY <3>4 DEF ClaimsHaveSplit, SplitOf, NoneLive
      <4>2. NoneLive(v)'
        BY <2>2, <3>2, <4>1 DEF NoneLive, Live
      <4>3. call'[c].at = "replied"
        BY <1>1, <3>4, HelperEffects
      <4> QED
        BY <3>2, <3>4, <4>2, <4>3
    <3>5. CASE found # NoSplit /\ GotoWith(c, "deleteClaim", found)
      <4>1. call'[c].at = "deleteClaim" /\ split = found /\ call'[c].i = 0
        BY <1>1, <3>3, <3>5, HelperEffects
      <4> QED
        BY <3>1, <3>2, <4>1
    <3>6. CASE FailWith(c, "Internal")
      <4>1. call'[c].at = "replied" /\ call'[c].code = "Internal"
        BY <1>1, <3>6, HelperEffects
      <4> QED
        BY <4>1
    <3> QED
      BY <2>7, <3>4, <3>5, <3>6 DEF DeleteGet
  <2>8. CASE DeleteClaim(c)
    <3>1. /\ v \in retired /\ splits' = splits
          /\ call[c].at = "deleteClaim" /\ call[c].split = splits[storedUnder(v)]
          /\ call[c].i \in Branches
          /\ call[c].split \in Splits /\ call[c].split.volume = v
      BY <1>1, <2>8 DEF DeleteClaim, CallSerial, SplitOf, Call, Formed, CallsOwnSplit
    <3>2. CASE call'[c].at = "replied"
      <4>1. \/ Goto(c, "deleteSplit") \/ FailWith(c, "Internal")
            \/ Becomes(c, [call[c] EXCEPT !.at = "deleteClaim", !.i = 1])
        BY <2>8 DEF DeleteClaim, NextBranch
      <4>2. call'[c].code = "Internal"
        BY <1>1, <3>2, <4>1, HelperEffects
      <4> QED
        BY <3>2, <4>2
    <3>3. CASE call'[c].at # "replied"
      <4>1. \A key \in ClaimKeys : Live(key)' => Live(key) /\ key # ClaimOf(c)
        BY <1>1, <2>8, <3>3, DeleteClaimKills
      <4>2. NextBranch(c, "deleteClaim", Goto(c, "deleteSplit"))
        BY <1>1, <2>8, <3>3, HelperEffects DEF DeleteClaim
      <4>3. CASE call[c].i = 0
        <5>1. call'[c].at = "deleteClaim" /\ split = call[c].split
          BY <1>1, <4>2, <4>3, HelperEffects DEF NextBranch
        <5>2. ClaimOf(c) = makeClaimKey(split, 0)
          BY <4>3, <5>1 DEF ClaimOf
        <5> QED
          BY <3>1, <4>1, <5>1, <5>2
      <4>4. CASE call[c].i = 1
        <5>1. call'[c].at = "deleteSplit"
          <6>1. Goto(c, "deleteSplit")
            BY <4>2, <4>4 DEF NextBranch
          <6> QED
            BY <1>1, <6>1, HelperEffects
        <5>2. ~ Live(makeClaimKey(call[c].split, 0)) /\ ClaimOf(c) = makeClaimKey(call[c].split, 1)
          BY <1>1, <3>1, <4>4 DEF CallSerial, ClaimOf
        <5>3. ASSUME NEW key \in ClaimKeys, key[2] = v, Live(key)' PROVE FALSE
          <6>1. Live(key) /\ key # ClaimOf(c)
            BY <4>1, <5>3
          <6>2. key[1] = call[c].split.spec.ns
            BY <3>1, <5>3, <6>1 DEF ClaimsHaveSplit, SplitOf
          <6>3. \E i \in Branches : key = makeClaimKey(call[c].split, i)
            BY <3>1, <5>3, <6>2, KeysInDomain
          <6> QED
            BY <5>2, <6>1, <6>3 DEF Branches
        <5> QED
          BY <2>2, <3>1, <5>1, <5>3 DEF NoneLive
      <4> QED
        BY <3>1, <4>3, <4>4 DEF Branches
    <3> QED
      BY <3>2, <3>3
  <2>9. CASE DeleteSplit(c)
    <3>1. claims' = claims /\ NoneLive(v)
      BY <1>1, <2>9 DEF DeleteSplit, CallSerial
    <3>2. NoneLive(v)'
      BY <2>2, <3>1 DEF NoneLive, Live
    <3>3. CASE Reply(c, "OK") /\ splits' = [splits EXCEPT ![storedUnder(v)] = NoSplit]
      <4>1. splits'[storedUnder(v)] = NoSplit
        BY <1>3, <3>3 DEF TypeOK
      <4>2. call'[c].at = "replied"
        BY <1>1, <3>3, HelperEffects
      <4> QED
        BY <3>2, <4>1, <4>2
    <3>4. CASE FailWith(c, "Internal")
      <4>1. call'[c].at = "replied" /\ call'[c].code = "Internal"
        BY <1>1, <3>4, HelperEffects
      <4> QED
        BY <4>1
    <3> QED
      BY <2>9, <3>3, <3>4 DEF DeleteSplit
  <2> QED
    BY <1>5, <2>4, <2>5, <2>6, <2>7, <2>8, <2>9 DEF CallStep
<1> QED
  BY <1>1, <1>2, <1>4, <1>5, HelperEffects DEF Return

\* Every call knows its volume after every step.
LEMMA CallsSerialNext ==
  ASSUME SerialInv, SerialHypotheses, [Next]_vars
  PROVE  CallsSerial'
<1> SUFFICES ASSUME NEW c \in Calls PROVE CallSerial(c)'
  BY DEF CallsSerial
<1>1. TypeInv
  BY DEF SerialInv, TypeInv
<1>2. CASE CallStep(c)
  BY <1>2, SerialOwn
<1>3. CASE ~ CallStep(c) /\ call'[c] = call[c]
  BY <1>3, SerialElsewhere
<1>4. ASSUME NEW v \in Volumes, NEW s \in Specs, StartCreate(c, v, s) PROVE CallSerial(c)'
  <2>1. call'[c].at = "get" /\ call'[c].volume = v /\ v \notin retired'
    BY <1>1, <1>4, StartEffect DEF StartCreate
  <2> QED
    BY <2>1 DEF CallSerial, ClaimSteps, DeleteSteps
<1>5. ASSUME NEW v \in Volumes, StartDelete(c, v) PROVE CallSerial(c)'
  <2>1. /\ call'[c].at = "deleteGet" /\ call'[c].volume = v /\ call'[c].spec = EmptySpec
        /\ v \in retired'
    BY <1>1, <1>5, StartEffect DEF StartDelete
  <2> QED
    BY <2>1 DEF CallSerial, ClaimSteps, DeleteSteps, IsCreate
<1>6. CASE Crash
  BY <1>6 DEF Crash, CallSerial, Idle, ClaimSteps, DeleteSteps
<1> QED
  BY <1>1, <1>2, <1>3, <1>4, <1>5, <1>6, WhoMoves

\* The inductive invariant holds before anything is asked for (Init).
LEMMA SerialInvInit == Init => SerialInv
<1> SUFFICES ASSUME Init PROVE SerialInv
  OBVIOUS
<1>1. TypeInv
  BY TypeInvInit
<1>2. \A c \in Calls : call[c].at = "idle"
  BY DEF Init, Idle
<1>3. \A n \in SplitNames : splits[n] = NoSplit
  BY DEF Init
<1>4. ClaimsHaveSplit /\ DeletedMeansGone
  BY DEF Init, ClaimsHaveSplit, DeletedMeansGone, Live
<1>5. CallsSerial
  BY <1>2 DEF CallsSerial, CallSerial, ClaimSteps, DeleteSteps
<1> QED
  BY <1>1, <1>2, <1>3, <1>4, <1>5
  DEF SerialInv, TypeInv, SplitsFiled, CallsOwnSplit, OneCall, ClaimSteps

\* Every step keeps it, each part by the lemma of its name (all handlers).
LEMMA SerialInvNext ==
  ASSUME SerialHypotheses
  PROVE  SerialInv /\ [Next]_vars => SerialInv'
<1> SUFFICES ASSUME SerialInv, [Next]_vars PROVE SerialInv'
  OBVIOUS
<1>1. TypeInv /\ TypeInv'
  BY TypeInvNext DEF SerialInv, TypeInv
<1>2. SplitsFiled' /\ CallsOwnSplit'
  BY <1>1, SplitsFiledNext, CallsOwnSplitNext DEF SerialInv, SerialHypotheses
<1>3. OneCall' /\ CallsSerial' /\ ClaimsHaveSplit' /\ DeletedMeansGone'
  BY OneCallNext, CallsSerialNext, ClaimsHaveSplitNext, DeletedMeansGoneNext
<1> QED
  BY <1>1, <1>2, <1>3 DEF SerialInv, TypeInv

\* No order of partial failures leaks a lower claim: as long as the CO has one
\* call in flight for a volume, whatever exists of its claims the split still
\* lists, names that are used again included (CreateLower, DeleteLower).
THEOREM ClaimsKeepTheirSplit ==
  ASSUME SerialCalls, NamesKeptApart
  PROVE  Spec => []ClaimsHaveSplit
<1>1. SerialInv /\ [Next]_vars => SerialInv'
  BY SerialInvNext DEF SerialHypotheses
<1>2. SerialInv => ClaimsHaveSplit
  BY DEF SerialInv
<1> QED
  BY <1>1, <1>2, SerialInvInit, PTL DEF Spec

\* An OK of DeleteVolume is never wrong, and nothing comes back afterwards, as
\* long as the CO has one call in flight for a volume (DeleteLower).
THEOREM DeletedVolumesAreGone ==
  ASSUME SerialCalls, NamesKeptApart
  PROVE  Spec => []DeletedMeansGone
<1>1. SerialInv /\ [Next]_vars => SerialInv'
  BY SerialInvNext DEF SerialHypotheses
<1>2. SerialInv => DeletedMeansGone
  BY DEF SerialInv
<1> QED
  BY <1>1, <1>2, SerialInvInit, PTL DEF Spec

-----------------------------------------------------------------------------
(***************************************************************************)
(* VolumeLifecycle, step by step.  A request changes one part of its       *)
(* volume: the split, or the lower claim the split lists.                  *)
(***************************************************************************)

LifecycleHypotheses == Reused = {} /\ SerialHypotheses

LifecycleInv == BackedInv /\ SerialInv

AllParts == {"split", "lower0", "lower1"}

\* The part that the i-th lower claim is.
Lower(i) == IF i = 0 THEN "lower0" ELSE "lower1"

SameParts(v) == partsOf(v)' = partsOf(v)

SameOrders == acked' = acked /\ retired' = retired

\* A volume whose split and claims are as they were has the same parts.
LEMMA PartsStay ==
  ASSUME NEW v \in Volumes, SplitOf(v)' = SplitOf(v),
         \A key \in ClaimKeys : key[2] = v => (Live(key)' <=> Live(key))
  PROVE  SameParts(v)
<1>1. \A i \in Branches : (\E key \in ClaimKeys : key[2] = v /\ key[3] = i /\ Live(key))'
                       <=> (\E key \in ClaimKeys : key[2] = v /\ key[3] = i /\ Live(key))
  OBVIOUS
<1> QED
  BY <1>1 DEF SameParts, partsOf, Branches

\* Where no split is written and no claim comes to life or is marked, nothing
\* changes for the life of the volumes.
LEMMA NothingChanges ==
  ASSUME SameOrders, splits' = splits, \A key \in ClaimKeys : Live(key)' <=> Live(key)
  PROVE  UNCHANGED Lifecycle!vars
<1>1. \A v \in Volumes : SameParts(v)
  BY PartsStay DEF SplitOf
<1> QED
  BY <1>1 DEF Lifecycle!vars, Once, SameParts, SameOrders

\* A part that is added to a volume not given up builds it.
LEMMA PartAdded ==
  ASSUME Reused = {}, SameOrders, NEW v \in Volumes, v \notin retired,
         NEW p \in AllParts, p \notin partsOf(v), partsOf(v)' = partsOf(v) \cup {p},
         \A w \in Volumes \ {v} : SameParts(w)
  PROVE  Lifecycle!Next
<1>1. Once = Volumes
  BY DEF Once
<1>2. [w \in Once |-> partsOf(w)]' =
        [[w \in Once |-> partsOf(w)] EXCEPT ![v] = @ \cup {p}]
  BY <1>1 DEF SameParts
<1>3. Lifecycle!Build(v)
  BY <1>1, <1>2 DEF Lifecycle!Build, SameOrders, AllParts
<1> QED
  BY <1>1, <1>3 DEF Lifecycle!Next

\* A part that is removed from a volume given up takes it down.
LEMMA PartRemoved ==
  ASSUME Reused = {}, SameOrders, NEW v \in Volumes, v \in retired,
         NEW p \in AllParts, p \in partsOf(v), partsOf(v)' = partsOf(v) \ {p},
         \A w \in Volumes \ {v} : SameParts(w)
  PROVE  Lifecycle!Next
<1>1. Once = Volumes
  BY DEF Once
<1>2. [w \in Once |-> partsOf(w)]' =
        [[w \in Once |-> partsOf(w)] EXCEPT ![v] = @ \ {p}]
  BY <1>1 DEF SameParts
<1>3. Lifecycle!TakeDown(v)
  BY <1>1, <1>2 DEF Lifecycle!TakeDown, SameOrders, AllParts
<1> QED
  BY <1>1, <1>3 DEF Lifecycle!Next

\* What a request that writes or removes the split of v does to the parts.
LEMMA SplitChanges ==
  ASSUME TypeInv, NEW v \in Volumes, NEW new, claims' = claims,
         splits' = [splits EXCEPT ![storedUnder(v)] = new]
  PROVE  /\ \A w \in Volumes \ {v} : SameParts(w)
         /\ partsOf(v)' = (partsOf(v) \ {"split"}) \cup {p \in {"split"} : new # NoSplit}
         /\ "split" \in partsOf(v) <=> SplitOf(v) # NoSplit
<1>1. storedUnder(v) \in SplitNames /\ splits \in [SplitNames -> Splits \cup {NoSplit}]
  BY KeysInDomain DEF TypeInv, TypeOK
<1>2. SplitOf(v)' = new
  BY <1>1 DEF SplitOf
<1>3. \A key \in ClaimKeys : Live(key)' <=> Live(key)
  BY DEF Live
<1>4. ASSUME NEW w \in Volumes \ {v} PROVE SameParts(w)
  <2>1. SplitOf(w)' = SplitOf(w)
    BY <1>1, StoredUnderInjective, KeysInDomain DEF SplitOf
  <2> QED
    BY <1>3, <2>1, PartsStay
<1>5. \A i \in Branches : (\E key \in ClaimKeys : key[2] = v /\ key[3] = i /\ Live(key))'
                       <=> (\E key \in ClaimKeys : key[2] = v /\ key[3] = i /\ Live(key))
  BY <1>3
<1>6. partsOf(v)' = (partsOf(v) \ {"split"}) \cup {p \in {"split"} : new # NoSplit}
  BY <1>2, <1>5 DEF partsOf, Branches
<1>7. "split" \in partsOf(v) <=> SplitOf(v) # NoSplit
  BY DEF partsOf
<1> QED
  BY <1>4, <1>6, <1>7

\* What a request for one claim that the split lists does to the parts.
LEMMA ClaimChanges ==
  ASSUME ClaimsHaveSplit, ClaimsHaveSplit', splits' = splits,
         NEW key \in ClaimKeys, key[1] = SplitOf(key[2]).spec.ns,
         \A k \in ClaimKeys \ {key} : claims'[k] = claims[k]
  PROVE  /\ \A w \in Volumes \ {key[2]} : SameParts(w)
         /\ Lower(key[3]) \in partsOf(key[2]) <=> Live(key)
         /\ partsOf(key[2])' = (partsOf(key[2]) \ {Lower(key[3])})
                               \cup {p \in {Lower(key[3])} : Live(key)'}
<1> DEFINE v == key[2]
           Has(i) == \E k \in ClaimKeys : k[2] = v /\ k[3] = i /\ Live(k)
<1>1. key[3] \in {0, 1} /\ key = <<key[1], v, key[3]>>
  BY DEF ClaimKeys, Branches
<1>2. \A k \in ClaimKeys \ {key} : Live(k)' <=> Live(k)
  BY DEF Live
<1>3. \A w : SplitOf(w)' = SplitOf(w)
  BY DEF SplitOf, storedUnder, makeSplitName
<1>4. \A w \in Volumes \ {v} : SameParts(w)
  BY <1>2, <1>3, PartsStay
<1>5. ASSUME NEW k \in ClaimKeys, k[2] = v, k[3] = key[3], Live(k) \/ Live(k)' PROVE k = key
  <2>1. k[1] = key[1]
    BY <1>3, <1>5 DEF ClaimsHaveSplit
  <2>2. k = <<k[1], k[2], k[3]>>
    BY DEF ClaimKeys
  <2> QED
    BY <1>1, <1>5, <2>1, <2>2
<1>6. Has(key[3]) <=> Live(key)
  BY <1>5
<1>7. Has(key[3])' <=> Live(key)'
  BY <1>5
<1>8. \A i \in {0, 1} \ {key[3]} : Has(i)' <=> Has(i)
  BY <1>2
<1>9. partsOf(v) = {p \in {"split"} : SplitOf(v) # NoSplit} \cup {p \in {"lower0"} : Has(0)}
                   \cup {p \in {"lower1"} : Has(1)}
  BY DEF partsOf
<1>10. partsOf(v)' = {p \in {"split"} : SplitOf(v) # NoSplit} \cup {p \in {"lower0"} : Has(0)'}
                     \cup {p \in {"lower1"} : Has(1)'}
  BY <1>3 DEF partsOf
<1> HIDE DEF Has
<1>11. Lower(key[3]) \in partsOf(v) <=> Live(key)
  BY <1>1, <1>6, <1>9 DEF Lower
<1>12. partsOf(v)' = (partsOf(v) \ {Lower(key[3])}) \cup {p \in {Lower(key[3])} : Live(key)'}
  BY <1>1, <1>7, <1>8, <1>9, <1>10 DEF Lower
<1> QED
  BY <1>4, <1>11, <1>12

\* A call of CreateVolume is for a volume not given up, a deletion for one that
\* is (StartCreate, StartDelete).
LEMMA WhoIsRetired ==
  ASSUME SerialInv, NEW c \in Calls
  PROVE  /\ call[c].at \in CreateSteps => call[c].volume \notin retired
         /\ call[c].at \in DeleteSteps => call[c].volume \in retired
<1> USE DEF SerialInv
<1>1. call[c].at \in CreateSteps => IsCreate(c) /\ call[c].at # "idle"
  BY SpecsAreNotEmpty DEF CallsFormed, Formed, IsCreate, CreateSteps
<1> QED
  BY <1>1 DEF CallsSerial, CallSerial

\* doCreateSplit adds the split to what there is of the volume.
LEMMA CreateSplitRefines ==
  ASSUME LifecycleInv, LifecycleHypotheses, NEW c \in Calls, doCreateSplit(c)
  PROVE  [Lifecycle!Next]_(Lifecycle!vars)
<1> USE DEF LifecycleInv, SerialInv, LifecycleHypotheses
<1>0. PICK v \in Volumes, new \in Splits :
        v = call[c].volume /\ new = [volume |-> v, spec |-> call[c].spec]
  BY DEF doCreateSplit, CallsFormed, Formed, CreateSteps, Splits
<1>1. TypeInv /\ v \notin retired
  BY <1>0, WhoIsRetired DEF TypeInv, doCreateSplit, CreateSteps
<1>2. claims' = claims /\ SameOrders
  BY DEF doCreateSplit, orchestrator, SameOrders
<1>3. CASE splits' = splits
  BY <1>2, <1>3, NothingChanges DEF Live
<1>4. CASE splits[storedUnder(v)] = NoSplit /\ splits' = [splits EXCEPT ![storedUnder(v)] = new]
  <2>1. new # NoSplit /\ SplitOf(v) = NoSplit
    BY <1>1, <1>4, NullsAssumption DEF SplitOf
  <2>2. /\ \A w \in Volumes \ {v} : SameParts(w)
        /\ partsOf(v)' = (partsOf(v) \ {"split"}) \cup {p \in {"split"} : new # NoSplit}
        /\ "split" \in partsOf(v) <=> SplitOf(v) # NoSplit
    BY <1>1, <1>2, <1>4, SplitChanges
  <2>3. partsOf(v)' = partsOf(v) \cup {"split"} /\ "split" \notin partsOf(v) /\ "split" \in AllParts
    BY <2>1, <2>2 DEF AllParts
  <2> QED
    BY <1>1, <1>2, <2>2, <2>3, PartAdded
<1> QED
  BY <1>0, <1>3, <1>4 DEF doCreateSplit

\* CreateClaim adds a lower claim.
LEMMA CreateClaimRefines ==
  ASSUME LifecycleInv, LifecycleHypotheses, ClaimsHaveSplit', NEW c \in Calls, CreateClaim(c)
  PROVE  [Lifecycle!Next]_(Lifecycle!vars)
<1> USE DEF LifecycleInv, SerialInv, LifecycleHypotheses
<1>0. PICK v \in Volumes : v = call[c].volume
  BY DEF CreateClaim, CallsFormed, Formed, CreateSteps
<1>1. v \notin retired
  BY <1>0, WhoIsRetired DEF CreateClaim, CreateSteps
<1>2. splits' = splits /\ SameOrders
  BY DEF CreateClaim, orchestrator, SameOrders
<1>3. call[c].split \in Splits /\ call[c].split = SplitOf(v) /\ call[c].i \in Branches
      /\ call[c].split.volume = v
  BY <1>0 DEF CreateClaim, CallsFormed, Formed, ClaimSteps, CallsSerial, CallSerial, TypeOK, Call,
         CallsOwnSplit
<1>4. PICK key \in ClaimKeys : key = ClaimOf(c) /\ key[2] = v /\ key[1] = SplitOf(v).spec.ns
  BY <1>3, KeysInDomain DEF ClaimOf
<1>5. CASE claims' = claims
  BY <1>2, <1>5, NothingChanges DEF Live
<1>7. PICK new \in Claims :
        new = [size |-> splitQuantity(call[c].split.spec.size), deleting |-> FALSE]
  <2>1. call[c].split.spec.size \in Nat
    BY <1>3, ConstantsAssumption DEF Splits, SpecsAssumption
  <2>2. splitQuantity(call[c].split.spec.size) \in Nat
    BY <2>1 DEF splitQuantity
  <2> QED
    BY <2>2 DEF Claims
<1>6. CASE claims[key] = NoClaim /\ claims' = [claims EXCEPT ![key] = new]
  <2>1. new # NoClaim /\ ~ new.deleting
    BY <1>7, NullsAssumption
  <2>2. ~ Live(key) /\ Live(key)' /\ \A k \in ClaimKeys \ {key} : claims'[k] = claims[k]
    BY <1>6, <2>1 DEF TypeOK, Live
  <2>3. /\ \A w \in Volumes \ {v} : SameParts(w)
        /\ Lower(key[3]) \in partsOf(v) <=> Live(key)
        /\ partsOf(v)' = (partsOf(v) \ {Lower(key[3])}) \cup {p \in {Lower(key[3])} : Live(key)'}
    BY <1>2, <1>4, <2>2, ClaimChanges
  <2>4. /\ partsOf(v)' = partsOf(v) \cup {Lower(key[3])}
        /\ Lower(key[3]) \notin partsOf(v) /\ Lower(key[3]) \in AllParts
    BY <2>2, <2>3 DEF AllParts, Lower
  <2> QED
    BY <1>1, <1>2, <2>3, <2>4, PartAdded
<1> QED
  BY <1>4, <1>5, <1>6, <1>7 DEF CreateClaim

\* DeleteClaim takes a lower claim away, if it has not been deleted before.
LEMMA DeleteClaimRefines ==
  ASSUME LifecycleInv, LifecycleHypotheses, ClaimsHaveSplit', NEW c \in Calls, DeleteClaim(c)
  PROVE  [Lifecycle!Next]_(Lifecycle!vars)
<1> USE DEF LifecycleInv, SerialInv, LifecycleHypotheses
<1>0. PICK v \in Volumes : v = call[c].volume
  BY WhoIsRetired DEF DeleteClaim, CallsFormed, Formed, ClaimSteps, DeleteSteps, TypeOK
<1>1. v \in retired
  BY <1>0, WhoIsRetired DEF DeleteClaim, DeleteSteps
<1>2. splits' = splits /\ SameOrders
  BY DEF DeleteClaim, orchestrator, SameOrders
<1>3. call[c].split \in Splits /\ call[c].split = SplitOf(v) /\ call[c].i \in Branches
      /\ call[c].split.volume = v
  BY <1>0 DEF DeleteClaim, CallsFormed, Formed, ClaimSteps, CallsSerial, CallSerial, TypeOK, Call,
         CallsOwnSplit
<1>4. PICK key \in ClaimKeys : key = ClaimOf(c) /\ key[2] = v /\ key[1] = SplitOf(v).spec.ns
  BY <1>3, KeysInDomain DEF ClaimOf
<1>5. CASE claims' = claims
  BY <1>2, <1>5, NothingChanges DEF Live
<1>6. CASE /\ claims[key] # NoClaim
           /\ claims' = [claims EXCEPT ![key] = [@ EXCEPT !.deleting = TRUE]]
  <2>1. claims \in [ClaimKeys -> Claims \cup {NoClaim}] /\ claims[key] \in Claims
    BY <1>6 DEF TypeOK
  <2>2. ~ Live(key)' /\ \A k \in ClaimKeys \ {key} : claims'[k] = claims[k]
    BY <1>6, <2>1 DEF Claims, Live
  <2>3. CASE ~ Live(key)
    <3>1. \A k \in ClaimKeys : Live(k)' <=> Live(k)
      BY <2>2, <2>3 DEF Live
    <3> QED
      BY <1>2, <3>1, NothingChanges
  <2>4. CASE Live(key)
    <3>1. /\ \A w \in Volumes \ {v} : SameParts(w)
          /\ Lower(key[3]) \in partsOf(v) <=> Live(key)
          /\ partsOf(v)' = (partsOf(v) \ {Lower(key[3])}) \cup {p \in {Lower(key[3])} : Live(key)'}
      BY <1>2, <1>4, <2>2, ClaimChanges
    <3>2. /\ partsOf(v)' = partsOf(v) \ {Lower(key[3])}
          /\ Lower(key[3]) \in partsOf(v) /\ Lower(key[3]) \in AllParts
      BY <2>2, <2>4, <3>1 DEF AllParts, Lower
    <3> QED
      BY <1>1, <1>2, <3>1, <3>2, PartRemoved
  <2> QED
    BY <2>3, <2>4
<1> QED
  BY <1>4, <1>5, <1>6 DEF DeleteClaim

\* DeleteSplit takes the split away, if it is still there.
LEMMA DeleteSplitRefines ==
  ASSUME LifecycleInv, LifecycleHypotheses, NEW c \in Calls, DeleteSplit(c)
  PROVE  [Lifecycle!Next]_(Lifecycle!vars)
<1> USE DEF LifecycleInv, SerialInv, LifecycleHypotheses
<1>0. PICK v \in Volumes : v = call[c].volume
  BY DEF DeleteSplit, CallsFormed, Formed
<1>1. TypeInv /\ v \in retired
  BY <1>0, WhoIsRetired DEF TypeInv, DeleteSplit, DeleteSteps
<1>2. claims' = claims /\ SameOrders
  BY DEF DeleteSplit, orchestrator, SameOrders
<1>3. CASE splits' = splits
  BY <1>2, <1>3, NothingChanges DEF Live
<1>4. CASE splits' # splits /\ splits' = [splits EXCEPT ![storedUnder(v)] = NoSplit]
  <2>1. SplitOf(v) # NoSplit
    <3>1. splits \in [SplitNames -> Splits \cup {NoSplit}]
      BY DEF TypeOK
    <3> QED
      BY <1>4, <3>1 DEF SplitOf
  <2>2. /\ \A w \in Volumes \ {v} : SameParts(w)
        /\ partsOf(v)' = (partsOf(v) \ {"split"}) \cup {p \in {"split"} : NoSplit # NoSplit}
        /\ "split" \in partsOf(v) <=> SplitOf(v) # NoSplit
    BY <1>1, <1>2, <1>4, SplitChanges
  <2>3. partsOf(v)' = partsOf(v) \ {"split"} /\ "split" \in partsOf(v) /\ "split" \in AllParts
    BY <2>1, <2>2 DEF AllParts
  <2> QED
    BY <1>1, <1>2, <2>2, <2>3, PartRemoved
<1> QED
  BY <1>0, <1>3, <1>4 DEF DeleteSplit

\* An OK of CreateVolume promises a volume that has all of its parts.
LEMMA ReturnRefines ==
  ASSUME LifecycleInv, LifecycleHypotheses, AckedVolumeBacked', NEW c \in Calls, Return(c)
  PROVE  [Lifecycle!Next]_(Lifecycle!vars)
<1> USE DEF LifecycleInv, SerialInv, LifecycleHypotheses
<1>0. PICK v \in Volumes : v = call[c].volume
  BY DEF Return, CallsFormed, Formed
<1>1. splits' = splits /\ claims' = claims /\ retired' = retired
  BY DEF Return, server
<1>2. \A w \in Volumes : SameParts(w)
  BY <1>1, PartsStay DEF SplitOf, Live
<1>3. CASE acked' = acked
  BY <1>1, <1>3, NothingChanges DEF SameOrders, Live
<1>4. CASE acked' # acked
  <2>1. acked' = acked \cup {<<v, call[c].spec>>} /\ v \notin retired /\ v \in Volumes
    BY <1>0, <1>4 DEF Return
  <2>2. Backed(v, call[c].spec)
    <3>1. \A a \in acked' : Backed(a[1], a[2])'
      BY DEF AckedVolumeBacked
    <3>2. \A w, s : Backed(w, s)' <=> Backed(w, s)
      BY <1>1 DEF Backed, SplitOf, Live, isSplitSpecCompatible, makeClaimKey, splitQuantity,
                  storedUnder, makeSplitName
    <3>3. <<v, call[c].spec>> \in acked'
      BY <2>1
    <3>4. \A a \in acked' : Backed(a[1], a[2])
      BY <3>1, <3>2
    <3> QED
      BY <3>3, <3>4
  <2>3. partsOf(v) = AllParts
    <3>1. SplitOf(v) # NoSplit /\ SplitOf(v) \in Splits /\ SplitOf(v).volume = v
      BY <2>1, <2>2, SplitOfOwn DEF Backed, TypeInv
    <3>2. \A i \in Branches : \E key \in ClaimKeys : key[2] = v /\ key[3] = i /\ Live(key)
      <4> TAKE i \in Branches
      <4>1. makeClaimKey(SplitOf(v), i) \in ClaimKeys /\ Live(makeClaimKey(SplitOf(v), i))
        BY <2>2, <3>1, KeysInDomain DEF Backed
      <4>2. makeClaimKey(SplitOf(v), i)[2] = v /\ makeClaimKey(SplitOf(v), i)[3] = i
        BY <3>1 DEF makeClaimKey
      <4> QED
        BY <4>1, <4>2
    <3> QED
      BY <3>1, <3>2 DEF partsOf, AllParts, Branches
  <2>4. Once = Volumes
    BY DEF Once
  <2>5. {a[1] : a \in acked'} \cap Once = ({a[1] : a \in acked} \cap Once) \cup {v}
    <3>1. {a[1] : a \in acked'} = {a[1] : a \in acked} \cup {v}
      <4>1. <<v, call[c].spec>>[1] = v
        OBVIOUS
      <4>2. ASSUME NEW x PROVE (\E a \in acked' : a[1] = x) <=> (\E a \in acked : a[1] = x) \/ x = v
        BY <2>1, <4>1
      <4> QED
        BY <4>2
    <3> QED
      BY <2>1, <2>4, <3>1
  <2>6. Lifecycle!Promise(v)
    BY <1>1, <1>2, <2>1, <2>3, <2>4, <2>5 DEF Lifecycle!Promise, SameParts, AllParts, Once
  <2> QED
    BY <2>1, <2>4, <2>6 DEF Lifecycle!Next
<1> QED
  BY <1>3, <1>4

\* Every step of the calls, the cluster and the CO is one of the life cycle's.
LEMMA LifecycleStep ==
  ASSUME LifecycleInv, LifecycleHypotheses, [Next]_vars, ClaimsHaveSplit', AckedVolumeBacked'
  PROVE  [Lifecycle!Next]_(Lifecycle!vars)
<1> USE DEF LifecycleHypotheses
<1>1. ASSUME splits' = splits, claims' = claims, SameOrders
      PROVE  [Lifecycle!Next]_(Lifecycle!vars)
  BY <1>1, NothingChanges DEF Live
<1>2. ASSUME NEW c \in Calls, NEW v \in Volumes, NEW s \in Specs, StartCreate(c, v, s)
      PROVE  [Lifecycle!Next]_(Lifecycle!vars)
  BY <1>1, <1>2 DEF StartCreate, server, SameOrders
<1>3. ASSUME NEW c \in Calls, NEW v \in Volumes, StartDelete(c, v)
      PROVE  [Lifecycle!Next]_(Lifecycle!vars)
  <2>1. splits' = splits /\ claims' = claims /\ retired' = retired \cup {v}
        /\ acked' = {a \in acked : a[1] # v}
    BY <1>3 DEF StartDelete, server
  <2>2. \A w \in Volumes : SameParts(w)
    BY <2>1, PartsStay DEF SplitOf, Live
  <2>3. Once = Volumes
    BY DEF Once
  <2>4. {a[1] : a \in acked'} \cap Once = ({a[1] : a \in acked} \cap Once) \ {v}
    BY <2>1
  <2>5. Lifecycle!Retire(v)
    BY <2>1, <2>2, <2>3, <2>4 DEF Lifecycle!Retire, SameParts, Once
  <2> QED
    BY <2>3, <2>5 DEF Lifecycle!Next
<1>4. ASSUME NEW c \in Calls, CallStep(c) PROVE [Lifecycle!Next]_(Lifecycle!vars)
  <2>1. CASE CreateGet(c) \/ CreateGetAgain(c) \/ LookupClaim(c) \/ DeleteGet(c)
    BY <1>1, <2>1 DEF CreateGet, CreateGetAgain, LookupClaim, DeleteGet, server, orchestrator,
                      SameOrders
  <2> QED
    BY <1>4, <2>1, CreateSplitRefines, CreateClaimRefines, DeleteClaimRefines,
       DeleteSplitRefines, ReturnRefines DEF CallStep
<1>5. ASSUME NEW key \in ClaimKeys, FinalizeClaim(key) PROVE [Lifecycle!Next]_(Lifecycle!vars)
  <2>1. splits' = splits /\ SameOrders /\ ~ Live(key) /\ claims' = [claims EXCEPT ![key] = NoClaim]
    BY <1>5 DEF FinalizeClaim, orchestrator, SameOrders, Live
  <2>2. \A k \in ClaimKeys : Live(k)' <=> Live(k)
    BY <2>1 DEF Live, LifecycleInv, SerialInv, TypeOK
  <2> QED
    BY <2>1, <2>2, NothingChanges
<1>6. CASE Deliver \/ Crash \/ UNCHANGED vars
  BY <1>1, <1>6 DEF Deliver, Crash, vars, server, orchestrator, SameOrders
<1> QED
  BY <1>2, <1>3, <1>4, <1>5, <1>6 DEF Next

\* The safety part of ImplementsLifecycle, for any number of volumes and specs:
\* CreateVolume and DeleteVolume build a volume up part by part, promise it when
\* it is complete and take it down once it is given up, as long as the CO has one
\* call in flight for a volume and uses no name twice (CreateLower, DeleteLower).
THEOREM LifecycleImplemented ==
  ASSUME Reused = {}, SerialCalls, NamesKeptApart
  PROVE  Spec => Lifecycle!Init /\ [][Lifecycle!Next]_(Lifecycle!vars)
<1>1. LifecycleHypotheses /\ BackedHypotheses
  BY DEF LifecycleHypotheses, SerialHypotheses, BackedHypotheses
<1>2. Init => LifecycleInv
  BY BackedInvInit, SerialInvInit DEF LifecycleInv
<1>3. LifecycleInv /\ [Next]_vars => LifecycleInv'
  BY <1>1, BackedInvNext, SerialInvNext DEF LifecycleInv, LifecycleHypotheses
<1>4. LifecycleInv /\ [Next]_vars => [Lifecycle!Next]_(Lifecycle!vars)
  BY <1>1, <1>3, LifecycleStep DEF LifecycleInv, BackedInv, SerialInv
<1>5. Init => Lifecycle!Init
  <2> SUFFICES ASSUME Init PROVE Lifecycle!Init
    OBVIOUS
  <2>1. \A v \in Volumes : partsOf(v) = {}
    BY KeysInDomain DEF Init, partsOf, SplitOf, Live
  <2>2. [v \in Once |-> partsOf(v)] = [v \in Once |-> {}]
    BY <2>1 DEF Once
  <2>3. {a[1] : a \in acked} \cap Once = {} /\ retired \cap Once = {}
    BY DEF Init
  <2> QED
    BY <2>2, <2>3 DEF Lifecycle!Init
<1> QED
  BY <1>2, <1>3, <1>4, <1>5, PTL DEF Spec
=============================================================================
