------------------------ MODULE BlockingMergerProofs ------------------------
(***************************************************************************)
(* Safety of blockingMerger, for any number of goroutines.                 *)
(***************************************************************************)
EXTENDS BlockingMerger, TLAPS

Safe == TypeOK /\ OneRun /\ MergedWhileRunning

\* No Run begins or ends to block.
SamePlaces == \A r \in Runners : pc'[r] \in Blocked <=> pc[r] \in Blocked

\* A step that makes no Run begin or end to block, and leaves running and the
\* mounts alone, keeps OneRun and MergedWhileRunning.
LEMMA NeitherInNorOut ==
  ASSUME OneRun, MergedWhileRunning, SamePlaces, UNCHANGED <<running, mounts>>
  PROVE  OneRun' /\ MergedWhileRunning'
BY DEF OneRun, MergedWhileRunning, SamePlaces

\* The state Init describes satisfies the invariant: nothing blocks, nothing is
\* mounted.
LEMMA SafeInit == Init => Safe
<1> SUFFICES ASSUME Init PROVE Safe
  OBVIOUS
<1>1. TypeOK
  <2>1. 0 \in 0 .. MaxMounts /\ 0 \in 0 .. 1
    BY MergerBoundsAssumption
  <2>2. pc \in [Goroutines -> Places]
    BY DEF Init, Places
  <2> QED
    BY <2>1, <2>2 DEF Init, TypeOK
<1>2. \A r \in Runners : pc[r] \notin Blocked
  BY DEF Init, Goroutines, Blocked
<1>3. OneRun /\ MergedWhileRunning
  BY <1>2 DEF Init, OneRun, MergedWhileRunning
<1> QED
  BY <1>1, <1>3 DEF Safe

\* Every step keeps the types: the guards on the channels are their capacities.
LEMMA TypeNext == TypeOK /\ [Next]_vars => TypeOK'
<1> SUFFICES ASSUME TypeOK, [Next]_vars PROVE TypeOK'
  OBVIOUS
<1> USE DEF TypeOK, Places, Blocked, Goroutines, Moves, Locked, fields
<1>1. ASSUME NEW r \in Runners, StartRun(r) \/ Cancel(r) PROVE TypeOK'
  BY <1>1 DEF StartRun, Cancel
<1>2. ASSUME NEW r \in Runners, RunStep(r) PROVE TypeOK'
  <2>1. CASE AlreadyRunning(r) BY <2>1 DEF AlreadyRunning
  <2>2. CASE Merge(r) BY <2>2, MergerBoundsAssumption DEF Merge
  <2>3. CASE MergeFails(r) BY <2>3 DEF MergeFails
  <2>4. CASE SeeCancelled(r) BY <2>4 DEF SeeCancelled
  <2>5. CASE SeeRequest(r) BY <2>5 DEF SeeRequest
  <2>6. CASE stopRunning(r) BY <2>6 DEF stopRunning
  <2>7. CASE Confirm(r) BY <2>7 DEF Confirm
  <2> QED BY <1>2, <2>1, <2>2, <2>3, <2>4, <2>5, <2>6, <2>7 DEF RunStep
<1>3. ASSUME NEW s \in Stoppers, StartStop(s) \/ StopStep(s) PROVE TypeOK'
  BY <1>3 DEF StartStop, StopStep, NotRunning, LockStop, Send, SeeStopped
<1>4. ASSUME NEW k \in Cleaners, StartCleanUp(k) \/ CleanUpStep(k) PROVE TypeOK'
  <2>1. CASE StartCleanUp(k) \/ StillRunning(k) BY <2>1 DEF StartCleanUp, StillRunning
  <2>2. CASE Unmerge(k) BY <2>2, MergerBoundsAssumption DEF Unmerge
  <2> QED BY <1>4, <2>1, <2>2 DEF CleanUpStep
<1>5. CASE UNCHANGED vars
  BY <1>5 DEF vars
<1> QED
  BY <1>1, <1>2, <1>3, <1>4, <1>5 DEF Next

\* Every step keeps the invariant.  The steps that matter are Merge, which finds
\* no Run blocking because running is FALSE, stopRunning, which ends the only
\* one, and Unmerge, which finds none.
LEMMA SafeNext == Safe /\ [Next]_vars => Safe'
<1> SUFFICES ASSUME Safe, [Next]_vars PROVE Safe'
  OBVIOUS
<1> USE DEF Safe
<1>1. TypeOK'
  BY TypeNext
<1>2. /\ \A r \in Runners : r \notin Stoppers /\ r \notin Cleaners /\ r \in Goroutines
      /\ pc \in [Goroutines -> Places]
      /\ mounts \in Nat
      /\ running \in BOOLEAN
  BY GoroutinesAssumption, MergerBoundsAssumption DEF Goroutines, TypeOK
<1>3. ASSUME NEW r \in Runners, StartRun(r) \/ Cancel(r) \/ RunStep(r)
      PROVE  OneRun' /\ MergedWhileRunning'
  <2>1. CASE Merge(r)
    <3>1. \A q \in Runners : pc'[q] \in Blocked <=> q = r
      BY <1>2, <2>1 DEF Merge, Locked, Moves, Blocked, OneRun
    <3>2. running' /\ mounts' > 0
      BY <1>2, <2>1 DEF Merge
    <3> QED
      BY <3>1, <3>2 DEF OneRun, MergedWhileRunning
  <2>2. CASE stopRunning(r)
    <3>1. pc[r] \in Blocked /\ pc' = [pc EXCEPT ![r] = pc'[r]] /\ pc'[r] \notin Blocked
      BY <1>2, <2>2 DEF stopRunning, Locked, Moves, Blocked
    <3>2. \A q \in Runners : pc'[q] \notin Blocked
      BY <1>2, <3>1 DEF OneRun
    <3>3. running' = FALSE
      BY <2>2 DEF stopRunning
    <3> QED
      BY <3>2, <3>3 DEF OneRun, MergedWhileRunning
  <2>3. CASE StartRun(r) \/ AlreadyRunning(r) \/ MergeFails(r) \/ Confirm(r)
    <3>1. SamePlaces
      BY <1>2, <2>3
      DEF SamePlaces, StartRun, AlreadyRunning, MergeFails, Confirm, Locked, Moves, Blocked
    <3>2. UNCHANGED <<running, mounts>>
      BY <2>3 DEF StartRun, AlreadyRunning, MergeFails, Confirm, fields
    <3> QED
      BY <3>1, <3>2, NeitherInNorOut
  <2>4. CASE SeeCancelled(r) \/ SeeRequest(r)
    <3>1. SamePlaces
      BY <1>2, <2>4 DEF SamePlaces, SeeCancelled, SeeRequest, Moves, Blocked
    <3>2. UNCHANGED <<running, mounts>>
      BY <2>4 DEF SeeCancelled, SeeRequest, fields
    <3> QED
      BY <3>1, <3>2, NeitherInNorOut
  <2>5. CASE Cancel(r)
    BY <2>5, NeitherInNorOut DEF Cancel, SamePlaces, fields
  <2> QED
    BY <1>3, <2>1, <2>2, <2>3, <2>4, <2>5 DEF RunStep
<1>4. ASSUME NEW s \in Stoppers, StartStop(s) \/ StopStep(s)
      PROVE  OneRun' /\ MergedWhileRunning'
  <2>1. PICK to \in Places : pc' = [pc EXCEPT ![s] = to]
    BY <1>4
    DEF StartStop, StopStep, NotRunning, LockStop, Send, SeeStopped, Locked, Moves, Places
  <2>2. SamePlaces
    BY <1>2, <2>1 DEF SamePlaces
  <2>3. UNCHANGED <<running, mounts>>
    BY <1>4 DEF StartStop, StopStep, NotRunning, LockStop, Send, SeeStopped, fields
  <2> QED
    BY <2>2, <2>3, NeitherInNorOut
<1>5. ASSUME NEW k \in Cleaners, StartCleanUp(k) \/ CleanUpStep(k)
      PROVE  OneRun' /\ MergedWhileRunning'
  <2>1. PICK to \in Places : pc' = [pc EXCEPT ![k] = to]
    BY <1>5 DEF StartCleanUp, CleanUpStep, StillRunning, Unmerge, Locked, Moves, Places
  <2>2. SamePlaces
    BY <1>2, <2>1 DEF SamePlaces
  <2>3. CASE Unmerge(k)
    <3>1. \A r \in Runners : pc'[r] \notin Blocked
      BY <2>2, <2>3 DEF SamePlaces, Unmerge, OneRun
    <3>2. running' = FALSE
      BY <1>2, <2>3 DEF Unmerge, fields
    <3> QED
      BY <3>1, <3>2 DEF OneRun, MergedWhileRunning
  <2>4. CASE StartCleanUp(k) \/ StillRunning(k)
    <3>1. UNCHANGED <<running, mounts>>
      BY <2>4 DEF StartCleanUp, StillRunning, fields
    <3> QED
      BY <2>2, <3>1, NeitherInNorOut
  <2> QED
    BY <1>5, <2>3, <2>4 DEF CleanUpStep
<1>6. CASE UNCHANGED vars
  BY <1>1, <1>6, NeitherInNorOut DEF vars, fields, SamePlaces
<1> QED
  BY <1>1, <1>3, <1>4, <1>5, <1>6 DEF Next

\* The invariant holds in every reachable state.
LEMMA SafeAlways == Spec => []Safe
BY SafeInit, SafeNext, PTL DEF Spec

\* Channels and the mutex stay within what Go gives them (Run, Stop, CleanUp).
THEOREM MergerTypes == Spec => []TypeOK
<1>1. Safe => TypeOK
  BY DEF Safe
<1> QED
  BY SafeAlways, <1>1, PTL

\* However many goroutines call Run, Stop and CleanUp, one Run blocks at a time
\* and running says whether one does (Run, stopRunning).
THEOREM RunsExclude == Spec => []OneRun
<1>1. Safe => OneRun
  BY DEF Safe
<1> QED
  BY SafeAlways, <1>1, PTL

\* However many goroutines call CleanUp, none takes the union mount away from a
\* Run that blocks (CleanUp).
THEOREM MountKept == Spec => []MergedWhileRunning
<1>1. Safe => MergedWhileRunning
  BY DEF Safe
<1> QED
  BY SafeAlways, <1>1, PTL

-----------------------------------------------------------------------------
(* Requests to stop, when one goroutine at a time asks *)

\* A Run that has taken a request and not confirmed it yet.
Handing == {"stopByRequest", "confirm"}

Waited == \E s \in Stoppers : pc[s] = "wait"

\* A request and its confirmation are handed over once: as long as the Stop waits,
\* either the request is in the channel and the Run it is meant for still blocks,
\* or one Run has taken it, or the confirmation is in the channel.
Handover ==
  /\ \A r \in Runners : pc[r] # "stopByContext"
  /\ \A s \in Stoppers : pc[s] = "send" => running /\ mu = s
  /\ \A r, q \in Runners : pc[r] \in Handing /\ pc[q] \in Handing => r = q
  /\ manualStop = 1 => running /\ Waited /\ stopped = 0 /\ \A r \in Runners : pc[r] \notin Handing
  /\ \A r \in Runners : pc[r] \in Handing => Waited /\ stopped = 0
  /\ stopped = 1 => Waited

\* A Run's step, with no context cancelled, passes the request on.
LEMMA RunHandsOver ==
  ASSUME Safe, Handover, Alone, NEW r \in Runners, StartRun(r) \/ Cancel(r) \/ RunStep(r)
  PROVE  Handover'
<1>1. /\ pc \in [Goroutines -> Places] /\ r \in Goroutines /\ Nobody \notin Stoppers
      /\ \A s \in Stoppers : s # r /\ s \in Goroutines
      /\ manualStop \in {0, 1} /\ stopped \in {0, 1}
  BY GoroutinesAssumption DEF Safe, TypeOK, Goroutines
<1>2. CASE Cancel(r)
  BY <1>2 DEF Cancel, fields, Handover, Waited
<1>3. ASSUME NEW to \in Places \ {"stopByContext"}, pc' = [pc EXCEPT ![r] = to]
      PROVE  /\ \A s \in Stoppers : pc'[s] = pc[s]
             /\ Waited' <=> Waited
             /\ pc'[r] = to /\ \A q \in Runners \ {r} : pc'[q] = pc[q]
  BY <1>1, <1>3 DEF Waited, Goroutines
<1>4. "idle" \in Places /\ "run" \in Places /\ "select" \in Places /\ "stopByRequest" \in Places
      /\ "confirm" \in Places
  BY DEF Places, Blocked
<1>5. CASE StartRun(r) \/ AlreadyRunning(r) \/ MergeFails(r)
  <2>1. UNCHANGED fields /\ \E to \in {"run", "idle"} : pc' = [pc EXCEPT ![r] = to]
    BY <1>5 DEF StartRun, AlreadyRunning, MergeFails, Moves, Locked
  <2>2. /\ \A s \in Stoppers : pc'[s] = pc[s]
        /\ Waited' <=> Waited
        /\ pc'[r] \in {"run", "idle"} /\ \A q \in Runners \ {r} : pc'[q] = pc[q]
    BY <1>3, <1>4, <2>1
  <2> QED
    BY <2>1, <2>2 DEF fields, Handover, Handing
<1>6. CASE Merge(r)
  BY <1>1, <1>3, <1>4, <1>6 DEF Merge, Moves, Locked, Handover, Handing
<1>7. ~ SeeCancelled(r)
  BY DEF SeeCancelled, Alone
<1>8. CASE SeeRequest(r)
  <2>1. /\ pc' = [pc EXCEPT ![r] = "stopByRequest"]
        /\ manualStop = 1 /\ manualStop' = 0 /\ UNCHANGED <<mu, running, stopped>>
    BY <1>8 DEF SeeRequest, Moves
  <2>2. /\ \A s \in Stoppers : pc'[s] = pc[s]
        /\ Waited' <=> Waited
        /\ pc'[r] = "stopByRequest" /\ \A q \in Runners \ {r} : pc'[q] = pc[q]
    BY <1>3, <1>4, <2>1
  <2>3. Waited /\ stopped = 0 /\ \A q \in Runners : pc[q] \notin Handing
    BY <2>1 DEF Handover
  <2> QED
    BY <2>1, <2>2, <2>3 DEF Handover, Handing
<1>9. CASE stopRunning(r)
  BY <1>1, <1>3, <1>4, <1>9 DEF stopRunning, Moves, Locked, Handover, Handing
<1>10. CASE Confirm(r)
  BY <1>1, <1>3, <1>4, <1>10 DEF Confirm, Moves, Handover, Handing
<1> QED
  BY <1>2, <1>5, <1>6, <1>7, <1>8, <1>9, <1>10 DEF RunStep

\* Nobody else being in Stop, a Stop finds both channels empty.
LEMMA StopHandsOver ==
  ASSUME Safe, Handover, Alone, NEW s \in Stoppers, StartStop(s) \/ StopStep(s)
  PROVE  Handover'
<1>1. /\ pc \in [Goroutines -> Places] /\ s \in Goroutines /\ Nobody \notin Stoppers
      /\ \A r \in Runners : s # r /\ r \in Goroutines
      /\ manualStop \in {0, 1} /\ stopped \in {0, 1}
  BY GoroutinesAssumption DEF Safe, TypeOK, Goroutines
<1>2. ASSUME NEW to, pc' = [pc EXCEPT ![s] = to]
      PROVE  /\ \A r \in Runners : pc'[r] = pc[r]
             /\ pc'[s] = to /\ \A t \in Stoppers \ {s} : pc'[t] = pc[t]
  BY <1>1, <1>2 DEF Goroutines
<1>3. pc[s] # "idle" => \A t \in Stoppers \ {s} : pc[t] = "idle"
  BY DEF Alone
<1>4. CASE StartStop(s) \/ NotRunning(s)
  BY <1>1, <1>2, <1>4 DEF StartStop, NotRunning, Moves, Locked, fields, Handover, Waited
<1>5. CASE LockStop(s)
  BY <1>1, <1>2, <1>3, <1>5 DEF LockStop, Moves, Locked, Handover, Waited
<1>6. CASE Send(s)
  BY <1>1, <1>2, <1>3, <1>6 DEF Send, Moves, Handover, Waited
<1>7. CASE SeeStopped(s)
  BY <1>1, <1>2, <1>3, <1>7 DEF SeeStopped, Moves, Handover, Waited
<1> QED
  BY <1>4, <1>5, <1>6, <1>7 DEF StopStep

\* Every step keeps the handover.
LEMMA HandoverNext == Safe /\ Handover /\ Alone /\ [Next]_vars => Handover'
<1> SUFFICES ASSUME Safe, Handover, Alone, [Next]_vars PROVE Handover'
  OBVIOUS
<1>1. ASSUME NEW k \in Cleaners, StartCleanUp(k) \/ CleanUpStep(k) PROVE Handover'
  <2>1. \A g \in Runners \cup Stoppers : g # k /\ g \in Goroutines
    BY GoroutinesAssumption DEF Goroutines
  <2>2. PICK to \in Places : pc' = [pc EXCEPT ![k] = to]
    BY <1>1 DEF StartCleanUp, CleanUpStep, StillRunning, Unmerge, Locked, Moves, Places
  <2>3. \A g \in Runners \cup Stoppers : pc'[g] = pc[g]
    BY <2>1, <2>2 DEF Safe, TypeOK
  <2>4. UNCHANGED fields
    BY <1>1 DEF StartCleanUp, CleanUpStep, StillRunning, Unmerge
  <2> QED
    BY <2>3, <2>4 DEF fields, Handover, Waited
<1>2. CASE UNCHANGED vars
  BY <1>2 DEF vars, fields, Handover, Waited
<1> QED
  BY <1>1, <1>2, RunHandsOver, StopHandsOver DEF Next

\* As long as no two goroutines stop the merger at the same time and contexts stay
\* alone, no request is left in the channel for the next Run (Stop, Run).
THEOREM NoRequestLeftOver == Spec => NoLeftoverRequest
<1>1. Init => Handover
  <2> SUFFICES ASSUME Init PROVE Handover
    OBVIOUS
  <2>1. \A g \in Runners \cup Stoppers : pc[g] = "idle"
    BY DEF Init, Goroutines
  <2>2. manualStop = 0 /\ stopped = 0
    BY DEF Init
  <2> QED
    BY <2>1, <2>2 DEF Handover, Handing
<1>2. Safe /\ Handover => (~ running => manualStop = 0)
  BY DEF Safe, TypeOK, Handover
<1> QED
  BY <1>1, <1>2, HandoverNext, SafeAlways, PTL DEF Spec, NoLeftoverRequest
=============================================================================
