--------------------------- MODULE BlockingMerger ---------------------------
(***************************************************************************)
(* blockingMerger of gogomergerfs: Run merges the branches and blocks      *)
(* until its context is cancelled or Stop is called; CleanUp unmerges.     *)
(*                                                                         *)
(* Any number of goroutines share one merger.  running is guarded by the   *)
(* mutex mu; a Stop hands its request over on the channel manualStop and   *)
(* waits for the confirmation on the channel stopped, both of capacity 1.  *)
(* A critical section that cannot block is one step; the only wait under   *)
(* the mutex is Stop's send, so that is the only time mu is seen held.     *)
(***************************************************************************)
EXTENDS Naturals, FiniteSets

CONSTANTS
  Runners,    \* goroutines that call Run
  Stoppers,   \* goroutines that call Stop
  Cleaners,   \* goroutines that call CleanUp
  Nobody,     \* holds the mutex when it is free
  Cancels,    \* TRUE: the context of a Run may be cancelled
  MaxMounts   \* bound: mounts stacked on the target

Goroutines == Runners \cup Stoppers \cup Cleaners

ASSUME GoroutinesAssumption ==
  /\ Nobody \notin Goroutines
  /\ Runners \cap Stoppers = {}
  /\ Runners \cap Cleaners = {}
  /\ Stoppers \cap Cleaners = {}

ASSUME MergerBoundsAssumption == Cancels \in BOOLEAN /\ MaxMounts \in Nat \ {0}

VARIABLES
  mu,          \* the goroutine that holds the mutex
  running,     \* the field of the same name
  manualStop,  \* stop requests in the channel
  stopped,     \* confirmations in the channel
  mounts,      \* union mounts stacked on the target
  cancelled,   \* runners whose context is cancelled
  pc           \* where each goroutine is

fields == <<mu, running, manualStop, stopped>>
vars == <<fields, mounts, cancelled, pc>>

\* Between a successful Merge and the end of stopRunning.
Blocked == {"select", "stopByContext", "stopByRequest"}

Places == Blocked \cup {"idle", "run", "confirm", "stop", "send", "wait", "cleanUp"}

\* Every variable keeps its type; no channel holds more than its capacity.
TypeOK ==
  /\ mu \in Stoppers \cup {Nobody}
  /\ running \in BOOLEAN
  /\ manualStop \in 0 .. 1
  /\ stopped \in 0 .. 1
  /\ mounts \in 0 .. MaxMounts
  /\ cancelled \subseteq Runners
  /\ pc \in [Goroutines -> Places]

Init ==
  /\ mu = Nobody
  /\ running = FALSE
  /\ manualStop = 0
  /\ stopped = 0
  /\ mounts = 0
  /\ cancelled = {}
  /\ pc = [g \in Goroutines |-> "idle"]

-----------------------------------------------------------------------------

\* g moves from one place to another.
Moves(g, from, to) == pc[g] = from /\ pc' = [pc EXCEPT ![g] = to]

\* g moves through a critical section it does not block in.
Locked(g, from, to) == mu = Nobody /\ Moves(g, from, to)

(* Run *)

StartRun(r) ==
  /\ Moves(r, "idle", "run")
  /\ cancelled' = cancelled \ {r}
  /\ UNCHANGED <<fields, mounts>>

Cancel(r) ==
  /\ Cancels
  /\ pc[r] # "idle"
  /\ cancelled' = cancelled \cup {r}
  /\ UNCHANGED <<fields, mounts, pc>>

AlreadyRunning(r) ==
  /\ Locked(r, "run", "idle")
  /\ running
  /\ UNCHANGED <<fields, mounts, cancelled>>

\* Mutant of Merge: running is not looked at.
MergeUnchecked(r) ==
  /\ Locked(r, "run", "select")
  /\ mounts < MaxMounts
  /\ mounts' = mounts + 1
  /\ running' = TRUE
  /\ UNCHANGED <<mu, manualStop, stopped, cancelled>>

Merge(r) ==
  /\ Locked(r, "run", "select")
  /\ ~ running
  /\ mounts < MaxMounts
  /\ mounts' = mounts + 1
  /\ running' = TRUE
  /\ UNCHANGED <<mu, manualStop, stopped, cancelled>>

MergeFails(r) ==
  /\ Locked(r, "run", "idle")
  /\ ~ running
  /\ UNCHANGED <<fields, mounts, cancelled>>

\* Mutant of SeeCancelled: Run does not block.
SeeCancelledUnasked(r) ==
  /\ Moves(r, "select", "stopByContext")
  /\ UNCHANGED <<fields, mounts, cancelled>>

\* With both channels ready, select picks either.
SeeCancelled(r) ==
  /\ Moves(r, "select", "stopByContext")
  /\ r \in cancelled
  /\ UNCHANGED <<fields, mounts, cancelled>>

\* Mutant of SeeRequest: the request is peeked at and stays in the channel.
SeeRequestOnly(r) ==
  /\ Moves(r, "select", "stopByRequest")
  /\ manualStop = 1
  /\ UNCHANGED <<fields, mounts, cancelled>>

SeeRequest(r) ==
  /\ Moves(r, "select", "stopByRequest")
  /\ manualStop = 1
  /\ manualStop' = 0
  /\ UNCHANGED <<mu, running, stopped, mounts, cancelled>>

stopRunning(r) ==
  /\ Locked(r, "stopByContext", "idle") \/ Locked(r, "stopByRequest", "confirm")
  /\ running' = FALSE
  /\ UNCHANGED <<mu, manualStop, stopped, mounts, cancelled>>

\* Mutant of Confirm: confirmations pile up instead of waiting for the reader.
ConfirmUnbounded(r) ==
  /\ Moves(r, "confirm", "idle")
  /\ stopped' = stopped + 1
  /\ UNCHANGED <<mu, running, manualStop, mounts, cancelled>>

Confirm(r) ==
  /\ Moves(r, "confirm", "idle")
  /\ stopped = 0
  /\ stopped' = 1
  /\ UNCHANGED <<mu, running, manualStop, mounts, cancelled>>

(* Stop *)

StartStop(s) ==
  /\ Moves(s, "idle", "stop")
  /\ UNCHANGED <<fields, mounts, cancelled>>

NotRunning(s) ==
  /\ Locked(s, "stop", "idle")
  /\ ~ running
  /\ UNCHANGED <<fields, mounts, cancelled>>

\* The mutex is held until the request is in the channel.
LockStop(s) ==
  /\ Locked(s, "stop", "send")
  /\ running
  /\ mu' = s
  /\ UNCHANGED <<running, manualStop, stopped, mounts, cancelled>>

Send(s) ==
  /\ Moves(s, "send", "wait")
  /\ manualStop = 0
  /\ manualStop' = 1
  /\ mu' = Nobody
  /\ UNCHANGED <<running, stopped, mounts, cancelled>>

\* Mutant of SeeStopped: the confirmation is not waited for.
SeeStoppedUnawaited(s) ==
  /\ Moves(s, "wait", "idle")
  /\ UNCHANGED <<fields, mounts, cancelled>>

SeeStopped(s) ==
  /\ Moves(s, "wait", "idle")
  /\ stopped = 1
  /\ stopped' = 0
  /\ UNCHANGED <<mu, running, manualStop, mounts, cancelled>>

(* CleanUp *)

StartCleanUp(k) ==
  /\ Moves(k, "idle", "cleanUp")
  /\ UNCHANGED <<fields, mounts, cancelled>>

StillRunning(k) ==
  /\ Locked(k, "cleanUp", "idle")
  /\ running
  /\ UNCHANGED <<fields, mounts, cancelled>>

\* Mutant of Unmerge: running is not looked at.
UnmergeUnchecked(k) ==
  /\ Locked(k, "cleanUp", "idle")
  /\ mounts > 0
  /\ mounts' = mounts - 1
  /\ UNCHANGED <<fields, cancelled>>

\* A target that is not mounted is fine; one that is busy stays mounted.
Unmerge(k) ==
  /\ Locked(k, "cleanUp", "idle")
  /\ ~ running
  /\ \/ mounts > 0 /\ mounts' = mounts - 1
     \/ UNCHANGED mounts
  /\ UNCHANGED <<fields, cancelled>>

-----------------------------------------------------------------------------

RunStep(r) ==
  \/ AlreadyRunning(r) \/ Merge(r) \/ MergeFails(r)
  \/ SeeCancelled(r) \/ SeeRequest(r) \/ stopRunning(r) \/ Confirm(r)

StopStep(s) == NotRunning(s) \/ LockStop(s) \/ Send(s) \/ SeeStopped(s)

CleanUpStep(k) == StillRunning(k) \/ Unmerge(k)

Next ==
  \/ \E r \in Runners : StartRun(r) \/ Cancel(r) \/ RunStep(r)
  \/ \E s \in Stoppers : StartStop(s) \/ StopStep(s)
  \/ \E k \in Cleaners : StartCleanUp(k) \/ CleanUpStep(k)

Spec == Init /\ [][Next]_vars

(***************************************************************************)
(* A goroutine that can go on does.  Go's mutex starves nobody, hence the  *)
(* strong fairness where a goroutine waits for it.  Nobody is obliged to   *)
(* start a call or to cancel a context.                                    *)
(***************************************************************************)
Fairness ==
  /\ \A r \in Runners : SF_vars(RunStep(r))
  /\ \A s \in Stoppers : SF_vars(StopStep(s))
  /\ \A k \in Cleaners : SF_vars(CleanUpStep(k))

FairSpec == Spec /\ Fairness

-----------------------------------------------------------------------------
(* Properties *)

\* Two Runs never both hold the merge, and running says whether one does: no
\* interleaving of Run and Stop starts a second merge on top of a live one or
\* leaves the merger marked as running for good (Run, stopRunning).
OneRun ==
  /\ \A r, q \in Runners : pc[r] \in Blocked /\ pc[q] \in Blocked => r = q
  /\ running <=> \E r \in Runners : pc[r] \in Blocked

\* While a Run blocks, the union mount is there: no CleanUp of another goroutine
\* takes it away (CleanUp returns without doing anything if running).
MergedWhileRunning == \A r \in Runners : pc[r] \in Blocked => mounts > 0

\* One goroutine at a time is in Stop, and no context is cancelled.
Alone ==
  /\ cancelled = {}
  /\ \A s, t \in Stoppers : pc[s] # "idle" /\ pc[t] # "idle" => s = t

\* As long as no two goroutines stop the merger at the same time and contexts
\* stay alone, the next Run starts without a request meant for an earlier one, so
\* that it blocks until it is stopped itself (Run's doc).
NoLeftoverRequest == []Alone => [](~ running => manualStop = 0)

\* Under the same condition a Stop returns, whatever Runs and CleanUps it meets:
\* no confirmation is lost or left over from an earlier Stop (Stop).  So does the
\* Run that was asked to stop: the channel for its confirmation has room (Run).
LoneStopReturns ==
  []Alone => /\ \A s \in Stoppers : pc[s] = "stop" ~> pc[s] = "idle"
             /\ \A r \in Runners : pc[r] = "stopByRequest" ~> pc[r] = "idle"
=============================================================================
