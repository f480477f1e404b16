---------------------------- MODULE Gogomergerfs ----------------------------
(***************************************************************************)
(* The container of an attach pod: gogomergerfs mergerfs --block, on top   *)
(* of the blockingMerger it runs.                                          *)
(*                                                                         *)
(* The main goroutine calls Run and then CleanUp; a second goroutine turns *)
(* the first SIGTERM into the cancellation of Run's context and the second *)
(* into an immediate exit.  kubelet starts the container again until the   *)
(* pod is deleted and then signals it.  mergerfs' daemon lives in the      *)
(* container and goes with it; a mount that is still there by then stays   *)
(* on the host, dead.                                                      *)
(***************************************************************************)
EXTENDS Naturals, FiniteSets

CONSTANTS
  Faults,   \* TRUE: SIGKILL, a busy mount, mergerfs dying on its own
  Resends   \* TRUE: a process may be signalled at any time, and more than once

ASSUME FaultsAssumption == Faults \in BOOLEAN /\ Resends \in BOOLEAN

VARIABLES
  mu, running, manualStop, stopped, mounts, cancelled, pc,  \* blockingMerger's
  process,   \* what the main goroutine of the container is doing
  signals,   \* signals in the channel of SetupSignalHandler
  taken,     \* signals its goroutine has taken
  daemon,    \* whether mergerfs serves the mount
  inUse,     \* whether somebody on the host holds the mount open
  deleting,  \* whether the pod is being deleted
  forced     \* why a mount had to be left behind, if any was

merger == <<mu, running, manualStop, stopped, mounts, cancelled, pc>>
handler == <<signals, taken>>
filesystem == <<daemon, inUse>>
vars == <<merger, process, handler, filesystem, deleting, forced>>

\* mergerfs does not mount over a mount, dead or alive: MaxMounts is 1.
BM == INSTANCE BlockingMerger WITH
  Runners   <- {"main"},
  Stoppers  <- {},
  Cleaners  <- {"exit"},
  Nobody    <- "nobody",
  Cancels   <- TRUE,
  MaxMounts <- 1

\* Every variable keeps its type, the merger's included; the signal channel
\* never holds more than its capacity (hazard: signals in a row).
TypeOK ==
  /\ BM!TypeOK
  /\ process \in {"down", "boot", "run", "cleanUp"}
  /\ signals \in 0 .. 2
  /\ taken \in 0 .. 1
  /\ daemon \in BOOLEAN
  /\ inUse \in BOOLEAN
  /\ deleting \in BOOLEAN
  /\ forced \in {"no", "signal", "kill", "busy"}

Init ==
  /\ BM!Init
  /\ process = "down"
  /\ signals = 0
  /\ taken = 0
  /\ daemon = FALSE
  /\ inUse = FALSE
  /\ deleting = FALSE
  /\ forced = "no"

-----------------------------------------------------------------------------
(* The process starts and ends *)

\* The pod's restart policy is Always, the default.
Start ==
  /\ process = "down"
  /\ ~ deleting
  /\ process' = "boot"
  /\ UNCHANGED <<merger, handler, filesystem, deleting, forced>>

\* Nothing of the process is left, mergerfs included, but for the mount.
Gone ==
  /\ process' = "down"
  /\ signals' = 0
  /\ taken' = 0
  /\ daemon' = FALSE
  /\ UNCHANGED inUse

\* What a mount that is there at the end has been left behind for.
LeftFor(reason) == forced' = IF mounts' > 0 THEN reason ELSE forced

Dies(reason) ==
  /\ Gone
  /\ mu' = "nobody" /\ running' = FALSE /\ manualStop' = 0 /\ stopped' = 0
  /\ cancelled' = {}
  /\ pc' = [g \in {"main", "exit"} |-> "idle"]
  /\ UNCHANGED mounts
  /\ LeftFor(reason)

(* The main goroutine *)

SetupSignalHandler ==
  /\ process = "boot"
  /\ process' = "run"
  /\ BM!StartRun("main")
  /\ UNCHANGED <<handler, filesystem, deleting, forced>>

\* Mutant of Merge: mergerfs is not waited for, and fails.
MergeUnwaited ==
  /\ process = "run"
  /\ BM!Merge("main")
  /\ UNCHANGED <<process, handler, filesystem, deleting, forced>>

Merge ==
  /\ process = "run"
  /\ BM!Merge("main")
  /\ daemon' = TRUE
  /\ UNCHANGED <<process, handler, inUse, deleting, forced>>

\* An error of Run ends the program; CleanUp is not called.
MergeFails ==
  /\ process = "run"
  /\ BM!MergeFails("main")
  /\ Gone
  /\ UNCHANGED <<deleting, forced>>

SeeCancelled ==
  /\ process = "run"
  /\ BM!SeeCancelled("main")
  /\ UNCHANGED <<process, handler, filesystem, deleting, forced>>

\* Mutant of RunReturns: the program ends without CleanUp.
RunReturnsToExit ==
  /\ process = "run"
  /\ BM!stopRunning("main")
  /\ Gone
  /\ UNCHANGED <<deleting, forced>>

RunReturns ==
  /\ process = "run"
  /\ BM!stopRunning("main")
  /\ process' = "cleanUp"
  /\ UNCHANGED <<handler, filesystem, deleting, forced>>

StartCleanUp ==
  /\ process = "cleanUp"
  /\ BM!StartCleanUp("exit")
  /\ UNCHANGED <<process, handler, filesystem, deleting, forced>>

\* The program ends whether or not CleanUp could unmount; a mount in use stays.
CleanUp ==
  /\ process = "cleanUp"
  /\ BM!Unmerge("exit")
  /\ mounts' > 0 <=> inUse
  /\ Gone
  /\ LeftFor("busy")
  /\ UNCHANGED deleting

(* Signals *)

DeletePod ==
  /\ ~ deleting
  /\ deleting' = TRUE
  /\ UNCHANGED <<merger, process, handler, filesystem, forced>>

\* Mutant of SendSignal: no signal is dropped.
SendSignalUndropped ==
  /\ process # "down"
  /\ (deleting /\ signals + taken = 0) \/ Resends
  /\ signals' = signals + 1
  /\ UNCHANGED <<merger, process, taken, filesystem, deleting, forced>>

\* Before there is a handler a signal ends the process; one that does not fit
\* into the channel is dropped.
SendSignal ==
  /\ process # "down"
  /\ (deleting /\ signals + taken = 0) \/ Resends
  /\ \/ process = "boot" /\ Dies("signal")
     \/ /\ process # "boot"
        /\ signals' = IF signals < 2 THEN signals + 1 ELSE signals
        /\ UNCHANGED <<merger, process, taken, filesystem, forced>>
  /\ UNCHANGED deleting

\* Mutant of FirstSignal: the context is not cancelled.
FirstSignalOnly ==
  /\ signals > 0
  /\ taken = 0
  /\ taken' = 1
  /\ signals' = signals - 1
  /\ UNCHANGED <<merger, process, filesystem, deleting, forced>>

FirstSignal ==
  /\ signals > 0
  /\ taken = 0
  /\ taken' = 1
  /\ signals' = signals - 1
  /\ BM!Cancel("main")
  /\ UNCHANGED <<process, filesystem, deleting, forced>>

SecondSignal ==
  /\ signals > 0
  /\ taken = 1
  /\ Dies("signal")
  /\ UNCHANGED deleting

\* The grace period is over, or the kernel is out of memory.
Kill ==
  /\ Faults
  /\ process # "down"
  /\ Dies("kill")
  /\ UNCHANGED deleting

\* Nobody in the container notices.
DaemonDies ==
  /\ Faults
  /\ daemon
  /\ daemon' = FALSE
  /\ UNCHANGED <<merger, process, handler, inUse, deleting, forced>>

\* A process on the host opens the mount at its own path, and lets it go.
Use ==
  /\ Faults
  /\ inUse' = ~ inUse
  /\ inUse' => daemon
  /\ UNCHANGED <<merger, process, handler, daemon, deleting, forced>>

-----------------------------------------------------------------------------

MainStep ==
  \/ SetupSignalHandler \/ Merge \/ MergeFails
  \/ SeeCancelled \/ RunReturns \/ StartCleanUp \/ CleanUp

Next ==
  \/ Start
  \/ MainStep
  \/ DeletePod \/ SendSignal \/ FirstSignal \/ SecondSignal
  \/ Kill
  \/ DaemonDies
  \/ Use

Spec == Init /\ [][Next]_vars

(***************************************************************************)
(* Both goroutines run, and kubelet signals the container of a deleted pod *)
(* once.  Nothing obliges it to kill the container.                        *)
(***************************************************************************)
Fairness ==
  /\ WF_vars(MainStep)
  /\ WF_vars(FirstSignal)
  /\ WF_vars(deleting /\ signals + taken = 0 /\ SendSignal)

FairSpec == Spec /\ Fairness

-----------------------------------------------------------------------------
(* Properties *)

\* A mount is left behind on the host only if the process was killed, exited at
\* once on a second signal or could not unmount: whenever the first signal
\* comes, before, during or after the merge, it leads to CleanUp (runCommand).
LeftBehindOnlyIfForced == process = "down" /\ mounts > 0 => forced # "no"

\* The container of a deleted pod ends by itself, without being killed, and
\* does not come back (SetupSignalHandler, Run).
SignalEndsProcess == deleting ~> [](process = "down")
=============================================================================
