------------------------- MODULE SignalCoordinator -------------------------
(***************************************************************************)
(* The signals of a live run (runtime/cancellation.py): the lock-free      *)
(* handler on the main thread, the setup worker that wakes the waiters and *)
(* starts the watchdog of the cleanup window, the watchdog itself, the     *)
(* worker of the best-effort cleanup, and the main thread that completes   *)
(* its cleanup and restores the handlers.                                  *)
(*                                                                         *)
(* A handler that interrupts another one always ends the process, so the   *)
(* one frame that matters is the innermost.  The test and the claim of     *)
(* _first_signal are one step: CPython runs handlers at calls and backward *)
(* jumps, and there are none between them.  Left out: handle_signal, which *)
(* only tests call, the dispatcher, which drains a pipe, and clocks,       *)
(* threads or timers that raise.                                           *)
(***************************************************************************)
EXTENDS Naturals

CONSTANTS
    Signals,        \* SIGINT and SIGTERM
    None,
    MaxArrivals     \* bound: how many signals arrive

ASSUME SignalAssumption == None \notin Signals /\ MaxArrivals \in Nat

VARIABLES
    main,           \* where the main thread is, its handlers aside
    installed,      \* the handlers are ours
    masked,         \* the main thread blocks the signals
    arrived,        \* signals the main thread has not handled
    arrivals,       \* how many have arrived
    handler,        \* where the innermost handler is
    mustDispatch,   \* what that handler read of _cleanup_dispatched
    first,          \* _first_signal
    snapshot,       \* the signal in the CancellationSource's snapshot
    window,         \* the cleanup window: "closed", "open", "over"
    setupRequest,   \* a signal is queued for the setup worker
    setup,          \* where the setup worker is
    timer,          \* the timer last created
    visible,        \* _timer holds it
    watchdog,       \* where the timer's callback is
    completed,      \* _completed
    force,          \* _force_requested, and why: "no", "deadline", "repeat"
    dispatched,     \* _cleanup_dispatched
    hardExit,       \* _hard_exit_started
    cleanups,       \* requests queued for the cleanup worker
    cleanup,        \* where the cleanup worker is
    stopping,       \* the workers were told to stop
    waiter,         \* a thread in CancellationToken.wait
    exited          \* the process has ended with this signal's exit code

frame == <<arrived, arrivals, handler, mustDispatch>>
source == <<first, snapshot, window>>
watch == <<setupRequest, setup, timer, visible, watchdog>>
ending == <<force, dispatched, hardExit>>
worker == <<cleanups, cleanup>>
thread == <<main, installed, masked, completed, stopping>>
vars == <<thread, frame, source, watch, ending, worker, waiter, exited>>

-----------------------------------------------------------------------------
Maybe(S) == S \cup {None}

TypeOK ==
    /\ main \in {"new", "work", "cancel", "close", "returned"}
    /\ installed \in BOOLEAN /\ masked \in BOOLEAN /\ completed \in BOOLEAN /\ stopping \in BOOLEAN
    /\ arrived \in SUBSET Signals /\ arrivals \in 0 .. MaxArrivals
    /\ handler \in {"none", "request", "enqueue", "repeat", "dispatch", "exit"}
    /\ mustDispatch \in BOOLEAN
    /\ first \in Maybe(Signals) /\ snapshot \in Maybe(Signals)
    /\ window \in {"closed", "open", "over"}
    /\ setupRequest \in BOOLEAN
    /\ setup \in {"idle", "create", "assign", "start", "recheck", "force", "exit", "stopped"}
    /\ timer \in {"none", "created", "cancelled", "armed", "fired"} /\ visible \in BOOLEAN
    /\ watchdog \in {"none", "force", "exit", "done"}
    /\ force \in {"no", "deadline", "repeat"}
    /\ dispatched \in BOOLEAN /\ hardExit \in BOOLEAN
    /\ cleanups \in 0 .. 2      \* the handler takes no lock and may race with one holder of it
    /\ cleanup \in {"waiting", "running", "ended", "stopped"}
    /\ waiter \in {"idle", "holding", "asleep", "woken"}
    /\ exited \in Maybe(Signals)

Init ==
    /\ main = "new" /\ installed = FALSE /\ masked = FALSE /\ completed = FALSE /\ stopping = FALSE
    /\ arrived = {} /\ arrivals = 0 /\ handler = "none" /\ mustDispatch = FALSE
    /\ first = None /\ snapshot = None /\ window = "closed"
    /\ setupRequest = FALSE /\ setup = "idle" /\ timer = "none" /\ visible = FALSE
    /\ watchdog = "none"
    /\ force = "no" /\ dispatched = FALSE /\ hardExit = FALSE
    /\ cleanups = 0 /\ cleanup = "waiting"
    /\ waiter = "idle" /\ exited = None

-----------------------------------------------------------------------------
(* Helpers                                                                  *)

Alive == exited = None
Cancelled(t) == IF t \in {"created", "armed"} THEN "cancelled" ELSE t

-----------------------------------------------------------------------------
(* The main thread                                                          *)

MainRuns == Alive /\ handler = "none"

\* An installation that fails takes everything back and stops the workers.
Install ==
    /\ MainRuns /\ main = "new"
    /\ main' = "work"
    /\ installed' \in BOOLEAN
    /\ stopping' = ~installed'
    /\ UNCHANGED <<masked, completed, frame, source, watch, ending, worker, waiter, exited>>

\* The publication transaction blocks the signals and unblocks them (live.py).
Mask ==
    /\ MainRuns /\ main = "work"
    /\ masked' = ~masked
    /\ UNCHANGED <<main, installed, completed, stopping, frame, source, watch, ending, worker,
                   waiter, exited>>

CompleteCleanup ==
    /\ MainRuns /\ main = "work" /\ ~masked
    /\ main' = "cancel"
    /\ completed' = TRUE
    /\ UNCHANGED <<installed, masked, stopping, frame, source, watch, ending, worker, waiter, exited>>

CancelWatchdog ==
    /\ MainRuns /\ main = "cancel"
    /\ main' = "close"
    /\ timer' = IF visible THEN Cancelled(timer) ELSE timer
    /\ UNCHANGED <<installed, masked, completed, stopping, frame, source, setupRequest, setup,
                   visible, watchdog, ending, worker, waiter, exited>>

\* Signals that arrive from here on are the previous handlers' business.
Restore ==
    /\ MainRuns /\ main = "close"
    /\ first # None => completed
    /\ main' = "returned"
    /\ installed' = FALSE /\ stopping' = TRUE
    /\ arrived' = {}
    /\ timer' = IF visible THEN Cancelled(timer) ELSE timer
    /\ UNCHANGED <<masked, completed, arrivals, handler, mustDispatch, source, setupRequest, setup,
                   visible, watchdog, ending, worker, waiter, exited>>

\* A handler that cannot be set back leaves ours in place.
RestoreFails ==
    /\ MainRuns /\ main = "close" /\ installed
    /\ main' = "returned"
    /\ UNCHANGED <<installed, masked, completed, stopping, frame, source, watch, ending, worker,
                   waiter, exited>>

-----------------------------------------------------------------------------
(* The handler: _capture_signal and _begin_forced_exit_from_signal          *)

\* The kernel keeps one signal of each number pending.
Arrive(s) ==
    /\ Alive /\ installed
    /\ s \notin arrived /\ arrivals < MaxArrivals
    /\ arrived' = arrived \cup {s} /\ arrivals' = arrivals + 1
    /\ UNCHANGED <<thread, handler, mustDispatch, source, watch, ending, worker, waiter, exited>>

\* Fault: the signal is claimed before it is known to be the first.
ClaimAlways(s) ==
    /\ Alive /\ installed /\ ~masked
    /\ s \in arrived
    /\ arrived' = arrived \ {s}
    /\ first' = s
    /\ handler' = IF first = None THEN "request" ELSE "repeat"
    /\ UNCHANGED <<thread, arrivals, mustDispatch, snapshot, window, watch, ending, worker, waiter,
                   exited>>

Capture(s) ==
    /\ Alive /\ installed /\ ~masked
    /\ s \in arrived
    /\ arrived' = arrived \ {s}
    /\ \/ first = None /\ first' = s /\ handler' = "request"
       \/ first # None /\ first' = first /\ handler' = "repeat"
    /\ UNCHANGED <<thread, arrivals, mustDispatch, snapshot, window, watch, ending, worker, waiter,
                   exited>>

\* _request_from_signal publishes the snapshot with one assignment.
Request ==
    /\ Alive /\ handler = "request"
    /\ snapshot' = first /\ window' = "open"
    /\ handler' = "enqueue"
    /\ UNCHANGED <<thread, arrived, arrivals, mustDispatch, first, watch, ending, worker, waiter,
                   exited>>

Enqueue ==
    /\ Alive /\ handler = "enqueue"
    /\ setupRequest' = TRUE
    /\ handler' = "none"
    /\ UNCHANGED <<thread, arrived, arrivals, mustDispatch, source, setup, timer, visible, watchdog,
                   ending, worker, waiter, exited>>

ForceAtRepeat ==
    /\ Alive /\ handler = "repeat"
    /\ force' = "repeat"
    /\ mustDispatch' = ~dispatched
    /\ handler' = "dispatch"
    /\ UNCHANGED <<thread, arrived, arrivals, source, watch, dispatched, hardExit, worker, waiter,
                   exited>>

DispatchAtRepeat ==
    /\ Alive /\ handler = "dispatch"
    /\ dispatched' = (dispatched \/ mustDispatch)
    /\ cleanups' = IF mustDispatch THEN cleanups + 1 ELSE cleanups
    /\ hardExit' = TRUE
    /\ handler' = "exit"
    /\ UNCHANGED <<thread, arrived, arrivals, mustDispatch, source, watch, force, cleanup, waiter,
                   exited>>

\* The grace given to the cleanup is bounded; the cleanup may have ended or not.
ExitAtRepeat ==
    /\ Alive /\ handler = "exit"
    /\ exited' = first
    /\ UNCHANGED <<thread, frame, source, watch, ending, worker, waiter>>

-----------------------------------------------------------------------------
(* Time, the setup worker and the watchdog                                  *)

WindowEnds ==
    /\ Alive /\ window = "open"
    /\ window' = "over"
    /\ UNCHANGED <<thread, frame, first, snapshot, watch, ending, worker, waiter, exited>>

\* Fault: the waiters are notified without their condition's lock.
NotifyUnlocked ==
    /\ Alive /\ setup = "idle" /\ setupRequest
    /\ setupRequest' = FALSE /\ setup' = "create"
    /\ waiter' = IF waiter = "asleep" THEN "woken" ELSE waiter
    /\ UNCHANGED <<thread, frame, source, timer, visible, watchdog, ending, worker, exited>>

NotifyWaiters ==
    /\ Alive /\ setup = "idle" /\ setupRequest
    /\ waiter # "holding"
    /\ setupRequest' = FALSE /\ setup' = "create"
    /\ waiter' = IF waiter = "asleep" THEN "woken" ELSE waiter
    /\ UNCHANGED <<thread, frame, source, timer, visible, watchdog, ending, worker, exited>>

CreateTimer ==
    /\ Alive /\ setup = "create"
    /\ \/ window = "over" /\ setup' = "force" /\ timer' = timer
       \/ window = "open" /\ setup' = "assign" /\ timer' = "created"
    /\ UNCHANGED <<thread, frame, source, setupRequest, visible, watchdog, ending, worker, waiter,
                   exited>>

\* Creating the timer may have taken the rest of the window, or so much of it
\* that another timer is needed.
AssignTimer ==
    /\ Alive /\ setup = "assign"
    /\ \/ window = "over" /\ setup' = "force" /\ timer' = "cancelled" /\ visible' = visible
       \/ window = "open" /\ setup' = "create" /\ timer' = "cancelled" /\ visible' = visible
       \/ /\ visible' = TRUE
          /\ \/ force = "no" /\ ~completed /\ setup' = "start" /\ timer' = timer
             \/ (force # "no" \/ completed) /\ setup' = "idle" /\ timer' = "cancelled"
    /\ UNCHANGED <<thread, frame, source, setupRequest, watchdog, ending, worker, waiter, exited>>

StartTimer ==
    /\ Alive /\ setup = "start"
    /\ timer' = IF timer = "created" THEN "armed" ELSE timer
    /\ setup' = "recheck"
    /\ UNCHANGED <<thread, frame, source, setupRequest, visible, watchdog, ending, worker, waiter,
                   exited>>

\* Fault: a timer that started too late is cancelled and not replaced.
RecheckGivesUp ==
    /\ Alive /\ setup = "recheck"
    /\ \/ (force # "no" \/ completed) /\ setup' = "idle" /\ timer' = Cancelled(timer)
       \/ window = "over" /\ setup' = "force" /\ timer' = Cancelled(timer)
       \/ setup' = "idle" /\ timer' = Cancelled(timer)
    /\ UNCHANGED <<thread, frame, source, setupRequest, visible, watchdog, ending, worker, waiter,
                   exited>>

RecheckTimer ==
    /\ Alive /\ setup = "recheck"
    /\ \/ (force # "no" \/ completed) /\ setup' = "idle" /\ timer' = Cancelled(timer)
          /\ visible' = visible
       \/ /\ force = "no" /\ ~completed
          /\ \/ window = "over" /\ setup' = "force" /\ timer' = Cancelled(timer)
                /\ visible' = visible
             \/ window = "open" /\ setup' = "create" /\ timer' = Cancelled(timer)
                /\ visible' = FALSE
             \/ window = "open" /\ setup' = "idle" /\ UNCHANGED <<timer, visible>>
    /\ UNCHANGED <<thread, frame, source, setupRequest, watchdog, ending, worker, waiter, exited>>

TimerFires ==
    /\ Alive /\ timer = "armed" /\ window = "over"
    /\ timer' = "fired" /\ watchdog' = "force"
    /\ UNCHANGED <<thread, frame, source, setupRequest, setup, visible, ending, worker, waiter, exited>>

\* Fault: a cleanup that has completed is not asked for.
ForceRegardless ==
    /\ force' = IF force = "no" THEN "deadline" ELSE force
    /\ dispatched' = TRUE
    /\ cleanups' = IF dispatched THEN cleanups ELSE cleanups + 1
    /\ hardExit' = TRUE

\* _begin_forced_exit(force_after_completion=False) under the lock.
BeginForcedExit ==
    /\ ~completed
    /\ force' = IF force = "no" THEN "deadline" ELSE force
    /\ dispatched' = TRUE
    /\ cleanups' = IF dispatched THEN cleanups ELSE cleanups + 1
    /\ hardExit' = TRUE

SetupForces ==
    /\ Alive /\ setup = "force"
    /\ BeginForcedExit
    /\ setup' = IF hardExit THEN "idle" ELSE "exit"
    /\ UNCHANGED <<thread, frame, source, setupRequest, timer, visible, watchdog, cleanup, waiter,
                   exited>>

SetupSpares ==
    /\ Alive /\ setup = "force" /\ completed
    /\ setup' = "idle"
    /\ UNCHANGED <<thread, frame, source, setupRequest, timer, visible, watchdog, ending, worker,
                   waiter, exited>>

WatchdogForces ==
    /\ Alive /\ watchdog = "force"
    /\ BeginForcedExit
    /\ watchdog' = IF hardExit THEN "done" ELSE "exit"
    /\ UNCHANGED <<thread, frame, source, setupRequest, setup, timer, visible, cleanup, waiter,
                   exited>>

WatchdogSpares ==
    /\ Alive /\ watchdog = "force" /\ completed
    /\ watchdog' = "done"
    /\ UNCHANGED <<thread, frame, source, setupRequest, setup, timer, visible, ending, worker,
                   waiter, exited>>

ExitAtDeadline ==
    /\ Alive /\ "exit" \in {setup, watchdog}
    /\ exited' = first
    /\ UNCHANGED <<thread, frame, source, watch, ending, worker, waiter>>

SetupStops ==
    /\ Alive /\ setup = "idle" /\ ~setupRequest /\ stopping
    /\ setup' = "stopped"
    /\ UNCHANGED <<thread, frame, source, setupRequest, timer, visible, watchdog, ending, worker,
                   waiter, exited>>

-----------------------------------------------------------------------------
(* The cleanup worker and a thread that waits for the token                 *)

CleanupBegins ==
    /\ Alive /\ cleanup = "waiting" /\ cleanups > 0
    /\ cleanup' = "running" /\ cleanups' = cleanups - 1
    /\ UNCHANGED <<thread, frame, source, watch, ending, waiter, exited>>

CleanupEnds ==
    /\ Alive /\ cleanup = "running"
    /\ cleanup' = "ended"
    /\ UNCHANGED <<thread, frame, source, watch, ending, cleanups, waiter, exited>>

CleanupStops ==
    /\ Alive /\ cleanup = "waiting" /\ cleanups = 0 /\ stopping /\ ~dispatched
    /\ cleanup' = "stopped"
    /\ UNCHANGED <<thread, frame, source, watch, ending, cleanups, waiter, exited>>

\* wait() tests the snapshot and goes to sleep under the condition's lock.
WaiterTests ==
    /\ Alive /\ waiter = "idle"
    /\ waiter' = IF snapshot = None THEN "holding" ELSE "woken"
    /\ UNCHANGED <<thread, frame, source, watch, ending, worker, exited>>

WaiterSleeps ==
    /\ Alive /\ waiter = "holding"
    /\ waiter' = "asleep"
    /\ UNCHANGED <<thread, frame, source, watch, ending, worker, exited>>

WaiterTimesOut ==
    /\ Alive /\ waiter = "asleep"
    /\ waiter' = "idle"
    /\ UNCHANGED <<thread, frame, source, watch, ending, worker, exited>>

-----------------------------------------------------------------------------
Main == Install \/ Mask \/ CompleteCleanup \/ CancelWatchdog \/ Restore \/ RestoreFails

Handler ==
    \/ \E s \in Signals : Capture(s)
    \/ Request \/ Enqueue \/ ForceAtRepeat \/ DispatchAtRepeat \/ ExitAtRepeat

Setup ==
    \/ NotifyWaiters \/ CreateTimer \/ AssignTimer \/ StartTimer \/ RecheckTimer
    \/ SetupForces \/ SetupSpares \/ SetupStops

Watchdog == TimerFires \/ WatchdogForces \/ WatchdogSpares

Cleanup == CleanupBegins \/ CleanupEnds \/ CleanupStops

Waiter == WaiterTests \/ WaiterSleeps \/ WaiterTimesOut

Next ==
    \/ Main \/ Handler \/ Setup \/ Watchdog \/ ExitAtDeadline \/ Cleanup \/ Waiter \/ WindowEnds
    \/ \E s \in Signals : Arrive(s)

Spec == Init /\ [][Next]_vars

\* Threads are scheduled and time passes.  The work of the run and the
\* best-effort cleanup need not end; a thread that tests the token goes to sleep.
Fairness ==
    /\ WF_vars(Handler) /\ WF_vars(Setup) /\ WF_vars(Watchdog) /\ WF_vars(ExitAtDeadline)
    /\ WF_vars(WindowEnds) /\ WF_vars(WaiterSleeps)
    /\ WF_vars(CancelWatchdog) /\ WF_vars(Restore \/ RestoreFails)

FairSpec == Spec /\ Fairness

-----------------------------------------------------------------------------
(* Properties                                                               *)

(* Whoever ends the process, a repeated signal at any instant or the        *)
(* watchdog, the exit code is that of the signal the run was cancelled by.  *)
ExitCodeTruthful ==
    exited # None => exited = first /\ snapshot \in {None, exited}

(* The cleanup window is bounded (spec 7.4): after the first signal the     *)
(* cleanup completes or the process ends, though the work may hang and the  *)
(* timer be created and started late.                                       *)
WindowBounded == snapshot # None ~> completed \/ exited # None

(* A run whose cleanup completed in time is not killed by its own watchdog, *)
(* however close: it returns, unless a repeated signal was handled.         *)
CompletedRunReturns ==
    completed /\ force = "no" ~> main = "returned" \/ force = "repeat"

(* A thread that waits for a retry delay when the signal arrives is woken.  *)
WaiterWakes == snapshot # None ~> waiter \notin {"holding", "asleep"} \/ exited # None
=============================================================================
