---------------------- MODULE SignalCoordinatorProofs ----------------------
(***************************************************************************)
(* For any signals and any number of arrivals: whatever ends the process   *)
(* ends it with the exit code of the signal that cancelled the run, and at *)
(* most two cleanups are ever asked for.                                   *)
(***************************************************************************)
EXTENDS SignalCoordinator, TLAPS

-----------------------------------------------------------------------------
(* The inductive invariant                                                  *)

\* Once there is a first signal it stays, and the snapshot is of it.
FirstInv ==
    /\ snapshot \in {None, first}
    /\ handler # "none" => first # None
    /\ handler = "request" => snapshot = None
    /\ handler = "enqueue" => snapshot = first

\* Everything that may end the process was started by the snapshot.
CauseInv ==
    /\ snapshot = None =>
          /\ ~setupRequest /\ setup \in {"idle", "stopped"}
          /\ timer = "none" /\ watchdog = "none" /\ window = "closed"
    /\ exited # None => exited = first

\* The lock holders ask once, and the handler asks only if nobody had when it
\* looked; so a handler that is about to ask finds at most one request.
DispatchInv ==
    /\ ~dispatched => cleanups = 0
    /\ handler = "dispatch" /\ mustDispatch => cleanups \in {0, 1}

CoordinatorInv == TypeOK /\ FirstInv /\ CauseInv /\ DispatchInv

(* A coordinator that was just created satisfies it.                        *)
LEMMA InitCoordinatorInv == Init => CoordinatorInv
<1> SUFFICES ASSUME Init PROVE CoordinatorInv
    OBVIOUS
<1>1. TypeOK
  <2>1. first \in Maybe(Signals) /\ snapshot \in Maybe(Signals) /\ exited \in Maybe(Signals)
      BY DEF Init, Maybe
  <2>2. arrivals \in 0 .. MaxArrivals /\ cleanups \in 0 .. 2
      BY SignalAssumption DEF Init
  <2> QED BY <2>1, <2>2 DEF Init, TypeOK
<1>2. FirstInv /\ CauseInv /\ DispatchInv
    BY DEF Init, FirstInv, CauseInv, DispatchInv
<1> QED BY <1>1, <1>2 DEF CoordinatorInv

(* Every step keeps the types.                                              *)
LEMMA NextCoordinatorTypeOK == CoordinatorInv /\ [Next]_vars => TypeOK'
<1> SUFFICES ASSUME CoordinatorInv, [Next]_vars PROVE TypeOK'
    OBVIOUS
<1> USE SignalAssumption DEF CoordinatorInv, TypeOK, Maybe, thread, frame, source, watch, ending, worker
<1>1. CASE Install
    BY <1>1 DEF Install
<1>2. CASE Mask
    BY <1>2 DEF Mask
<1>3. CASE CompleteCleanup
    BY <1>3 DEF CompleteCleanup
<1>4. CASE CancelWatchdog
    BY <1>4 DEF CancelWatchdog, Cancelled
<1>5. CASE Restore
  <2>1. timer' \in {"none", "created", "cancelled", "armed", "fired"}
      BY <1>5 DEF Restore, Cancelled
  <2>2. main' \in {"new", "work", "cancel", "close", "returned"} /\ arrived' \in SUBSET Signals
      BY <1>5 DEF Restore
  <2>3. installed' \in BOOLEAN /\ stopping' \in BOOLEAN
      BY <1>5 DEF Restore
  <2> QED BY <1>5, <2>1, <2>2, <2>3 DEF Restore
<1>6. CASE RestoreFails
    BY <1>6 DEF RestoreFails
<1>7. CASE Request
    BY <1>7 DEF Request, FirstInv
<1>8. CASE Enqueue
    BY <1>8 DEF Enqueue
<1>9. CASE ForceAtRepeat
    BY <1>9 DEF ForceAtRepeat
<1>10. CASE DispatchAtRepeat
    BY <1>10 DEF DispatchAtRepeat, DispatchInv
<1>11. CASE ExitAtRepeat
    BY <1>11 DEF ExitAtRepeat, FirstInv
<1>12. CASE NotifyWaiters
  <2>1. waiter' \in {"idle", "holding", "asleep", "woken"}
      BY <1>12 DEF NotifyWaiters
  <2>2. setupRequest' \in BOOLEAN /\ setup' \in {"idle", "create", "assign", "start", "recheck", "force", "exit", "stopped"}
      BY <1>12 DEF NotifyWaiters
  <2> QED BY <1>12, <2>1, <2>2 DEF NotifyWaiters
<1>13. CASE CreateTimer
    BY <1>13 DEF CreateTimer
<1>14. CASE AssignTimer
  <2>1. timer' \in {"none", "created", "cancelled", "armed", "fired"}
      BY <1>14 DEF AssignTimer
  <2>2. setup' \in {"idle", "create", "assign", "start", "recheck", "force", "exit", "stopped"}
      BY <1>14 DEF AssignTimer
  <2>3. visible' \in BOOLEAN
      BY <1>14 DEF AssignTimer
  <2> QED BY <1>14, <2>1, <2>2, <2>3 DEF AssignTimer
<1>15. CASE StartTimer
    BY <1>15 DEF StartTimer
<1>16. CASE RecheckTimer
  <2>1. timer' \in {"none", "created", "cancelled", "armed", "fired"}
      BY <1>16 DEF RecheckTimer, Cancelled
  <2>2. setup' \in {"idle", "create", "assign", "start", "recheck", "force", "exit", "stopped"}
      BY <1>16 DEF RecheckTimer
  <2>3. visible' \in BOOLEAN
      BY <1>16 DEF RecheckTimer
  <2> QED BY <1>16, <2>1, <2>2, <2>3 DEF RecheckTimer
<1>17. CASE SetupForces
    BY <1>17 DEF SetupForces, BeginForcedExit, DispatchInv
<1>18. CASE SetupSpares
    BY <1>18 DEF SetupSpares
<1>19. CASE SetupStops
    BY <1>19 DEF SetupStops
<1>20. CASE TimerFires
    BY <1>20 DEF TimerFires
<1>21. CASE WatchdogForces
    BY <1>21 DEF WatchdogForces, BeginForcedExit, DispatchInv
<1>22. CASE WatchdogSpares
    BY <1>22 DEF WatchdogSpares
<1>23. CASE ExitAtDeadline
    BY <1>23 DEF ExitAtDeadline
<1>24. CASE CleanupBegins
    BY <1>24 DEF CleanupBegins
<1>25. CASE CleanupEnds
    BY <1>25 DEF CleanupEnds
<1>26. CASE CleanupStops
    BY <1>26 DEF CleanupStops
<1>27. CASE WaiterTests
    BY <1>27 DEF WaiterTests
<1>28. CASE WaiterSleeps
    BY <1>28 DEF WaiterSleeps
<1>29. CASE WaiterTimesOut
    BY <1>29 DEF WaiterTimesOut
<1>30. CASE WindowEnds
    BY <1>30 DEF WindowEnds
<1>31. ASSUME NEW s \in Signals, Capture(s) PROVE TypeOK'
    BY <1>31 DEF Capture
<1>32. ASSUME NEW s \in Signals, Arrive(s) PROVE TypeOK'
    BY <1>32 DEF Arrive
<1>33. CASE UNCHANGED vars
    BY <1>33 DEF vars
<1> QED BY <1>1, <1>2, <1>3, <1>4, <1>5, <1>6, <1>7, <1>8, <1>9, <1>10, <1>11, <1>12, <1>13,
        <1>14, <1>15, <1>16, <1>17, <1>18, <1>19, <1>20, <1>21, <1>22, <1>23, <1>24, <1>25, <1>26,
        <1>27, <1>28, <1>29, <1>30, <1>31, <1>32, <1>33
    DEF Next, Main, Handler, Setup, Watchdog, Cleanup, Waiter

(* Every step preserves the inductive invariant.                            *)
LEMMA NextCoordinatorInv == CoordinatorInv /\ [Next]_vars => CoordinatorInv'
<1> SUFFICES ASSUME CoordinatorInv, [Next]_vars PROVE FirstInv' /\ CauseInv' /\ DispatchInv'
    BY NextCoordinatorTypeOK DEF CoordinatorInv
<1> USE SignalAssumption DEF CoordinatorInv, TypeOK, FirstInv, CauseInv, DispatchInv, Maybe, Alive,
        MainRuns, thread, frame, source, watch, ending, worker
<1>1. CASE Install
    BY <1>1 DEF Install
<1>2. CASE Mask
    BY <1>2 DEF Mask
<1>3. CASE CompleteCleanup
    BY <1>3 DEF CompleteCleanup
<1>4. CASE CancelWatchdog
    BY <1>4 DEF CancelWatchdog, Cancelled
<1>5. CASE Restore
    BY <1>5 DEF Restore, Cancelled
<1>6. CASE RestoreFails
    BY <1>6 DEF RestoreFails
<1>7. CASE Request
    BY <1>7 DEF Request
<1>8. CASE Enqueue
    BY <1>8 DEF Enqueue
<1>9. CASE ForceAtRepeat
    BY <1>9 DEF ForceAtRepeat
<1>10. CASE DispatchAtRepeat
    BY <1>10 DEF DispatchAtRepeat
<1>11. CASE ExitAtRepeat
    BY <1>11 DEF ExitAtRepeat
<1>12. CASE NotifyWaiters
    BY <1>12 DEF NotifyWaiters
<1>13. CASE CreateTimer
    BY <1>13 DEF CreateTimer
<1>14. CASE AssignTimer
    BY <1>14 DEF AssignTimer
<1>15. CASE StartTimer
    BY <1>15 DEF StartTimer
<1>16. CASE RecheckTimer
    BY <1>16 DEF RecheckTimer, Cancelled
<1>17. CASE SetupForces
    BY <1>17 DEF SetupForces, BeginForcedExit
<1>18. CASE SetupSpares
    BY <1>18 DEF SetupSpares
<1>19. CASE SetupStops
    BY <1>19 DEF SetupStops
<1>20. CASE TimerFires
    BY <1>20 DEF TimerFires
<1>21. CASE WatchdogForces
    BY <1>21 DEF WatchdogForces, BeginForcedExit
<1>22. CASE WatchdogSpares
    BY <1>22 DEF WatchdogSpares
<1>23. CASE ExitAtDeadline
    BY <1>23 DEF ExitAtDeadline
<1>24. CASE CleanupBegins
    BY <1>24 DEF CleanupBegins
<1>25. CASE CleanupEnds
    BY <1>25 DEF CleanupEnds
<1>26. CASE CleanupStops
    BY <1>26 DEF CleanupStops
<1>27. CASE WaiterTests
    BY <1>27 DEF WaiterTests
<1>28. CASE WaiterSleeps
    BY <1>28 DEF WaiterSleeps
<1>29. CASE WaiterTimesOut
    BY <1>29 DEF WaiterTimesOut
<1>30. CASE WindowEnds
    BY <1>30 DEF WindowEnds
<1>31. ASSUME NEW s \in Signals, Capture(s) PROVE FirstInv' /\ CauseInv' /\ DispatchInv'
    BY <1>31 DEF Capture
<1>32. ASSUME NEW s \in Signals, Arrive(s) PROVE FirstInv' /\ CauseInv' /\ DispatchInv'
    BY <1>32 DEF Arrive
<1>33. CASE UNCHANGED vars
    BY <1>33 DEF vars
<1> QED BY <1>1, <1>2, <1>3, <1>4, <1>5, <1>6, <1>7, <1>8, <1>9, <1>10, <1>11, <1>12, <1>13,
        <1>14, <1>15, <1>16, <1>17, <1>18, <1>19, <1>20, <1>21, <1>22, <1>23, <1>24, <1>25, <1>26,
        <1>27, <1>28, <1>29, <1>30, <1>31, <1>32, <1>33
    DEF Next, Main, Handler, Setup, Watchdog, Cleanup, Waiter

(* The invariant holds in every reachable state.                            *)
THEOREM CoordinatorInvariant == Spec => []CoordinatorInv
BY InitCoordinatorInv, NextCoordinatorInv, PTL DEF Spec

-----------------------------------------------------------------------------
(* The properties                                                           *)

(* Types; in particular the cleanup worker is never asked more than twice   *)
(* although the handler takes no lock (cancellation.py,                     *)
(* _begin_forced_exit_from_signal).                                         *)
THEOREM CoordinatorTypeCorrect == Spec => []TypeOK
<1>1. CoordinatorInv => TypeOK
    BY DEF CoordinatorInv
<1> QED BY <1>1, CoordinatorInvariant, PTL

(* The exit code is that of the signal that cancelled the run, whoever ends *)
(* the process (cancellation.py, _capture_signal, _begin_forced_exit).      *)
THEOREM CoordinatorExitCode == Spec => []ExitCodeTruthful
<1>1. CoordinatorInv => ExitCodeTruthful
    BY DEF CoordinatorInv, FirstInv, CauseInv, ExitCodeTruthful
<1> QED BY <1>1, CoordinatorInvariant, PTL

=============================================================================
