--------------------------- MODULE WorkspaceLease ---------------------------
(***************************************************************************)
(* The lease of an acquired workspace (workspace/_workspace.py: _LeaseGuard *)
(* and _WorkspaceLease): threads run managed file effects, shared or        *)
(* exclusive, while another thread closes the lease and gives up the        *)
(* workspace lock.                                                          *)
(*                                                                         *)
(* A critical section of the code is one action: a thread that evaluates a  *)
(* wait loop either goes on or falls asleep on the condition, and only a    *)
(* notify_all wakes it.  A call that raises without changing anything is a  *)
(* stuttering step and is left out.                                        *)
(***************************************************************************)
EXTENDS Naturals, FiniteSets

CONSTANTS
    Threads,            \* the threads of the process that holds the lease
    None,               \* no thread
    MaxDepth,           \* bound: how deep one thread nests its effects
    InnerCloseMayRace   \* may an effect call close() while another thread closes?

ASSUME LeaseAssumption ==
    /\ IsFiniteSet(Threads) /\ None \notin Threads
    /\ MaxDepth \in Nat \ {0}
    /\ InnerCloseMayRace \in BOOLEAN

VARIABLES
    active,         \* _active: effects may still be started
    activeEffects,  \* _active_effects
    effectThreads,  \* _effect_threads: effects open per thread
    exclusive,      \* _exclusive_thread, None without _exclusive_active
    waiters,        \* _exclusive_waiters
    releasePending, \* _release_pending
    closing,        \* _WorkspaceLease._closing
    closed,         \* _WorkspaceLease._closed
    locked,         \* the process holds the workspace locks
    pc,             \* what each thread does; "run": its own code or an effect's body
    asleep,         \* threads in a Condition.wait()
    awaited         \* the helper whose effect a thread's own effect waits for

guard == <<active, activeEffects, effectThreads, exclusive, waiters, releasePending>>
lease == <<closing, closed, locked>>
vars == <<guard, lease, pc, asleep, awaited>>

-----------------------------------------------------------------------------
GuardWait == {"begin", "exclusive", "drain"}    \* loops on _condition
Closing == {"guard", "drain", "release", "settle"}

TypeOK ==
    /\ active \in BOOLEAN /\ releasePending \in BOOLEAN
    /\ closing \in BOOLEAN /\ closed \in BOOLEAN /\ locked \in BOOLEAN
    /\ activeEffects \in Nat
    /\ effectThreads \in [Threads -> 0 .. MaxDepth]
    /\ exclusive \in Threads \cup {None}
    /\ waiters \in Nat
    /\ pc \in [Threads -> {"run", "await", "closewait"} \cup GuardWait \cup Closing]
    /\ asleep \subseteq Threads
    /\ awaited \in [Threads -> Threads \cup {None}]

Init ==
    /\ active = TRUE /\ releasePending = TRUE /\ locked = TRUE
    /\ closing = FALSE /\ closed = FALSE
    /\ activeEffects = 0 /\ waiters = 0 /\ exclusive = None
    /\ effectThreads = [t \in Threads |-> 0]
    /\ pc = [t \in Threads |-> "run"]
    /\ asleep = {}
    /\ awaited = [t \in Threads |-> None]

-----------------------------------------------------------------------------
(* Helpers                                                                  *)

InEffect(t) == effectThreads[t] > 0

\* The thread evaluates a wait loop: as it arrives, or once it was woken.
AtLoop(t, p) == pc[t] = p /\ t \notin asleep

\* Sleepers left after notify_all on one of the two conditions.
StillAsleep == {t \in asleep : pc[t] = "closewait"}
StillAsleepClosers == {t \in asleep : pc[t] # "closewait"}

Goto(t, p) == pc' = [pc EXCEPT ![t] = p]

\* Fault: a waiting exclusive effect holds back helpers of a running effect too.
GateDuringEffects(t) ==
    /\ active
    /\ ~InEffect(t)
    /\ exclusive # None \/ waiters > 0

\* Fault: shared effects never let a waiting exclusive effect go first.
NoGate(t) == active /\ ~InEffect(t) /\ exclusive # None

SharedMustWait(t) ==
    /\ active
    /\ ~InEffect(t)
    /\ exclusive # None \/ (waiters > 0 /\ activeEffects = 0)

\* Fault: exclusivity against other exclusive effects only.
ExclusiveIgnoresShared == active /\ exclusive # None

ExclusiveMustWait == active /\ (exclusive # None \/ activeEffects > 0)

\* Effects that waited for t's own effect go on when it ends or is refused.
Resume(t, p) ==
    LET waiting == {u \in Threads : awaited[u] = t}
    IN  /\ pc' = [u \in Threads |-> IF u = t THEN p
                                    ELSE IF u \in waiting THEN "run" ELSE pc[u]]
        /\ awaited' = [u \in Threads |-> IF u \in waiting THEN None ELSE awaited[u]]

-----------------------------------------------------------------------------
(* Shared effects: _begin_effect, _finish_effect                            *)

\* Fault: the loop that admits an effect does not look at _active afterwards.
BeginWithoutActive(t) ==
    /\ pc[t] = "run" \/ AtLoop(t, "begin")
    /\ ~(InEffect(t) /\ exclusive # None)
    /\ ~SharedMustWait(t)
    /\ effectThreads[t] < MaxDepth
    /\ activeEffects' = activeEffects + 1
    /\ effectThreads' = [effectThreads EXCEPT ![t] = @ + 1]
    /\ Goto(t, "run")
    /\ UNCHANGED <<active, exclusive, waiters, releasePending, lease, asleep, awaited>>

BeginEffect(t) ==
    /\ pc[t] = "run" \/ AtLoop(t, "begin")
    /\ ~(InEffect(t) /\ exclusive # None)
    /\ ~SharedMustWait(t)
    /\ active
    /\ effectThreads[t] < MaxDepth
    /\ activeEffects' = activeEffects + 1
    /\ effectThreads' = [effectThreads EXCEPT ![t] = @ + 1]
    /\ Goto(t, "run")
    /\ UNCHANGED <<active, exclusive, waiters, releasePending, lease, asleep, awaited>>

BeginWaits(t) ==
    /\ pc[t] = "run" \/ AtLoop(t, "begin")
    /\ SharedMustWait(t)
    /\ Goto(t, "begin")
    /\ asleep' = asleep \cup {t}
    /\ UNCHANGED <<guard, lease, awaited>>

\* The lease was closed while the thread waited, or os.dup fails.
BeginFails(t) ==
    /\ AtLoop(t, "begin")
    /\ ~SharedMustWait(t)
    /\ Resume(t, "run")
    /\ UNCHANGED <<guard, lease, asleep>>

\* Fault: only the exclusive waiters' own finally clause notifies.
FinishSilently(t) ==
    /\ pc[t] = "run"
    /\ InEffect(t) /\ exclusive # t
    /\ activeEffects' = activeEffects - 1
    /\ effectThreads' = [effectThreads EXCEPT ![t] = @ - 1]
    /\ IF effectThreads[t] = 1 THEN Resume(t, "run") ELSE UNCHANGED <<pc, awaited>>
    /\ UNCHANGED <<active, exclusive, waiters, releasePending, lease, asleep>>

FinishEffect(t) ==
    /\ pc[t] = "run"
    /\ InEffect(t) /\ exclusive # t
    /\ activeEffects' = activeEffects - 1
    /\ effectThreads' = [effectThreads EXCEPT ![t] = @ - 1]
    /\ asleep' = IF activeEffects = 1 THEN StillAsleep ELSE asleep
    /\ IF effectThreads[t] = 1 THEN Resume(t, "run") ELSE UNCHANGED <<pc, awaited>>
    /\ UNCHANGED <<active, exclusive, waiters, releasePending, lease>>

\* An effect's body hands work to another thread and waits for its effect.
Delegate(t, u) ==
    /\ pc[t] = "run" /\ InEffect(t) /\ exclusive # t
    /\ pc[u] = "run" /\ ~InEffect(u)
    /\ pc' = [pc EXCEPT ![t] = "await", ![u] = "begin"]
    /\ awaited' = [awaited EXCEPT ![t] = u]
    /\ UNCHANGED <<guard, lease, asleep>>

-----------------------------------------------------------------------------
(* Exclusive effects: _begin_exclusive_effect, _finish_exclusive_effect.    *)
(* `others` counts the exclusive waiters besides this thread.               *)

EnterExclusive(t, others) ==
    /\ exclusive' = t
    /\ activeEffects' = activeEffects + 1
    /\ effectThreads' = [effectThreads EXCEPT ![t] = 1]
    /\ waiters' = others
    /\ asleep' = StillAsleep
    /\ Goto(t, "run")
    /\ UNCHANGED <<active, releasePending, lease, awaited>>

\* os.dup fails, or the lease was closed: the finally clause still notifies.
FailExclusive(t, others) ==
    /\ waiters' = others
    /\ asleep' = StillAsleep
    /\ Goto(t, "run")
    /\ UNCHANGED <<active, activeEffects, effectThreads, exclusive, releasePending, lease, awaited>>

BeginExclusive(t) ==
    /\ pc[t] = "run" /\ ~InEffect(t) /\ active
    /\ IF ExclusiveMustWait
       THEN /\ waiters' = waiters + 1
            /\ asleep' = StillAsleep \cup {t}
            /\ Goto(t, "exclusive")
            /\ UNCHANGED <<active, activeEffects, effectThreads, exclusive, releasePending, lease, awaited>>
       ELSE EnterExclusive(t, waiters) \/ FailExclusive(t, waiters)

ExclusiveWakes(t) ==
    /\ AtLoop(t, "exclusive")
    /\ IF ExclusiveMustWait
       THEN asleep' = asleep \cup {t} /\ UNCHANGED <<guard, lease, pc, awaited>>
       ELSE \/ active /\ EnterExclusive(t, waiters - 1)
            \/ FailExclusive(t, waiters - 1)

FinishExclusive(t) ==
    /\ pc[t] = "run" /\ exclusive = t
    /\ activeEffects' = activeEffects - 1
    /\ effectThreads' = [effectThreads EXCEPT ![t] = 0]
    /\ exclusive' = None
    /\ asleep' = StillAsleep
    /\ UNCHANGED <<active, waiters, releasePending, lease, pc, awaited>>

-----------------------------------------------------------------------------
(* Closing: _WorkspaceLease.close around _LeaseGuard.close                  *)

CloseWaits(t) ==
    /\ pc[t] = "run" \/ AtLoop(t, "closewait")
    /\ closing /\ ~closed
    /\ InEffect(t) => InnerCloseMayRace
    /\ Goto(t, "closewait")
    /\ asleep' = asleep \cup {t}
    /\ UNCHANGED <<guard, lease, awaited>>

CloseReturns(t) ==
    /\ AtLoop(t, "closewait")
    /\ closed
    /\ Goto(t, "run")
    /\ UNCHANGED <<guard, lease, asleep, awaited>>

CloseBegins(t) ==
    /\ pc[t] = "run" \/ AtLoop(t, "closewait")
    /\ ~closing /\ ~closed
    /\ closing' = TRUE
    /\ Goto(t, "guard")
    /\ UNCHANGED <<guard, closed, locked, asleep, awaited>>

\* close() raises before it owned the release: the lease can be closed again.
GiveUpClosing(t) ==
    /\ closing' = FALSE
    /\ asleep' = StillAsleepClosers \ {t}
    /\ Goto(t, "run")
    /\ UNCHANGED <<guard, closed, locked, awaited>>

CloseRefused(t) == pc[t] = "guard" /\ InEffect(t) /\ GiveUpClosing(t)

TakeRelease(t) ==
    /\ releasePending' = FALSE
    /\ Goto(t, IF releasePending THEN "release" ELSE "settle")
    /\ UNCHANGED <<activeEffects, effectThreads, exclusive, waiters, lease, awaited>>

\* Fault: the guard is closed without waiting for the effects that still run.
CloseWithoutDraining(t) ==
    /\ pc[t] = "guard" /\ ~InEffect(t)
    /\ active' = FALSE
    /\ TakeRelease(t)
    /\ asleep' = IF active THEN StillAsleep ELSE asleep

CloseGuard(t) ==
    /\ pc[t] = "guard" /\ ~InEffect(t)
    /\ active' = FALSE
    /\ LET woken == IF active THEN StillAsleep ELSE asleep
       IN  IF activeEffects > 0
           THEN /\ Goto(t, "drain")
                /\ asleep' = woken \cup {t}
                /\ UNCHANGED <<activeEffects, effectThreads, exclusive, waiters,
                               releasePending, lease, awaited>>
           ELSE TakeRelease(t) /\ asleep' = woken

DrainWakes(t) ==
    /\ AtLoop(t, "drain")
    /\ IF activeEffects > 0
       THEN asleep' = asleep \cup {t} /\ UNCHANGED <<guard, lease, pc, awaited>>
       ELSE TakeRelease(t) /\ UNCHANGED <<active, asleep>>

\* KeyboardInterrupt while close() waits; it may be called again.
InterruptClose(t) == pc[t] = "drain" /\ GiveUpClosing(t)

\* Both flocks are released even when one of the two system calls fails.
ReleaseLock(t) ==
    /\ pc[t] = "release"
    /\ locked' = FALSE
    /\ Goto(t, "settle")
    /\ UNCHANGED <<guard, closing, closed, asleep, awaited>>

SettleClose(t) ==
    /\ pc[t] = "settle"
    /\ closed' = TRUE /\ closing' = FALSE
    /\ asleep' = StillAsleepClosers
    /\ Goto(t, "run")
    /\ UNCHANGED <<guard, locked, awaited>>

-----------------------------------------------------------------------------
\* What a thread does without anyone asking for it anew.
Continue(t) ==
    \/ (pc[t] = "begin" /\ BeginEffect(t)) \/ (pc[t] = "begin" /\ BeginWaits(t)) \/ BeginFails(t)
    \/ ExclusiveWakes(t)
    \/ (pc[t] = "closewait" /\ CloseWaits(t)) \/ CloseReturns(t)
    \/ (pc[t] = "closewait" /\ CloseBegins(t))
    \/ CloseRefused(t) \/ CloseGuard(t) \/ DrainWakes(t) \/ ReleaseLock(t) \/ SettleClose(t)

Step(t) ==
    \/ BeginEffect(t) \/ BeginWaits(t) \/ BeginFails(t) \/ FinishEffect(t)
    \/ \E u \in Threads : Delegate(t, u)
    \/ BeginExclusive(t) \/ ExclusiveWakes(t) \/ FinishExclusive(t)
    \/ CloseWaits(t) \/ CloseReturns(t) \/ CloseBegins(t) \/ CloseRefused(t)
    \/ CloseGuard(t) \/ DrainWakes(t) \/ InterruptClose(t)
    \/ ReleaseLock(t) \/ SettleClose(t)

Next == \E t \in Threads : Step(t)

Spec == Init /\ [][Next]_vars

\* A woken or closing thread goes on, and an effect's body comes to its end,
\* at every depth, whatever it calls in between.
Fairness ==
    \A t \in Threads :
        /\ WF_vars(Continue(t))
        /\ SF_vars(FinishExclusive(t))
        /\ \A d \in 1 .. MaxDepth : SF_vars(effectThreads[t] = d /\ FinishEffect(t))

FairSpec == Spec /\ Fairness

-----------------------------------------------------------------------------
(* Properties                                                               *)

(* No effect touches the workspace after its lock was given up, although    *)
(* effects are admitted, nested, delegated and closed by several threads;   *)
(* and a close() that returned has released the lock.                       *)
LockCoversEffects ==
    /\ activeEffects > 0 => locked
    /\ closed => ~locked

(* The exclusive effect (clearing the cache, exchanging the delivery        *)
(* directories) is the only one that runs in the process.                   *)
ExclusiveAlone ==
    exclusive # None =>
        /\ activeEffects = 1
        /\ \A t \in Threads : InEffect(t) <=> t = exclusive

(* Nobody sleeps through the notification meant for it: a thread is asleep  *)
(* only while the condition it waits on still makes it wait.                *)
NoLostWakeup ==
    \A t \in asleep :
        /\ pc[t] = "begin" => SharedMustWait(t)
        /\ pc[t] = "exclusive" => ExclusiveMustWait
        /\ pc[t] = "drain" => activeEffects > 0
        /\ pc[t] = "closewait" => closing /\ ~closed

(* An effect that waits for another thread's effect is served even while an *)
(* exclusive effect is waiting or the lease is being closed.                *)
HelperServed == \A t \in Threads : pc[t] = "await" ~> pc[t] = "run"

(* close() does not wait for ever for the effects that are running.         *)
CloseTerminates == \A t \in Threads : pc[t] = "drain" ~> pc[t] # "drain"

(* Where there are moments without effects, a waiting exclusive effect gets *)
(* its turn, although shared effects keep arriving.                         *)
ExclusiveServed ==
    []<>(activeEffects = 0) => (waiters > 0 ~> (exclusive # None \/ waiters = 0))

(* A close() called inside an effect is refused; it never leaves its thread *)
(* waiting.                                                                 *)
InnerCloseRefused ==
    \A t \in Threads : (pc[t] \in {"guard", "closewait"} /\ InEffect(t)) ~> pc[t] = "run"
=============================================================================
