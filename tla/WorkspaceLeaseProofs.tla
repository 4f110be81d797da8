------------------------ MODULE WorkspaceLeaseProofs ------------------------
(***************************************************************************)
(* For every number of threads and every depth of nesting: no effect runs   *)
(* after the workspace lock was given up, an exclusive effect is alone, and *)
(* no thread sleeps through the notification meant for it.                  *)
(***************************************************************************)
EXTENDS WorkspaceLease, FiniteSetTheorems, TLAPS

-----------------------------------------------------------------------------
(* The counters of the code and what they count                             *)

\* The effects f[t] opened by each thread t, told apart by their depth.
OpenOf(f) == {e \in Threads \X (1 .. MaxDepth) : e[2] <= f[e[1]]}

WaitingOf(p) == {t \in Threads : p[t] = "exclusive"}

CountInv ==
    /\ activeEffects = Cardinality(OpenOf(effectThreads))
    /\ waiters = Cardinality(WaitingOf(pc))

ControlInv ==
    /\ \A t \in Threads : awaited[t] # None <=> pc[t] = "await"
    /\ \A t \in Threads : pc[t] \in GuardWait \cup {"release", "settle"} => ~InEffect(t)
    /\ \A t \in asleep : pc[t] \in GuardWait \cup {"closewait"}

\* An exclusive effect and the lock exclude what they should.
ExclusionInv ==
    /\ exclusive # None =>
          /\ activeEffects = 1 /\ effectThreads[exclusive] = 1
          /\ \A t \in Threads : t # exclusive => effectThreads[t] = 0
    /\ ~locked => ~active /\ activeEffects = 0
    /\ closed => ~locked

\* One thread closes at a time; from the drained guard on nothing can start.
CloseInv ==
    /\ \A t \in Threads : pc[t] \in Closing => closing
    /\ \A t, u \in Threads : pc[t] \in Closing /\ pc[u] \in Closing => t = u
    /\ \A t \in Threads : pc[t] = "drain" => ~active
    /\ \A t \in Threads : pc[t] \in {"release", "settle"} => ~active /\ activeEffects = 0
    /\ \A t \in Threads : pc[t] = "settle" => ~locked
    /\ ~releasePending => ~locked \/ \E t \in Threads : pc[t] = "release"

LeaseInv ==
    TypeOK /\ CountInv /\ ControlInv /\ ExclusionInv /\ CloseInv /\ NoLostWakeup

-----------------------------------------------------------------------------
(* Lemmas about counting                                                    *)

(* Finitely many threads have finitely many effects open.                   *)
LEMMA OpenIsFinite ==
    ASSUME NEW f
    PROVE  IsFiniteSet(OpenOf(f)) /\ Cardinality(OpenOf(f)) \in Nat
<1>1. IsFiniteSet(1 .. MaxDepth)
    BY LeaseAssumption, FS_Interval
<1>2. IsFiniteSet(Threads \X (1 .. MaxDepth))
    BY <1>1, LeaseAssumption, FS_Product
<1>3. OpenOf(f) \in SUBSET (Threads \X (1 .. MaxDepth))
    BY DEF OpenOf
<1>4. IsFiniteSet(OpenOf(f))
    BY <1>2, <1>3, FS_Subset
<1> QED BY <1>4, FS_CardinalityType

(* The count is zero exactly when no thread has an effect open.             *)
LEMMA OpenEmpty ==
    ASSUME NEW f \in [Threads -> 0 .. MaxDepth]
    PROVE  Cardinality(OpenOf(f)) = 0 <=> \A t \in Threads : f[t] = 0
<1>1. (OpenOf(f) = {}) <=> \A t \in Threads : f[t] = 0
  <2>1. ASSUME OpenOf(f) = {}, NEW t \in Threads PROVE f[t] = 0
    <3>1. f[t] \in 0 .. MaxDepth
        OBVIOUS
    <3>2. CASE f[t] # 0
      <4>1. <<t, f[t]>> \in OpenOf(f)
          BY <3>1, <3>2, LeaseAssumption DEF OpenOf
      <4> QED BY <2>1, <4>1
    <3> QED BY <3>2
  <2>2. ASSUME \A t \in Threads : f[t] = 0, NEW e \in OpenOf(f) PROVE FALSE
    <3>1. e[1] \in Threads /\ e[2] \in 1 .. MaxDepth /\ e[2] <= f[e[1]]
        BY DEF OpenOf
    <3> QED BY <2>2, <3>1
  <2> QED BY <2>1, <2>2
<1> QED BY <1>1, OpenIsFinite, FS_EmptySet

(* Opening one effect counts one more, and ending it one less.              *)
LEMMA OpenGrows ==
    ASSUME NEW f \in [Threads -> 0 .. MaxDepth], NEW g \in [Threads -> 0 .. MaxDepth],
           NEW t \in Threads, g[t] = f[t] + 1, \A u \in Threads : u # t => g[u] = f[u]
    PROVE  Cardinality(OpenOf(g)) = Cardinality(OpenOf(f)) + 1
<1> DEFINE new == <<t, f[t] + 1>>
<1>1. f[t] \in 0 .. MaxDepth /\ f[t] + 1 \in 1 .. MaxDepth
  <2>1. f[t] \in 0 .. MaxDepth /\ g[t] \in 0 .. MaxDepth
      OBVIOUS
  <2> QED BY <2>1, LeaseAssumption
<1>2. new \notin OpenOf(f)
    BY <1>1 DEF OpenOf
<1>3. ASSUME NEW e PROVE e \in OpenOf(g) <=> e \in OpenOf(f) \cup {new}
  <2>1. CASE e \in Threads \X (1 .. MaxDepth)
    <3>1. PICK u \in Threads, k \in 1 .. MaxDepth : e = <<u, k>>
        BY <2>1
    <3>2. (e \in OpenOf(g) <=> k <= g[u]) /\ (e \in OpenOf(f) <=> k <= f[u])
        BY <3>1 DEF OpenOf
    <3>3. CASE u = t
      <4>1. (e = new) <=> (k = f[t] + 1)
          BY <3>1, <3>3
      <4> QED BY <1>1, <3>2, <3>3, <4>1
    <3>4. CASE u # t
      <4>1. g[u] = f[u] /\ e # new
          BY <3>1, <3>4
      <4> QED BY <3>2, <4>1
    <3> QED BY <3>3, <3>4
  <2>2. CASE e \notin Threads \X (1 .. MaxDepth)
      BY <1>1, <2>2 DEF OpenOf
  <2> QED BY <2>1, <2>2
<1>4. OpenOf(g) = OpenOf(f) \cup {new}
    BY <1>3
<1> QED BY <1>2, <1>4, OpenIsFinite, FS_AddElement

(* A thread that starts or stops waiting for exclusivity is counted.        *)
LEMMA WaitingCount ==
    ASSUME NEW p, NEW q, NEW t \in Threads,
           \A u \in Threads : u # t => (p[u] = "exclusive" <=> q[u] = "exclusive")
    PROVE  /\ Cardinality(WaitingOf(p)) \in Nat
           /\ (p[t] = "exclusive" <=> q[t] = "exclusive") =>
                  Cardinality(WaitingOf(q)) = Cardinality(WaitingOf(p))
           /\ p[t] # "exclusive" /\ q[t] = "exclusive" =>
                  Cardinality(WaitingOf(q)) = Cardinality(WaitingOf(p)) + 1
<1>1. IsFiniteSet(WaitingOf(p)) /\ IsFiniteSet(WaitingOf(q))
    BY LeaseAssumption, FS_Subset DEF WaitingOf
<1>2. CASE p[t] = "exclusive" <=> q[t] = "exclusive"
  <2>1. WaitingOf(p) = WaitingOf(q)
      BY <1>2 DEF WaitingOf
  <2> QED BY <1>1, <1>2, <2>1, FS_CardinalityType
<1>3. CASE p[t] # "exclusive" /\ q[t] = "exclusive"
  <2>1. WaitingOf(q) = WaitingOf(p) \cup {t} /\ t \notin WaitingOf(p)
      BY <1>3 DEF WaitingOf
  <2> QED BY <1>1, <1>3, <2>1, FS_CardinalityType, FS_AddElement
<1> QED BY <1>1, <1>2, <1>3, FS_CardinalityType

-----------------------------------------------------------------------------
(* The inductive invariant                                                  *)

(* A lease that was just created satisfies it.                              *)
LEMMA InitLeaseInv == Init => LeaseInv
<1> SUFFICES ASSUME Init PROVE LeaseInv
    OBVIOUS
<1>1. TypeOK
  <2>1. effectThreads \in [Threads -> 0 .. MaxDepth]
      BY LeaseAssumption DEF Init
  <2> QED BY <2>1 DEF Init, TypeOK
<1>2. Cardinality(OpenOf(effectThreads)) = 0
    BY <1>1, OpenEmpty DEF Init, TypeOK
<1>3. WaitingOf(pc) = {}
    BY DEF Init, WaitingOf
<1> QED
    BY <1>1, <1>2, <1>3, FS_EmptySet, LeaseAssumption
    DEF Init, LeaseInv, CountInv, ControlInv, ExclusionInv, CloseInv, NoLostWakeup,
        GuardWait, Closing, InEffect

(* What the counts say about single threads.                                *)
LEMMA CountsRead ==
    ASSUME TypeOK, CountInv
    PROVE  /\ activeEffects = 0 <=> \A t \in Threads : ~InEffect(t)
           /\ \A t \in Threads : pc[t] = "exclusive" => waiters > 0
<1>1. activeEffects = 0 <=> \A t \in Threads : ~InEffect(t)
    BY OpenEmpty, LeaseAssumption DEF TypeOK, CountInv, InEffect
<1>2. ASSUME NEW t \in Threads, pc[t] = "exclusive" PROVE waiters > 0
  <2>1. IsFiniteSet(WaitingOf(pc)) /\ t \in WaitingOf(pc)
      BY <1>2, LeaseAssumption, FS_Subset DEF WaitingOf
  <2>2. Cardinality(WaitingOf(pc)) # 0
      BY <2>1, FS_EmptySet
  <2> QED BY <2>2 DEF TypeOK, CountInv
<1> QED BY <1>1, <1>2

(* Every step keeps the types.                                              *)
LEMMA StepType ==
    ASSUME LeaseInv, NEW t \in Threads, Step(t)
    PROVE  TypeOK'
<1> USE LeaseAssumption DEF LeaseInv, TypeOK, GuardWait, Closing, Goto, guard, lease, InEffect, AtLoop
<1>r. (activeEffects = 0 <=> \A x \in Threads : ~InEffect(x))
      /\ \A x \in Threads : pc[x] = "exclusive" => waiters > 0
    BY CountsRead
<1>1. CASE BeginEffect(t)
    BY <1>r, <1>1 DEF BeginEffect, SharedMustWait
<1>2. CASE BeginWaits(t)
    BY <1>r, <1>2 DEF BeginWaits, SharedMustWait
<1>3. CASE BeginFails(t)
    BY <1>r, <1>3 DEF BeginFails, SharedMustWait, Resume
<1>4. CASE FinishEffect(t)
    BY <1>r, <1>4 DEF FinishEffect, Resume, StillAsleep
<1>5. CASE \E u \in Threads : Delegate(t, u)
    BY <1>r, <1>5 DEF Delegate
<1>6. CASE BeginExclusive(t)
  <2>1. pc[t] = "run" /\ active /\ ~InEffect(t)
      BY <1>6 DEF BeginExclusive
  <2>2. CASE exclusive # None \/ activeEffects > 0
    <3>1. /\ waiters' = waiters + 1 /\ asleep' = StillAsleep \cup {t} /\ Goto(t, "exclusive")
          /\ UNCHANGED <<active, activeEffects, effectThreads, exclusive, releasePending, lease, awaited>>
        BY <1>6, <2>1, <2>2 DEF BeginExclusive, ExclusiveMustWait
    <3> QED BY <1>r, <2>1, <2>2, <3>1 DEF StillAsleep
  <2>3. CASE exclusive = None /\ activeEffects = 0 /\ EnterExclusive(t, waiters)
      BY <1>r, <2>1, <2>3 DEF EnterExclusive, StillAsleep
  <2>4. CASE FailExclusive(t, waiters)
      BY <1>r, <2>1, <2>4 DEF FailExclusive, StillAsleep
  <2>5. \/ ExclusiveMustWait /\ (exclusive # None \/ activeEffects > 0)
        \/ ~ExclusiveMustWait /\ exclusive = None /\ activeEffects = 0
      BY <2>1 DEF ExclusiveMustWait
  <2>6. ~ExclusiveMustWait => EnterExclusive(t, waiters) \/ FailExclusive(t, waiters)
      BY <1>6 DEF BeginExclusive
  <2> QED BY <2>2, <2>3, <2>4, <2>5, <2>6
<1>7. CASE ExclusiveWakes(t)
    BY <1>r, <1>7 DEF ExclusiveWakes, ExclusiveMustWait, EnterExclusive, FailExclusive, StillAsleep
<1>8. CASE FinishExclusive(t)
    BY <1>r, <1>8 DEF FinishExclusive, StillAsleep, ExclusionInv
<1>9. CASE CloseWaits(t)
    BY <1>r, <1>9 DEF CloseWaits
<1>10. CASE CloseReturns(t)
    BY <1>r, <1>10 DEF CloseReturns
<1>11. CASE CloseBegins(t)
    BY <1>r, <1>11 DEF CloseBegins
<1>12. CASE CloseRefused(t)
    BY <1>r, <1>12 DEF CloseRefused, GiveUpClosing, StillAsleepClosers
<1>13. CASE CloseGuard(t)
    BY <1>r, <1>13 DEF CloseGuard, TakeRelease, StillAsleep
<1>14. CASE DrainWakes(t)
    BY <1>r, <1>14 DEF DrainWakes, TakeRelease
<1>15. CASE InterruptClose(t)
    BY <1>r, <1>15 DEF InterruptClose, GiveUpClosing, StillAsleepClosers
<1>16. CASE ReleaseLock(t)
    BY <1>r, <1>16 DEF ReleaseLock
<1>17. CASE SettleClose(t)
    BY <1>r, <1>17 DEF SettleClose, StillAsleepClosers
<1> QED
    BY <1>1, <1>2, <1>3, <1>4, <1>5, <1>6, <1>7, <1>8, <1>9, <1>10, <1>11, <1>12, <1>13, <1>14, <1>15, <1>16, <1>17 DEF Step

(* Every step keeps the control invariant.                                  *)
LEMMA StepControl ==
    ASSUME LeaseInv, NEW t \in Threads, Step(t)
    PROVE  ControlInv'
<1> USE LeaseAssumption DEF LeaseInv, TypeOK, GuardWait, Closing, Goto, guard, lease, InEffect,
        AtLoop, ControlInv
<1>1. CASE BeginEffect(t)
    BY <1>1 DEF BeginEffect, SharedMustWait
<1>2. CASE BeginWaits(t)
    BY <1>2 DEF BeginWaits, SharedMustWait
<1>3. CASE BeginFails(t)
    BY <1>3 DEF BeginFails, SharedMustWait, Resume
<1>4. CASE FinishEffect(t)
    BY <1>4 DEF FinishEffect, Resume, StillAsleep
<1>5. CASE \E u \in Threads : Delegate(t, u)
    BY <1>5 DEF Delegate
<1>6. CASE BeginExclusive(t)
  <2>1. pc[t] = "run" /\ active /\ ~InEffect(t)
      BY <1>6 DEF BeginExclusive
  <2>2. CASE exclusive # None \/ activeEffects > 0
    <3>1. /\ waiters' = waiters + 1 /\ asleep' = StillAsleep \cup {t} /\ Goto(t, "exclusive")
          /\ UNCHANGED <<active, activeEffects, effectThreads, exclusive, releasePending, lease, awaited>>
        BY <1>6, <2>1, <2>2 DEF BeginExclusive, ExclusiveMustWait
    <3> QED BY <2>1, <2>2, <3>1 DEF StillAsleep
  <2>3. CASE exclusive = None /\ activeEffects = 0 /\ EnterExclusive(t, waiters)
      BY <2>1, <2>3 DEF EnterExclusive, StillAsleep
  <2>4. CASE FailExclusive(t, waiters)
      BY <2>1, <2>4 DEF FailExclusive, StillAsleep
  <2>5. \/ ExclusiveMustWait /\ (exclusive # None \/ activeEffects > 0)
        \/ ~ExclusiveMustWait /\ exclusive = None /\ activeEffects = 0
      BY <2>1 DEF ExclusiveMustWait
  <2>6. ~ExclusiveMustWait => EnterExclusive(t, waiters) \/ FailExclusive(t, waiters)
      BY <1>6 DEF BeginExclusive
  <2> QED BY <2>2, <2>3, <2>4, <2>5, <2>6
<1>7. CASE ExclusiveWakes(t)
    BY <1>7 DEF ExclusiveWakes, ExclusiveMustWait, EnterExclusive, FailExclusive, StillAsleep
<1>8. CASE FinishExclusive(t)
    BY <1>8 DEF FinishExclusive, StillAsleep, ExclusionInv
<1>9. CASE CloseWaits(t)
    BY <1>9 DEF CloseWaits
<1>10. CASE CloseReturns(t)
    BY <1>10 DEF CloseReturns
<1>11. CASE CloseBegins(t)
    BY <1>11 DEF CloseBegins
<1>12. CASE CloseRefused(t)
    BY <1>12 DEF CloseRefused, GiveUpClosing, StillAsleepClosers
<1>13. CASE CloseGuard(t)
    BY <1>13 DEF CloseGuard, TakeRelease, StillAsleep
<1>14. CASE DrainWakes(t)
    BY <1>14 DEF DrainWakes, TakeRelease
<1>15. CASE InterruptClose(t)
    BY <1>15 DEF InterruptClose, GiveUpClosing, StillAsleepClosers
<1>16. CASE ReleaseLock(t)
    BY <1>16 DEF ReleaseLock
<1>17. CASE SettleClose(t)
    BY <1>17 DEF SettleClose, StillAsleepClosers
<1> QED
    BY <1>1, <1>2, <1>3, <1>4, <1>5, <1>6, <1>7, <1>8, <1>9, <1>10, <1>11, <1>12, <1>13, <1>14, <1>15, <1>16, <1>17 DEF Step

(* Every step keeps exclusive effects alone and the lock held for effects.  *)
LEMMA StepExclusion ==
    ASSUME LeaseInv, NEW t \in Threads, Step(t)
    PROVE  ExclusionInv'
<1> USE LeaseAssumption DEF LeaseInv, TypeOK, GuardWait, Closing, Goto, guard, lease, InEffect,
        AtLoop, ExclusionInv
<1>r. activeEffects = 0 <=> \A x \in Threads : ~InEffect(x)
    BY CountsRead
<1>1. CASE BeginEffect(t)
    BY <1>r, <1>1 DEF BeginEffect, SharedMustWait, CloseInv, ControlInv
<1>2. CASE BeginWaits(t)
    BY <1>r, <1>2 DEF BeginWaits, SharedMustWait, CloseInv, ControlInv
<1>3. CASE BeginFails(t)
    BY <1>r, <1>3 DEF BeginFails, SharedMustWait, Resume, CloseInv, ControlInv
<1>4. CASE FinishEffect(t)
    BY <1>r, <1>4 DEF FinishEffect, Resume, StillAsleep, CloseInv, ControlInv
<1>5. CASE \E u \in Threads : Delegate(t, u)
    BY <1>r, <1>5 DEF Delegate, CloseInv, ControlInv
<1>6. CASE BeginExclusive(t)
  <2>1. pc[t] = "run" /\ active /\ ~InEffect(t)
      BY <1>6 DEF BeginExclusive
  <2>2. CASE exclusive # None \/ activeEffects > 0
    <3>1. /\ waiters' = waiters + 1 /\ asleep' = StillAsleep \cup {t} /\ Goto(t, "exclusive")
          /\ UNCHANGED <<active, activeEffects, effectThreads, exclusive, releasePending, lease, awaited>>
        BY <1>6, <2>1, <2>2 DEF BeginExclusive, ExclusiveMustWait
    <3> QED BY <1>r, <2>1, <2>2, <3>1 DEF StillAsleep, CloseInv, ControlInv
  <2>3. CASE exclusive = None /\ activeEffects = 0 /\ EnterExclusive(t, waiters)
      BY <1>r, <2>1, <2>3 DEF EnterExclusive, StillAsleep, CloseInv, ControlInv
  <2>4. CASE FailExclusive(t, waiters)
      BY <1>r, <2>1, <2>4 DEF FailExclusive, StillAsleep, CloseInv, ControlInv
  <2>5. \/ ExclusiveMustWait /\ (exclusive # None \/ activeEffects > 0)
        \/ ~ExclusiveMustWait /\ exclusive = None /\ activeEffects = 0
      BY <2>1 DEF ExclusiveMustWait
  <2>6. ~ExclusiveMustWait => EnterExclusive(t, waiters) \/ FailExclusive(t, waiters)
      BY <1>6 DEF BeginExclusive
  <2> QED BY <2>2, <2>3, <2>4, <2>5, <2>6
<1>7. CASE ExclusiveWakes(t)
    BY <1>r, <1>7 DEF ExclusiveWakes, ExclusiveMustWait, EnterExclusive, FailExclusive, StillAsleep, CloseInv, ControlInv
<1>8. CASE FinishExclusive(t)
    BY <1>r, <1>8 DEF FinishExclusive, StillAsleep, CloseInv, ControlInv, ExclusionInv
<1>9. CASE CloseWaits(t)
    BY <1>r, <1>9 DEF CloseWaits, CloseInv, ControlInv
<1>10. CASE CloseReturns(t)
    BY <1>r, <1>10 DEF CloseReturns, CloseInv, ControlInv
<1>11. CASE CloseBegins(t)
    BY <1>r, <1>11 DEF CloseBegins, CloseInv, ControlInv
<1>12. CASE CloseRefused(t)
    BY <1>r, <1>12 DEF CloseRefused, GiveUpClosing, StillAsleepClosers, CloseInv, ControlInv
<1>13. CASE CloseGuard(t)
    BY <1>r, <1>13 DEF CloseGuard, TakeRelease, StillAsleep, CloseInv, ControlInv
<1>14. CASE DrainWakes(t)
    BY <1>r, <1>14 DEF DrainWakes, TakeRelease, CloseInv, ControlInv
<1>15. CASE InterruptClose(t)
    BY <1>r, <1>15 DEF InterruptClose, GiveUpClosing, StillAsleepClosers, CloseInv, ControlInv
<1>16. CASE ReleaseLock(t)
    BY <1>r, <1>16 DEF ReleaseLock, CloseInv, ControlInv
<1>17. CASE SettleClose(t)
    BY <1>r, <1>17 DEF SettleClose, StillAsleepClosers, CloseInv, ControlInv
<1> QED
    BY <1>1, <1>2, <1>3, <1>4, <1>5, <1>6, <1>7, <1>8, <1>9, <1>10, <1>11, <1>12, <1>13, <1>14, <1>15, <1>16, <1>17 DEF Step

(* Every step keeps one closer at a time.                                   *)
LEMMA StepClose ==
    ASSUME LeaseInv, NEW t \in Threads, Step(t)
    PROVE  CloseInv'
<1> USE LeaseAssumption DEF LeaseInv, TypeOK, GuardWait, Closing, Goto, guard, lease, InEffect,
        AtLoop, CloseInv
<1>r. activeEffects = 0 <=> \A x \in Threads : ~InEffect(x)
    BY CountsRead
<1>1. CASE BeginEffect(t)
    BY <1>r, <1>1 DEF BeginEffect, SharedMustWait, ControlInv, ExclusionInv
<1>2. CASE BeginWaits(t)
    BY <1>r, <1>2 DEF BeginWaits, SharedMustWait, ControlInv, ExclusionInv
<1>3. CASE BeginFails(t)
    BY <1>r, <1>3 DEF BeginFails, SharedMustWait, Resume, ControlInv, ExclusionInv
<1>4. CASE FinishEffect(t)
    BY <1>r, <1>4 DEF FinishEffect, Resume, StillAsleep, ControlInv, ExclusionInv
<1>5. CASE \E u \in Threads : Delegate(t, u)
    BY <1>r, <1>5 DEF Delegate, ControlInv, ExclusionInv
<1>6. CASE BeginExclusive(t)
  <2>1. pc[t] = "run" /\ active /\ ~InEffect(t)
      BY <1>6 DEF BeginExclusive
  <2>2. CASE exclusive # None \/ activeEffects > 0
    <3>1. /\ waiters' = waiters + 1 /\ asleep' = StillAsleep \cup {t} /\ Goto(t, "exclusive")
          /\ UNCHANGED <<active, activeEffects, effectThreads, exclusive, releasePending, lease, awaited>>
        BY <1>6, <2>1, <2>2 DEF BeginExclusive, ExclusiveMustWait
    <3> QED BY <1>r, <2>1, <2>2, <3>1 DEF StillAsleep, ControlInv, ExclusionInv
  <2>3. CASE exclusive = None /\ activeEffects = 0 /\ EnterExclusive(t, waiters)
      BY <1>r, <2>1, <2>3 DEF EnterExclusive, StillAsleep, ControlInv, ExclusionInv
  <2>4. CASE FailExclusive(t, waiters)
      BY <1>r, <2>1, <2>4 DEF FailExclusive, StillAsleep, ControlInv, ExclusionInv
  <2>5. \/ ExclusiveMustWait /\ (exclusive # None \/ activeEffects > 0)
        \/ ~ExclusiveMustWait /\ exclusive = None /\ activeEffects = 0
      BY <2>1 DEF ExclusiveMustWait
  <2>6. ~ExclusiveMustWait => EnterExclusive(t, waiters) \/ FailExclusive(t, waiters)
      BY <1>6 DEF BeginExclusive
  <2> QED BY <2>2, <2>3, <2>4, <2>5, <2>6
<1>7. CASE ExclusiveWakes(t)
    BY <1>r, <1>7 DEF ExclusiveWakes, ExclusiveMustWait, EnterExclusive, FailExclusive, StillAsleep, ControlInv, ExclusionInv
<1>8. CASE FinishExclusive(t)
    BY <1>r, <1>8 DEF FinishExclusive, StillAsleep, ControlInv, ExclusionInv
<1>9. CASE CloseWaits(t)
    BY <1>r, <1>9 DEF CloseWaits, ControlInv, ExclusionInv
<1>10. CASE CloseReturns(t)
    BY <1>r, <1>10 DEF CloseReturns, ControlInv, ExclusionInv
<1>11. CASE CloseBegins(t)
    BY <1>r, <1>11 DEF CloseBegins, ControlInv, ExclusionInv
<1>12. CASE CloseRefused(t)
    BY <1>r, <1>12 DEF CloseRefused, GiveUpClosing, StillAsleepClosers, ControlInv, ExclusionInv
<1>13. CASE CloseGuard(t)
    BY <1>r, <1>13 DEF CloseGuard, TakeRelease, StillAsleep, ControlInv, ExclusionInv
<1>14. CASE DrainWakes(t)
    BY <1>r, <1>14 DEF DrainWakes, TakeRelease, ControlInv, ExclusionInv
<1>15. CASE InterruptClose(t)
    BY <1>r, <1>15 DEF InterruptClose, GiveUpClosing, StillAsleepClosers, ControlInv, ExclusionInv
<1>16. CASE ReleaseLock(t)
    BY <1>r, <1>16 DEF ReleaseLock, ControlInv, ExclusionInv
<1>17. CASE SettleClose(t)
    BY <1>r, <1>17 DEF SettleClose, StillAsleepClosers, ControlInv, ExclusionInv
<1> QED
    BY <1>1, <1>2, <1>3, <1>4, <1>5, <1>6, <1>7, <1>8, <1>9, <1>10, <1>11, <1>12, <1>13, <1>14, <1>15, <1>16, <1>17 DEF Step

(* Every step that ends a reason to wait wakes those who wait for it.       *)
LEMMA StepWakes ==
    ASSUME LeaseInv, NEW t \in Threads, Step(t)
    PROVE  NoLostWakeup'
<1> USE LeaseAssumption DEF LeaseInv, TypeOK, GuardWait, Closing, Goto, guard, lease, InEffect,
        AtLoop, NoLostWakeup, SharedMustWait, ExclusiveMustWait
<1>r. (activeEffects = 0 <=> \A x \in Threads : ~InEffect(x))
      /\ \A x \in Threads : pc[x] = "exclusive" => waiters > 0
    BY CountsRead
<1>1. CASE BeginEffect(t)
    BY <1>r, <1>1 DEF BeginEffect, SharedMustWait, ControlInv, ExclusionInv, CloseInv
<1>2. CASE BeginWaits(t)
    BY <1>r, <1>2 DEF BeginWaits, SharedMustWait, ControlInv, ExclusionInv, CloseInv
<1>3. CASE BeginFails(t)
    BY <1>r, <1>3 DEF BeginFails, SharedMustWait, Resume, ControlInv, ExclusionInv, CloseInv
<1>4. CASE FinishEffect(t)
    BY <1>r, <1>4 DEF FinishEffect, Resume, StillAsleep, ControlInv, ExclusionInv, CloseInv
<1>5. CASE \E u \in Threads : Delegate(t, u)
    BY <1>r, <1>5 DEF Delegate, ControlInv, ExclusionInv, CloseInv
<1>6. CASE BeginExclusive(t)
  <2>1. pc[t] = "run" /\ active /\ ~InEffect(t)
      BY <1>6 DEF BeginExclusive
  <2>2. CASE exclusive # None \/ activeEffects > 0
    <3>1. /\ waiters' = waiters + 1 /\ asleep' = StillAsleep \cup {t} /\ Goto(t, "exclusive")
          /\ UNCHANGED <<active, activeEffects, effectThreads, exclusive, releasePending, lease, awaited>>
        BY <1>6, <2>1, <2>2 DEF BeginExclusive, ExclusiveMustWait
    <3> QED BY <1>r, <2>1, <2>2, <3>1 DEF StillAsleep, ControlInv, ExclusionInv, CloseInv
  <2>3. CASE exclusive = None /\ activeEffects = 0 /\ EnterExclusive(t, waiters)
      BY <1>r, <2>1, <2>3 DEF EnterExclusive, StillAsleep, ControlInv, ExclusionInv, CloseInv
  <2>4. CASE FailExclusive(t, waiters)
      BY <1>r, <2>1, <2>4 DEF FailExclusive, StillAsleep, ControlInv, ExclusionInv, CloseInv
  <2>5. \/ ExclusiveMustWait /\ (exclusive # None \/ activeEffects > 0)
        \/ ~ExclusiveMustWait /\ exclusive = None /\ activeEffects = 0
      BY <2>1 DEF ExclusiveMustWait
  <2>6. ~ExclusiveMustWait => EnterExclusive(t, waiters) \/ FailExclusive(t, waiters)
      BY <1>6 DEF BeginExclusive
  <2> QED BY <2>2, <2>3, <2>4, <2>5, <2>6
<1>7. CASE ExclusiveWakes(t)
    BY <1>r, <1>7 DEF ExclusiveWakes, ExclusiveMustWait, EnterExclusive, FailExclusive, StillAsleep, ControlInv, ExclusionInv, CloseInv
<1>8. CASE FinishExclusive(t)
    BY <1>r, <1>8 DEF FinishExclusive, StillAsleep, ControlInv, ExclusionInv, CloseInv
<1>9. CASE CloseWaits(t)
    BY <1>r, <1>9 DEF CloseWaits, ControlInv, ExclusionInv, CloseInv
<1>10. CASE CloseReturns(t)
    BY <1>r, <1>10 DEF CloseReturns, ControlInv, ExclusionInv, CloseInv
<1>11. CASE CloseBegins(t)
    BY <1>r, <1>11 DEF CloseBegins, ControlInv, ExclusionInv, CloseInv
<1>12. CASE CloseRefused(t)
    BY <1>r, <1>12 DEF CloseRefused, GiveUpClosing, StillAsleepClosers, ControlInv, ExclusionInv, CloseInv
<1>13. CASE CloseGuard(t)
    BY <1>r, <1>13 DEF CloseGuard, TakeRelease, StillAsleep, ControlInv, ExclusionInv, CloseInv
<1>14. CASE DrainWakes(t)
    BY <1>r, <1>14 DEF DrainWakes, TakeRelease, ControlInv, ExclusionInv, CloseInv
<1>15. CASE InterruptClose(t)
    BY <1>r, <1>15 DEF InterruptClose, GiveUpClosing, StillAsleepClosers, ControlInv, ExclusionInv, CloseInv
<1>16. CASE ReleaseLock(t)
    BY <1>r, <1>16 DEF ReleaseLock, ControlInv, ExclusionInv, CloseInv
<1>17. CASE SettleClose(t)
    BY <1>r, <1>17 DEF SettleClose, StillAsleepClosers, ControlInv, ExclusionInv, CloseInv
<1> QED
    BY <1>1, <1>2, <1>3, <1>4, <1>5, <1>6, <1>7, <1>8, <1>9, <1>10, <1>11, <1>12, <1>13, <1>14, <1>15, <1>16, <1>17 DEF Step

(* Every step keeps the counters equal to what they count.                  *)
LEMMA StepCount ==
    ASSUME LeaseInv, NEW t \in Threads, Step(t)
    PROVE  CountInv'
<1> USE LeaseAssumption DEF LeaseInv, TypeOK, guard, lease
<1>1. activeEffects' = Cardinality(OpenOf(effectThreads'))
  <2>t. /\ effectThreads \in [Threads -> 0 .. MaxDepth] /\ effectThreads' \in [Threads -> 0 .. MaxDepth]
        /\ activeEffects = Cardinality(OpenOf(effectThreads)) /\ Cardinality(OpenOf(effectThreads')) \in Nat
      BY StepType, OpenIsFinite DEF CountInv
  <2>1. CASE BeginEffect(t)
      BY <2>1, <2>t, OpenGrows DEF BeginEffect
  <2>2. CASE FinishEffect(t)
    <3>1. /\ effectThreads'[t] + 1 = effectThreads[t] /\ activeEffects' = activeEffects - 1
          /\ \A u \in Threads : u # t => effectThreads'[u] = effectThreads[u]
        BY <2>2, <2>t DEF FinishEffect
    <3> QED BY <2>t, <3>1, OpenGrows
  <2>3. CASE FinishExclusive(t)
    <3>1. effectThreads[t] = 1
        BY <2>3 DEF FinishExclusive, ExclusionInv
    <3>2. /\ effectThreads'[t] + 1 = effectThreads[t] /\ activeEffects' = activeEffects - 1
          /\ \A u \in Threads : u # t => effectThreads'[u] = effectThreads[u]
        BY <2>3, <2>t, <3>1 DEF FinishExclusive
    <3> QED BY <2>t, <3>2, OpenGrows
  <2>4. ASSUME NEW n, EnterExclusive(t, n), ~InEffect(t)
        PROVE  activeEffects' = Cardinality(OpenOf(effectThreads'))
    <3>1. effectThreads[t] = 0
        BY <2>4, <2>t DEF InEffect
    <3>2. /\ effectThreads'[t] = effectThreads[t] + 1 /\ activeEffects' = activeEffects + 1
          /\ \A u \in Threads : u # t => effectThreads'[u] = effectThreads[u]
        BY <2>4, <2>t, <3>1 DEF EnterExclusive
    <3> QED BY <2>t, <3>2, OpenGrows
  <2>5. CASE BeginExclusive(t) \/ ExclusiveWakes(t)
      BY <2>4, <2>5 DEF BeginExclusive, ExclusiveWakes, FailExclusive, CountInv, ControlInv,
                        GuardWait, AtLoop
  <2>6. CASE UNCHANGED <<activeEffects, effectThreads>>
      BY <2>6 DEF CountInv
  <2> QED
      BY <2>1, <2>2, <2>3, <2>5, <2>6
      DEF Step, BeginWaits, BeginFails, Delegate, CloseWaits, CloseReturns, CloseBegins, CloseRefused,
          CloseGuard, TakeRelease, DrainWakes, InterruptClose, GiveUpClosing, ReleaseLock, SettleClose
<1>2. waiters' = Cardinality(WaitingOf(pc'))
  <2>t. waiters = Cardinality(WaitingOf(pc))
      BY DEF CountInv
  <2>1. CASE BeginExclusive(t) \/ ExclusiveWakes(t)
    <3>1. \A u \in Threads : u # t => pc'[u] = pc[u]
        BY <2>1 DEF BeginExclusive, ExclusiveWakes, EnterExclusive, FailExclusive, Goto, AtLoop
    <3>2. \/ pc[t] = "run" /\ pc'[t] = "run" /\ waiters' = waiters
          \/ pc[t] = "run" /\ pc'[t] = "exclusive" /\ waiters' = waiters + 1
          \/ pc[t] = "exclusive" /\ pc'[t] = "exclusive" /\ waiters' = waiters
          \/ pc[t] = "exclusive" /\ pc'[t] = "run" /\ waiters' = waiters - 1
        BY <2>1 DEF BeginExclusive, ExclusiveWakes, EnterExclusive, FailExclusive, Goto, AtLoop
    <3>3. CASE pc[t] = "exclusive" <=> pc'[t] = "exclusive"
        BY <2>t, <3>1, <3>2, <3>3, WaitingCount
    <3>4. CASE pc[t] = "run" /\ pc'[t] = "exclusive" /\ waiters' = waiters + 1
      <4>1. pc[t] # "exclusive"
          BY <3>4
      <4>2. Cardinality(WaitingOf(pc')) = Cardinality(WaitingOf(pc)) + 1
          BY <3>1, <3>4, <4>1, WaitingCount
      <4> QED BY <2>t, <3>4, <4>2
    <3>5. CASE pc[t] = "exclusive" /\ pc'[t] = "run" /\ waiters' = waiters - 1
      <4>1. pc'[t] # "exclusive"
          BY <3>5
      <4>2. /\ Cardinality(WaitingOf(pc)) = Cardinality(WaitingOf(pc')) + 1
            /\ Cardinality(WaitingOf(pc')) \in Nat
          BY <3>1, <3>5, <4>1, WaitingCount
      <4> QED BY <2>t, <3>5, <4>2
    <3> QED BY <3>2, <3>3, <3>4, <3>5
  <2>2. CASE ~(BeginExclusive(t) \/ ExclusiveWakes(t))
    <3>1. waiters' = waiters /\ \A u \in Threads : pc'[u] = "exclusive" <=> pc[u] = "exclusive"
        BY <2>2 DEF Step, BeginEffect, BeginWaits, BeginFails, Resume, FinishEffect, Delegate,
               FinishExclusive, CloseWaits, CloseReturns, CloseBegins, CloseRefused, CloseGuard,
               TakeRelease, DrainWakes, InterruptClose, GiveUpClosing, ReleaseLock, SettleClose,
               Goto, AtLoop, ControlInv
    <3> QED BY <2>t, <3>1, WaitingCount
  <2> QED BY <2>1, <2>2
<1> QED BY <1>1, <1>2 DEF CountInv

(* The invariant is inductive.                                              *)
LEMMA NextLeaseInv == LeaseInv /\ [Next]_vars => LeaseInv'
<1>1. ASSUME LeaseInv, NEW t \in Threads, Step(t) PROVE LeaseInv'
    BY <1>1, StepType, StepControl, StepExclusion, StepClose, StepWakes, StepCount DEF LeaseInv
<1>2. ASSUME LeaseInv, UNCHANGED vars PROVE LeaseInv'
    BY <1>2 DEF LeaseInv, vars, guard, lease, TypeOK, CountInv, ControlInv, ExclusionInv, CloseInv,
        NoLostWakeup, SharedMustWait, ExclusiveMustWait, InEffect
<1> QED BY <1>1, <1>2 DEF Next

(* It holds in every reachable state.                                       *)
LEMMA LeaseInvariant == Spec => []LeaseInv
BY InitLeaseInv, NextLeaseInv, PTL DEF Spec

-----------------------------------------------------------------------------
(* Theorems                                                                 *)

(* The lease's fields keep their types: no counter ever goes below zero.    *)
THEOREM LeaseTypeCorrect == Spec => []TypeOK
<1>1. LeaseInv => TypeOK
    BY DEF LeaseInv
<1> QED BY <1>1, LeaseInvariant, PTL

(* No effect runs without the workspace lock, however many threads start,   *)
(* nest, delegate and close, and a lease that is closed has released it.    *)
THEOREM LeaseLockCoversEffects == Spec => []LockCoversEffects
<1>1. LeaseInv => LockCoversEffects
    BY DEF LeaseInv, TypeOK, ExclusionInv, LockCoversEffects
<1> QED BY <1>1, LeaseInvariant, PTL

(* An exclusive effect is the only effect of the process.                   *)
THEOREM LeaseExclusiveAlone == Spec => []ExclusiveAlone
<1>1. LeaseInv => ExclusiveAlone
    BY DEF LeaseInv, TypeOK, ExclusionInv, ExclusiveAlone, InEffect
<1> QED BY <1>1, LeaseInvariant, PTL

(* No thread sleeps through the notification meant for it.                  *)
THEOREM LeaseNoLostWakeup == Spec => []NoLostWakeup
<1>1. LeaseInv => NoLostWakeup
    BY DEF LeaseInv
<1> QED BY <1>1, LeaseInvariant, PTL
=============================================================================
