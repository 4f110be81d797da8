------------------------ MODULE CacheSingleFlightProofs ------------------------
(***************************************************************************)
(* For any set of callers and payloads, and however many deaths, power     *)
(* losses and decays: computations are single flight, all calls served     *)
(* from one entry agree, valid entries are immutable, and an acknowledged  *)
(* publication survives a power loss.  And for any number of units,        *)
(* repetitions and attempts, a stage that asks the text model keeps true   *)
(* accounts of what was asked.                                             *)
(***************************************************************************)
EXTENDS CacheSingleFlight, TextGeneration, TLAPS

--------------------------------------------------------------------------------
(* The inductive invariant                                                  *)

\* A call is inside the claim exactly while it holds the kernel lock.
LockInv == \A c \in Callers : holder = c <=> pc[c] \in Inside

\* What the holder of the claim knows of the entry at each phase, and that the
\* payload it is publishing is the only one anybody has been served.
HolderInv ==
    \A c \in Callers :
        /\ pc[c] = "quarantine" => entry = Corrupt
        /\ pc[c] \in {"sync_quarantine", "compute", "write", "rename"} => entry = Absent
        /\ pc[c] \in {"sync_directory", "confirm"} =>
              /\ entry \in {value[c], Corrupt}
              /\ served \subseteq {value[c]}
        /\ pc[c] = "confirm" => durable \subseteq {value[c], Corrupt}

\* What was served is what the entry holds, unless it has been spoiled since.
ServeInv ==
    /\ Agreement
    /\ \A v \in served : entry \in {v, Corrupt}
    /\ AcknowledgedIsDurable

CacheInv == TypeOK /\ LockInv /\ HolderInv /\ ServeInv

--------------------------------------------------------------------------------
(* Each part of it is preserved                                             *)

(* The step of one call, with the environment's step on it.                 *)
CallStep(c) == Progress(c) \/ EndComputing(c) \/ StorageFails(c) \/ Cancel(c) \/ Die(c)

(* The initial states.                                                      *)
LEMMA InitCacheInv == Init => CacheInv
BY DistinctContents, NobodyIsNoCaller
   DEF Init, CacheInv, TypeOK, LockInv, HolderInv, ServeInv, Agreement, AcknowledgedIsDurable,
       Contents, Phases, Inside, Final, Waiting

(* Types, under a step of a call.                                           *)
LEMMA StepType ==
    ASSUME TypeOK, HolderInv, NEW c \in Callers, CallStep(c)
    PROVE  TypeOK'
<1> USE DistinctContents, NobodyIsNoCaller
       DEF TypeOK, HolderInv, Phases, Inside, Final, Waiting, Contents, disk, history
<1>1. CASE Start(c)
    BY <1>1 DEF Start, EndsAs, Moves, Released
<1>2. CASE FirstLookup(c)
    BY <1>2 DEF FirstLookup, Answers, Queues, Released
<1>3. CASE Acquire(c)
    BY <1>3 DEF Acquire, MayEnter
<1>4. CASE GiveUpWaiting(c)
    BY <1>4 DEF GiveUpWaiting, EndsAs, Released
<1>5. CASE LockedLookup(c)
    BY <1>5 DEF LockedLookup, Answers, AfterMiss, Queues, EndsAs, Moves, Released
<1>6. CASE Quarantine(c)
    BY <1>6 DEF Quarantine
<1>7. CASE SyncQuarantine(c)
    BY <1>7 DEF SyncQuarantine, Released
<1>8. CASE Compute(c)
    BY <1>8 DEF Compute, EndsAs, Released
<1>9. CASE ComputeFails(c)
    BY <1>9 DEF ComputeFails, EndsAs, Released
<1>10. CASE WriteTemporary(c)
    BY <1>10 DEF WriteTemporary, EndsAs, Moves, Released
<1>11. CASE Rename(c)
    BY <1>11 DEF Rename
<1>12. CASE SyncDirectory(c)
    BY <1>12 DEF SyncDirectory
<1>13. CASE Confirm(c)
    BY <1>13 DEF Confirm, EndsAs, Answers, Released
<1>14. CASE StorageFails(c)
    BY <1>14 DEF StorageFails, EndsAs, Released
<1>15. CASE Cancel(c)
    BY <1>15 DEF Cancel
<1>16. CASE Die(c)
    BY <1>16 DEF Die, Released
<1> QED BY <1>1, <1>2, <1>3, <1>4, <1>5, <1>6, <1>7, <1>8, <1>9,
           <1>10, <1>11, <1>12, <1>13, <1>14, <1>15, <1>16
       DEF CallStep, Progress, EndComputing

(* Mutual exclusion, under a step of a call.                                *)
LEMMA StepLock ==
    ASSUME TypeOK, LockInv, NEW c \in Callers, CallStep(c)
    PROVE  LockInv'
<1> USE DistinctContents, NobodyIsNoCaller
       DEF TypeOK, LockInv, Phases, Inside, Final, Waiting, Contents, disk, history
<1>1. CASE Start(c)
    BY <1>1 DEF Start, EndsAs, Moves, Released
<1>2. CASE FirstLookup(c)
    BY <1>2 DEF FirstLookup, Answers, Queues, Released
<1>3. CASE Acquire(c)
    BY <1>3 DEF Acquire, MayEnter
<1>4. CASE GiveUpWaiting(c)
    BY <1>4 DEF GiveUpWaiting, EndsAs, Released
<1>5. CASE LockedLookup(c)
    BY <1>5 DEF LockedLookup, Answers, AfterMiss, Queues, EndsAs, Moves, Released
<1>6. CASE Quarantine(c)
    BY <1>6 DEF Quarantine
<1>7. CASE SyncQuarantine(c)
    BY <1>7 DEF SyncQuarantine, Released
<1>8. CASE Compute(c)
    BY <1>8 DEF Compute, EndsAs, Released
<1>9. CASE ComputeFails(c)
    BY <1>9 DEF ComputeFails, EndsAs, Released
<1>10. CASE WriteTemporary(c)
    BY <1>10 DEF WriteTemporary, EndsAs, Moves, Released
<1>11. CASE Rename(c)
    BY <1>11 DEF Rename
<1>12. CASE SyncDirectory(c)
    BY <1>12 DEF SyncDirectory
<1>13. CASE Confirm(c)
    BY <1>13 DEF Confirm, EndsAs, Answers, Released
<1>14. CASE StorageFails(c)
    BY <1>14 DEF StorageFails, EndsAs, Released
<1>15. CASE Cancel(c)
    BY <1>15 DEF Cancel
<1>16. CASE Die(c)
    BY <1>16 DEF Die, Released
<1> QED BY <1>1, <1>2, <1>3, <1>4, <1>5, <1>6, <1>7, <1>8, <1>9,
           <1>10, <1>11, <1>12, <1>13, <1>14, <1>15, <1>16
       DEF CallStep, Progress, EndComputing

(* The holder's knowledge, under a step of a call: only the holder writes.  *)
LEMMA StepHolder ==
    ASSUME CacheInv, NEW c \in Callers, CallStep(c)
    PROVE  HolderInv'
<1> USE DistinctContents, NobodyIsNoCaller
       DEF CacheInv, TypeOK, LockInv, HolderInv, ServeInv, Agreement, AcknowledgedIsDurable,
           Phases, Inside, Final, Waiting, Contents, disk, history
<1>1. CASE Start(c)
    BY <1>1 DEF Start, EndsAs, Moves, Released
<1>2. CASE FirstLookup(c)
    BY <1>2 DEF FirstLookup, Answers, Queues, Released
<1>3. CASE Acquire(c)
    BY <1>3 DEF Acquire, MayEnter
<1>4. CASE GiveUpWaiting(c)
    BY <1>4 DEF GiveUpWaiting, EndsAs, Released
<1>5. CASE LockedLookup(c)
    BY <1>5 DEF LockedLookup, Answers, AfterMiss, Queues, EndsAs, Moves, Released
<1>6. CASE Quarantine(c)
    BY <1>6 DEF Quarantine
<1>7. CASE SyncQuarantine(c)
    BY <1>7 DEF SyncQuarantine, Released
<1>8. CASE Compute(c)
    BY <1>8 DEF Compute, EndsAs, Released
<1>9. CASE ComputeFails(c)
    BY <1>9 DEF ComputeFails, EndsAs, Released
<1>10. CASE WriteTemporary(c)
    BY <1>10 DEF WriteTemporary, EndsAs, Moves, Released
<1>11. CASE Rename(c)
    BY <1>11 DEF Rename
<1>12. CASE SyncDirectory(c)
    BY <1>12 DEF SyncDirectory
<1>13. CASE Confirm(c)
    BY <1>13 DEF Confirm, EndsAs, Answers, Released
<1>14. CASE StorageFails(c)
    BY <1>14 DEF StorageFails, EndsAs, Released
<1>15. CASE Cancel(c)
    BY <1>15 DEF Cancel
<1>16. CASE Die(c)
    BY <1>16 DEF Die, Released
<1> QED BY <1>1, <1>2, <1>3, <1>4, <1>5, <1>6, <1>7, <1>8, <1>9,
           <1>10, <1>11, <1>12, <1>13, <1>14, <1>15, <1>16
       DEF CallStep, Progress, EndComputing

(* What was served, under a step of a call.                                 *)
LEMMA StepServe ==
    ASSUME CacheInv, NEW c \in Callers, CallStep(c)
    PROVE  ServeInv'
<1> USE DistinctContents, NobodyIsNoCaller
       DEF CacheInv, TypeOK, LockInv, HolderInv, ServeInv, Agreement, AcknowledgedIsDurable,
           Phases, Inside, Final, Waiting, Contents, disk, history
<1>1. CASE Start(c)
    BY <1>1 DEF Start, EndsAs, Moves, Released
<1>2. CASE FirstLookup(c)
    BY <1>2 DEF FirstLookup, Answers, Queues, Released
<1>3. CASE Acquire(c)
    BY <1>3 DEF Acquire, MayEnter
<1>4. CASE GiveUpWaiting(c)
    BY <1>4 DEF GiveUpWaiting, EndsAs, Released
<1>5. CASE LockedLookup(c)
    BY <1>5 DEF LockedLookup, Answers, AfterMiss, Queues, EndsAs, Moves, Released
<1>6. CASE Quarantine(c)
    BY <1>6 DEF Quarantine
<1>7. CASE SyncQuarantine(c)
    BY <1>7 DEF SyncQuarantine, Released
<1>8. CASE Compute(c)
    BY <1>8 DEF Compute, EndsAs, Released
<1>9. CASE ComputeFails(c)
    BY <1>9 DEF ComputeFails, EndsAs, Released
<1>10. CASE WriteTemporary(c)
    BY <1>10 DEF WriteTemporary, EndsAs, Moves, Released
<1>11. CASE Rename(c)
    BY <1>11 DEF Rename
<1>12. CASE SyncDirectory(c)
    BY <1>12 DEF SyncDirectory
<1>13. CASE Confirm(c)
    BY <1>13 DEF Confirm, EndsAs, Answers, Released
<1>14. CASE StorageFails(c)
    BY <1>14 DEF StorageFails, EndsAs, Released
<1>15. CASE Cancel(c)
    BY <1>15 DEF Cancel
<1>16. CASE Die(c)
    BY <1>16 DEF Die, Released
<1> QED BY <1>1, <1>2, <1>3, <1>4, <1>5, <1>6, <1>7, <1>8, <1>9,
           <1>10, <1>11, <1>12, <1>13, <1>14, <1>15, <1>16
       DEF CallStep, Progress, EndComputing

(* A power loss keeps what was acknowledged, and kills every holder.         *)
LEMMA PowerLossInv == CacheInv /\ PowerLoss => CacheInv'
<1> SUFFICES ASSUME CacheInv, PowerLoss PROVE CacheInv'
    OBVIOUS
<1> USE DistinctContents, NobodyIsNoCaller DEF CacheInv, Phases, Inside, Final, Waiting
<1>1. TypeOK'
    BY DEF TypeOK, Contents, PowerLoss
<1>2. \A c \in Callers : pc'[c] \in Final \cup {"idle"}
    BY DEF PowerLoss
<1>3. LockInv'
    BY <1>2 DEF LockInv, PowerLoss
<1>4. HolderInv'
    BY <1>2 DEF HolderInv
<1>5. ServeInv'
    BY DEF ServeInv, TypeOK, Agreement, AcknowledgedIsDurable, PowerLoss
<1> QED BY <1>1, <1>3, <1>4, <1>5

(* An entry spoiled on disk is known to be corrupt.                          *)
LEMMA DecayInv == CacheInv /\ Decay => CacheInv'
<1> SUFFICES ASSUME CacheInv, Decay PROVE CacheInv'
    OBVIOUS
<1> USE DistinctContents DEF CacheInv, Decay, history
<1>1. TypeOK'
    BY DEF TypeOK, Contents
<1>2. LockInv'
    BY DEF LockInv
<1>3. HolderInv'
    BY DEF HolderInv, TypeOK, Contents
<1>4. ServeInv'
    BY DEF ServeInv, TypeOK, Contents, Agreement, AcknowledgedIsDurable
<1> QED BY <1>1, <1>2, <1>3, <1>4

(* The invariant is inductive.                                              *)
LEMMA NextCacheInv == CacheInv /\ [Next]_vars => CacheInv'
<1> SUFFICES ASSUME CacheInv, [Next]_vars PROVE CacheInv'
    OBVIOUS
<1>1. ASSUME NEW c \in Callers, CallStep(c) PROVE CacheInv'
    BY <1>1, StepType, StepLock, StepHolder, StepServe DEF CacheInv
<1>2. CASE PowerLoss
    BY <1>2, PowerLossInv
<1>3. CASE Decay
    BY <1>3, DecayInv
<1>4. CASE UNCHANGED vars
    BY <1>4 DEF CacheInv, TypeOK, LockInv, HolderInv, ServeInv, Agreement,
        AcknowledgedIsDurable, vars
<1> QED BY <1>1, <1>2, <1>3, <1>4 DEF Next, CallStep

(* It holds in every reachable state.                                       *)
LEMMA CacheInvariant == Spec => []CacheInv
BY InitCacheInv, NextCacheInv, PTL DEF Spec

--------------------------------------------------------------------------------
(* Theorems                                                                 *)

(* The cache's state keeps its type, and no call publishes without a payload. *)
THEOREM CacheTypeCorrect == Spec => []TypeOK
<1>1. CacheInv => TypeOK
    BY DEF CacheInv
<1> QED BY <1>1, CacheInvariant, PTL

(* At most one call computes, and only while there is no entry.             *)
THEOREM CacheSingleFlightHolds == Spec => []SingleFlight
<1>1. CacheInv => SingleFlight
    BY DEF CacheInv, LockInv, HolderInv, SingleFlight, Inside
<1> QED BY <1>1, CacheInvariant, PTL

(* All calls served from one entry were given the same payload.             *)
THEOREM CacheAgreement == Spec => []Agreement
<1>1. CacheInv => Agreement
    BY DEF CacheInv, ServeInv
<1> QED BY <1>1, CacheInvariant, PTL

(* A reported publication survives every power loss.                        *)
THEOREM CacheDurability == Spec => []AcknowledgedIsDurable
<1>1. CacheInv => AcknowledgedIsDurable
    BY DEF CacheInv, ServeInv
<1> QED BY <1>1, CacheInvariant, PTL

(* No step of a call removes or replaces a valid entry.                     *)
THEOREM CacheImmutability == Spec => ValidEntryStays
<1> DEFINE Stays == (entry \in Values /\ faults'.losses = faults.losses)
                       => entry' \in {entry, Corrupt}
<1>1. CacheInv /\ [Next]_vars => Stays
    <2> SUFFICES ASSUME CacheInv, [Next]_vars, entry \in Values,
                        faults'.losses = faults.losses
                 PROVE  entry' \in {entry, Corrupt}
        OBVIOUS
    <2> USE DistinctContents
    <2>1. ASSUME NEW c \in Callers, CallStep(c) PROVE entry' = entry
        BY <2>1 DEF CacheInv, HolderInv, CallStep, Progress, EndComputing,
           Start, FirstLookup, Acquire, GiveUpWaiting, LockedLookup, Quarantine, SyncQuarantine,
           Compute, ComputeFails, WriteTemporary, Rename, SyncDirectory, Confirm, StorageFails,
           Cancel, Die, EndsAs, Moves, Answers, Queues, AfterMiss, disk
    <2>2. CASE PowerLoss
        BY <2>2 DEF CacheInv, TypeOK, PowerLoss
    <2>3. CASE Decay
        BY <2>3 DEF Decay
    <2>4. CASE UNCHANGED vars
        BY <2>4 DEF vars
    <2> QED BY <2>1, <2>2, <2>3, <2>4 DEF Next, CallStep
<1>2. CacheInv /\ [Next]_vars => [Stays]_vars
    BY <1>1
<1> QED BY <1>2, CacheInvariant, PTL DEF Spec, ValidEntryStays

--------------------------------------------------------------------------------
(* The books of a stage of the text model, which reads its units through    *)
(* entries like these                                                        *)

\* A request of the stage is under way; what was sent for it so far.
InCall  == step \in {"begin", "head", "sent", "delay"}
Sent    == IF step = "begin" THEN 0 ELSE IF step = "head" THEN try - 1 ELSE try
Over    == step \in {"ended", "closed"}

Ahead(requests, attempts, retries, semanticRetries) ==
    /\ happened.hits = ledger.hits /\ happened.misses = ledger.misses
    /\ happened.requests = ledger.requests + requests
    /\ happened.attempts = ledger.attempts + attempts
    /\ happened.retries = ledger.retries + retries
    /\ happened.semanticRetries + semanticRetries = ledger.semanticRetries

\* The ledger of the stage against what happened.
StageInv ==
    /\ step = "unit" \/ Over \/ unit < Units
    /\ step \in {"unit", "publish"} => Ahead(0, 0, 0, 0)
    /\ step = "generate" => Ahead(0, 0, 0, IF semantic > 1 THEN 1 ELSE 0)
    /\ InCall => Ahead(1, Sent, IF Sent > 1 THEN Sent - 1 ELSE 0, 0)
    /\ Over => carried \subseteq {happened} /\ (~broken => ledger.attempts = happened.attempts)
    /\ ~Over => carried = {}

\* The bridge against the adapter, and the external facts against the ledger.
BridgeInv ==
    /\ ~refused
    /\ broken => Over
    /\ ~InCall /\ ~broken => call = NoCall
    /\ step = "begin" => try = 1
    /\ step = "delay" => try < MaxAttempts
    /\ InCall => call.scheduled = IF step = "delay" THEN try + 1 ELSE try
    /\ ~broken => recorded = ledger.attempts /\ (contact = "contacted" <=> recorded > 0)
    /\ contact = "zero" => step = "closed" /\ happened.attempts = 0

TextInv == TextTypeOK /\ StageInv /\ BridgeInv

-----------------------------------------------------------------------------
\* Counts are equal if every one of them is.
LEMMA EqualCounts ==
    ASSUME NEW a \in Counts, NEW b \in Counts,
           a.hits = b.hits, a.misses = b.misses, a.requests = b.requests, a.attempts = b.attempts,
           a.retries = b.retries, a.semanticRetries = b.semanticRetries
    PROVE  a = b
  BY DEF Counts

\* What a call adds to the ledger of the stage.
LEMMA CountedFields ==
    ASSUME ledger \in Counts, NEW attempts \in Nat, NEW ok
    PROVE  /\ Counted(attempts, ok) \in Counts
           /\ Counted(attempts, ok).hits = ledger.hits /\ Counted(attempts, ok).misses = ledger.misses
           /\ Counted(attempts, ok).requests = ledger.requests + 1
           /\ Counted(attempts, ok).attempts = ledger.attempts + attempts
           /\ Counted(attempts, ok).retries = ledger.retries + (IF attempts > 1 THEN attempts - 1 ELSE 0)
           /\ Counted(attempts, ok).semanticRetries = ledger.semanticRetries
  <1>. DEFINE one   == [ledger EXCEPT !.requests = @ + 1]
              two   == [one EXCEPT !.attempts = @ + attempts]
              more  == IF attempts > 1 THEN attempts - 1 ELSE 0
              three == [two EXCEPT !.retries = @ + more]
  <1>1. /\ one \in Counts /\ one.hits = ledger.hits /\ one.misses = ledger.misses
        /\ one.requests = ledger.requests + 1 /\ one.attempts = ledger.attempts
        /\ one.retries = ledger.retries /\ one.semanticRetries = ledger.semanticRetries
    BY DEF Counts
  <1>. HIDE DEF one
  <1>2. /\ two \in Counts /\ two.hits = one.hits /\ two.misses = one.misses
        /\ two.requests = one.requests /\ two.attempts = one.attempts + attempts
        /\ two.retries = one.retries /\ two.semanticRetries = one.semanticRetries
    BY <1>1 DEF Counts
  <1>. HIDE DEF two
  <1>3. more \in Nat
    OBVIOUS
  <1>4. /\ three \in Counts /\ three.hits = two.hits /\ three.misses = two.misses
        /\ three.requests = two.requests /\ three.attempts = two.attempts
        /\ three.retries = two.retries + more /\ three.semanticRetries = two.semanticRetries
    BY <1>2, <1>3 DEF Counts
  <1>5. Counted(attempts, ok) = three
    BY Zenon DEF Counted, one, two
  <1>. HIDE DEF three
  <1>. QED  BY <1>1, <1>2, <1>4, <1>5

\* When the call that is under way is counted with what was sent for it, the
\* ledger of the stage is what happened.
LEMMA CountedIsHappened ==
    ASSUME TextInv, InCall, NEW ok
    PROVE  Counted(Sent, ok) = happened
  <1>1. ledger \in Counts /\ happened \in Counts /\ Sent \in Nat /\ try \in Nat
    BY LimitsAssumption DEF TextInv, TextTypeOK, InCall, Sent
  <1>2. Ahead(1, Sent, IF Sent > 1 THEN Sent - 1 ELSE 0, 0)
    BY DEF TextInv, StageInv
  <1>. QED  BY <1>1, <1>2, CountedFields, EqualCounts DEF Ahead, Counts

\* What the bridge has seen of a call keeps its type.
LEMMA SeenType ==
    ASSUME TextInv, NEW attempts \in 0 .. MaxAttempts
    PROVE  Seen(attempts) \in [open : BOOLEAN, operation : BOOLEAN, observed : 0 .. MaxAttempts,
                               scheduled : 1 .. MaxAttempts]
  BY DEF TextInv, TextTypeOK, Seen

\* A record that fails ends the stage with books that say less.
LEMMA BreaksKeeps ==
    ASSUME TextInv, InCall, NEW attempts \in 0 .. MaxAttempts, Breaks(attempts), UNCHANGED <<try, halted, happened>>
    PROVE  TextInv'
  <1>1. call' \in [open : BOOLEAN, operation : BOOLEAN, observed : 0 .. MaxAttempts, scheduled : 1 .. MaxAttempts]
    BY SeenType DEF Breaks, TextInv, TextTypeOK
  <1>2. /\ step' = "ended" /\ broken' = TRUE /\ verdictOf' = "internal" /\ carried' = {}
        /\ UNCHANGED <<unit, semantic, ledger, contact, recorded, refused, try, halted, happened>>
    BY DEF Breaks, Leave, NoFacts, stageVars
  <1>3. TextTypeOK'
    BY <1>1, <1>2 DEF TextInv, TextTypeOK, Steps
  <1>4. StageInv'
    BY <1>2 DEF StageInv, Over, InCall
  <1>5. BridgeInv'
    BY <1>2 DEF TextInv, BridgeInv, Over, InCall
  <1>. QED  BY <1>3, <1>4, <1>5 DEF TextInv

\* A call whose books are closed, with or without an attempt, and whose counts are
\* in the ledger of the stage leaves true books behind.
LEMMA ClosedBooks ==
    ASSUME TextInv, InCall, ~broken,
           UNCHANGED <<try, halted, happened, broken, refused>>,
           call' = NoCall,
           \/ Sent = 0 /\ UNCHANGED <<contact, recorded>>
           \/ Sent > 0 /\ contact' = "contacted" /\ recorded' = recorded + Sent,
           ledger' \in Counts, ledger'.attempts = happened.attempts,
           step' \in {"ended", "publish", "generate"}
    PROVE  /\ BridgeInv'
           /\ call' \in [open : BOOLEAN, operation : BOOLEAN, observed : 0 .. MaxAttempts,
                         scheduled : 1 .. MaxAttempts]
           /\ contact' \in {"open", "contacted", "zero"} /\ recorded' \in Nat
  <1>1. ledger \in Counts /\ happened \in Counts /\ Sent \in Nat /\ try \in Nat /\ recorded \in Nat
        /\ contact \in {"open", "contacted", "zero"}
    BY LimitsAssumption DEF TextInv, TextTypeOK, InCall, Sent
  <1>2. happened.attempts = ledger.attempts + Sent
    BY DEF TextInv, StageInv, Ahead
  <1>3. ~refused /\ recorded = ledger.attempts /\ (contact = "contacted" <=> recorded > 0) /\ contact # "zero"
    BY DEF TextInv, BridgeInv, InCall
  <1>4. recorded' = ledger'.attempts /\ recorded' \in Nat /\ (contact' = "contacted" <=> recorded' > 0)
        /\ contact' # "zero" /\ contact' \in {"open", "contacted", "zero"}
    BY <1>1, <1>2, <1>3 DEF Counts
  <1>5. BridgeInv'
    BY <1>3, <1>4 DEF BridgeInv, InCall, Over
  <1>6. call' \in [open : BOOLEAN, operation : BOOLEAN, observed : 0 .. MaxAttempts, scheduled : 1 .. MaxAttempts]
    BY LimitsAssumption DEF NoCall
  <1>. QED  BY <1>4, <1>5, <1>6

\* The three ways a call ends, apart from the record that fails: nothing was
\* sent, the bridge refuses - which the plans of the retries rule out - or the
\* books are closed.
LEMMA EndsCases ==
    ASSUME TextInv, InCall, NEW kind, NEW ACTION Then,
           Sent > 0 => ~Refuses(kind, Sent), Ends(kind, Sent, Then)
    PROVE  \/ Breaks(Sent)
           \/ /\ Then /\ ~broken /\ call' = NoCall /\ UNCHANGED <<broken, refused>>
              /\ \/ Sent = 0 /\ UNCHANGED <<contact, recorded>>
                 \/ Sent > 0 /\ contact' = "contacted" /\ recorded' = recorded + Sent
  <1>1. Sent \in Nat
    BY LimitsAssumption DEF TextInv, TextTypeOK, InCall, Sent
  <1>. QED  BY <1>1 DEF Ends, TextInv, BridgeInv, InCall, Over

\* generate fails: the stage ends with books that are true.
LEMMA TerminalKeeps ==
    ASSUME TextInv, InCall, NEW kind \in {"cancelled", "provider", "internal"},
           Sent > 0 => ~Refuses(kind, Sent), Terminal(kind, Sent), UNCHANGED <<try, halted, happened>>
    PROVE  TextInv'
  <1>1. Sent \in 0 .. MaxAttempts
    BY LimitsAssumption DEF TextInv, TextTypeOK, Sent
  <1>2. CASE Breaks(Sent)
    BY <1>1, <1>2, BreaksKeeps
  <1>3. CASE ~Breaks(Sent)
    <2>1. /\ CallFails(kind, Sent) /\ ~broken /\ call' = NoCall /\ UNCHANGED <<broken, refused>>
          /\ \/ Sent = 0 /\ UNCHANGED <<contact, recorded>>
             \/ Sent > 0 /\ contact' = "contacted" /\ recorded' = recorded + Sent
      BY <1>3, EndsCases DEF Terminal
    <2>2. ledger' = happened /\ UNCHANGED <<unit, semantic>>
      BY <2>1, CountedIsHappened DEF CallFails
    <2>3. step' = "ended" /\ verdictOf' \in {"interrupted", "failed", "internal"} /\ carried' \subseteq {ledger'}
      BY <2>1 DEF CallFails, Leave, NoFacts
    <2>4. happened \in Counts
      BY DEF TextInv, TextTypeOK
    <2>5. /\ BridgeInv'
          /\ call' \in [open : BOOLEAN, operation : BOOLEAN, observed : 0 .. MaxAttempts, scheduled : 1 .. MaxAttempts]
          /\ contact' \in {"open", "contacted", "zero"} /\ recorded' \in Nat
      BY <2>1, <2>2, <2>3, <2>4, ClosedBooks
    <2>6. StageInv'
      BY <2>2, <2>3 DEF StageInv, InCall, Over
    <2>7. TextTypeOK'
      BY <2>1, <2>2, <2>3, <2>4, <2>5 DEF TextInv, TextTypeOK, Steps
    <2>. QED  BY <2>5, <2>6, <2>7 DEF TextInv
  <1>. QED  BY <1>2, <1>3

\* One more hit or miss is one more in the ledger and in what happened.
LEMMA OneMore ==
    ASSUME NEW c \in Counts
    PROVE  /\ [c EXCEPT !.hits = @ + 1] \in Counts /\ [c EXCEPT !.misses = @ + 1] \in Counts
           /\ [c EXCEPT !.semanticRetries = @ + 1] \in Counts
  BY DEF Counts

\* The steps of the stage between two calls.
LEMMA NextUnitKeeps ==
    ASSUME TextInv, NextUnit
    PROVE  TextInv'
  <1>1. ledger \in Counts /\ happened \in Counts /\ unit \in 0 .. Units /\ unit < Units /\ semantic \in 1 .. SemanticLimit
    BY DEF TextInv, TextTypeOK, NextUnit
  <1>2. step = "unit" /\ ledger = happened /\ carried = {} /\ UNCHANGED <<try, call, contact, recorded, broken, refused, halted>>
    BY <1>1, EqualCounts DEF TextInv, StageInv, Ahead, NextUnit, books, Over, Counts
  <1>3. CASE /\ step' = "ended" /\ verdictOf' \in {"interrupted", "internal"} /\ carried' = {}
             /\ UNCHANGED <<unit, semantic, ledger, happened>>
    <2>1. TextTypeOK'
      BY <1>2, <1>3 DEF TextInv, TextTypeOK, Steps
    <2>2. StageInv'
      BY <1>2, <1>3 DEF StageInv, InCall, Over
    <2>3. BridgeInv'
      BY <1>2, <1>3 DEF TextInv, BridgeInv, InCall, Over
    <2>. QED  BY <2>1, <2>2, <2>3 DEF TextInv
  <1>4. CASE /\ step' \in {"unit", "generate"} /\ UNCHANGED ends
             /\ ledger' = happened' /\ ledger' \in Counts /\ ledger'.attempts = ledger.attempts
             /\ unit' \in 0 .. Units /\ semantic' \in 1 .. SemanticLimit
             /\ step' = "generate" => semantic' = 1 /\ unit' < Units
    <2>1. TextTypeOK'
      BY <1>2, <1>4 DEF TextInv, TextTypeOK, Steps, ends
    <2>2. StageInv'
      <3>1. Ahead(0, 0, 0, 0)'
        BY <1>4 DEF Ahead, Counts
      <3>. QED  BY <1>2, <1>4, <3>1 DEF TextInv, StageInv, InCall, Over, ends
    <2>3. BridgeInv'
      BY <1>2, <1>4 DEF TextInv, BridgeInv, InCall, Over
    <2>. QED  BY <2>1, <2>2, <2>3 DEF TextInv
  <1>5. CASE /\ ~halted /\ Stay
             /\ ledger' = [ledger EXCEPT !.hits = @ + 1]
             /\ happened' = [happened EXCEPT !.hits = @ + 1]
             /\ unit' = unit + 1 /\ UNCHANGED <<step, semantic>>
    <2>1. ledger' = happened' /\ ledger' \in Counts
      BY <1>1, <1>2, <1>5, OneMore
    <2>2. ledger'.attempts = ledger.attempts
      BY <1>1, <1>5 DEF Counts
    <2>3. unit' \in 0 .. Units
      BY <1>1, <1>5, LimitsAssumption
    <2>. QED  BY <1>1, <1>2, <1>4, <1>5, <2>1, <2>2, <2>3 DEF Stay
  <1>6. CASE /\ ~halted /\ Stay
             /\ ledger' = [ledger EXCEPT !.misses = @ + 1]
             /\ happened' = [happened EXCEPT !.misses = @ + 1]
             /\ semantic' = 1 /\ step' = "generate" /\ UNCHANGED unit
    <2>1. ledger' = happened' /\ ledger' \in Counts
      BY <1>1, <1>2, <1>6, OneMore
    <2>2. ledger'.attempts = ledger.attempts
      BY <1>1, <1>6 DEF Counts
    <2>3. 1 \in 1 .. SemanticLimit
      BY LimitsAssumption
    <2>. QED  BY <1>1, <1>4, <1>6, <2>1, <2>2, <2>3 DEF Stay
  <1>. QED  BY <1>3, <1>5, <1>6 DEF NextUnit, Leave, NoFacts

LEMMA AllDoneKeeps ==
    ASSUME TextInv, AllDone
    PROVE  TextInv'
  <1>1. /\ step = "unit" /\ step' = "ended" /\ verdictOf' = "ok" /\ carried' = {ledger}
        /\ UNCHANGED <<unit, semantic, ledger, try, call, contact, recorded, broken, refused, halted, happened>>
    BY DEF AllDone, Leave, stageVars, books
  <1>2. ledger = happened /\ ledger \in Counts
    BY <1>1, EqualCounts DEF TextInv, TextTypeOK, StageInv, Ahead, Counts
  <1>3. TextTypeOK'
    BY <1>1, <1>2 DEF TextInv, TextTypeOK, Steps
  <1>4. StageInv'
    BY <1>1, <1>2 DEF StageInv, InCall, Over
  <1>5. BridgeInv'
    BY <1>1 DEF TextInv, BridgeInv, InCall, Over
  <1>. QED  BY <1>3, <1>4, <1>5 DEF TextInv

LEMMA BeginCallKeeps ==
    ASSUME TextInv, BeginCall
    PROVE  TextInv'
  <1>1. /\ step = "generate" /\ ~broken /\ try' = 1 /\ carried = {}
        /\ UNCHANGED <<unit, semantic, ledger, contact, recorded, broken, refused, halted>>
    BY DEF TextInv, StageInv, BridgeInv, BeginCall, Over, stageVars
  <1>2. ledger \in Counts /\ happened \in Counts /\ 1 \in 1 .. MaxAttempts
    BY LimitsAssumption DEF TextInv, TextTypeOK
  <1>3. Ahead(0, 0, 0, IF semantic > 1 THEN 1 ELSE 0)
    BY <1>1 DEF TextInv, StageInv
  <1>4. CASE halted
    <2>1. step' = "ended" /\ verdictOf' = "interrupted" /\ carried' = {} /\ UNCHANGED <<call, happened>>
      BY <1>4 DEF BeginCall, Leave, NoFacts
    <2>2. TextTypeOK'
      BY <1>1, <1>2, <2>1 DEF TextInv, TextTypeOK, Steps
    <2>3. StageInv'
      BY <1>1, <1>2, <1>3, <2>1 DEF StageInv, InCall, Over, Ahead, Counts
    <2>4. BridgeInv'
      BY <1>1, <2>1 DEF TextInv, BridgeInv, InCall, Over
    <2>. QED  BY <2>2, <2>3, <2>4 DEF TextInv
  <1>5. CASE ~halted
    <2>1. /\ step' = "begin" /\ UNCHANGED ends /\ call' = NewCall
      BY <1>5 DEF BeginCall, Stay
    <2>2. /\ happened' \in Counts /\ happened'.hits = happened.hits /\ happened'.misses = happened.misses
          /\ happened'.requests = happened.requests + 1 /\ happened'.attempts = happened.attempts
          /\ happened'.retries = happened.retries
          /\ happened'.semanticRetries = happened.semanticRetries + (IF semantic > 1 THEN 1 ELSE 0)
      <3>. DEFINE one  == [happened EXCEPT !.requests = @ + 1]
                  more == IF semantic > 1 THEN 1 ELSE 0
                  two  == [one EXCEPT !.semanticRetries = @ + more]
      <3>1. /\ one \in Counts /\ one.hits = happened.hits /\ one.misses = happened.misses
            /\ one.requests = happened.requests + 1 /\ one.attempts = happened.attempts
            /\ one.retries = happened.retries /\ one.semanticRetries = happened.semanticRetries
        BY <1>2 DEF Counts
      <3>2. happened' = two
        BY <1>5, Zenon DEF BeginCall
      <3>. HIDE DEF one
      <3>3. more \in Nat
        OBVIOUS
      <3>4. /\ two \in Counts /\ two.hits = one.hits /\ two.misses = one.misses
            /\ two.requests = one.requests /\ two.attempts = one.attempts
            /\ two.retries = one.retries /\ two.semanticRetries = one.semanticRetries + more
        BY <3>1, <3>3 DEF Counts
      <3>. HIDE DEF two
      <3>. QED  BY <3>1, <3>2, <3>4
    <2>3. /\ call' \in [open : BOOLEAN, operation : BOOLEAN, observed : 0 .. MaxAttempts, scheduled : 1 .. MaxAttempts]
          /\ call'.scheduled = 1
      <3>1. call' = [open |-> TRUE, operation |-> FALSE, observed |-> 0, scheduled |-> 1]
        BY <2>1 DEF NewCall, NoCall
      <3>. QED  BY <3>1, LimitsAssumption
    <2>4. TextTypeOK'
      BY <1>1, <1>2, <2>1, <2>2, <2>3 DEF TextInv, TextTypeOK, Steps, ends
    <2>5. StageInv'
      <3>1. InCall' /\ Sent' = 0 /\ ~Over'
        BY <2>1 DEF InCall, Sent, Over
      <3>2. Ahead(1, 0, 0, 0)'
        BY <1>1, <1>2, <1>3, <2>2 DEF Ahead, Counts
      <3>3. carried' = {}
        BY <1>1, <2>1 DEF ends
      <3>4. unit' < Units
        BY <1>1 DEF TextInv, StageInv, Over
      <3>. QED  BY <2>1, <3>1, <3>2, <3>3, <3>4 DEF StageInv
    <2>6. BridgeInv'
      BY <1>1, <2>1, <2>3 DEF TextInv, BridgeInv, InCall, Over
    <2>. QED  BY <2>4, <2>5, <2>6 DEF TextInv
  <1>. QED  BY <1>4, <1>5

LEMMA PublishUnitKeeps ==
    ASSUME TextInv, PublishUnit
    PROVE  TextInv'
  <1>1. /\ step = "publish" /\ ~broken /\ carried = {}
        /\ UNCHANGED <<semantic, ledger, try, call, contact, recorded, broken, refused, halted, happened>>
    BY DEF TextInv, StageInv, BridgeInv, PublishUnit, Over, books
  <1>2. \/ step' = "ended" /\ verdictOf' \in {"interrupted", "internal"} /\ carried' = {} /\ unit' = unit
        \/ step' = "unit" /\ unit' = unit + 1 /\ UNCHANGED ends
    BY DEF PublishUnit, Leave, Stay, NoFacts
  <1>3. Ahead(0, 0, 0, 0) /\ ledger \in Counts
    BY <1>1 DEF TextInv, TextTypeOK, StageInv
  <1>4. TextTypeOK'
    BY <1>1, <1>2, LimitsAssumption DEF TextInv, TextTypeOK, StageInv, Steps, Over, ends
  <1>5. StageInv'
    BY <1>1, <1>2, <1>3 DEF StageInv, InCall, Over, Ahead, Counts, ends
  <1>6. BridgeInv'
    BY <1>1, <1>2 DEF TextInv, BridgeInv, InCall, Over
  <1>. QED  BY <1>4, <1>5, <1>6 DEF TextInv

-----------------------------------------------------------------------------
\* The adapter.  Whenever it ends a call it says how often it sent, and the plan
\* of its retries fits.
LEMMA Fits ==
    ASSUME TextInv, InCall, NEW kind,
           \/ step \in {"begin", "sent"}
           \/ kind = "cancelled"
    PROVE  Sent > 0 => ~Refuses(kind, Sent)
  BY LimitsAssumption DEF TextInv, TextTypeOK, BridgeInv, InCall, Sent, Refuses

\* A call goes on; what was sent is what the books will be told.
LEMMA PrepareCallKeeps ==
    ASSUME TextInv, PrepareCall
    PROVE  TextInv'
  <1>1. step = "begin" /\ InCall /\ Sent = 0 /\ UNCHANGED <<try, halted, happened>> /\ try = 1
    BY DEF PrepareCall, InCall, Sent, TextInv, BridgeInv
  <1>2. CASE Terminal("cancelled", 0)
    BY <1>1, <1>2, TerminalKeeps
  <1>3. CASE Terminal("internal", 0)
    BY <1>1, <1>3, TerminalKeeps
  <1>4. CASE step' = "head" /\ Stay /\ UNCHANGED <<stageVars, books>>
    <2>1. UNCHANGED <<unit, semantic, ledger, call, contact, recorded, broken, refused, verdictOf, carried>>
      BY <1>4 DEF Stay, stageVars, books, ends
    <2>2. InCall' /\ Sent' = 0
      BY <1>1, <1>4 DEF InCall, Sent
    <2>3. TextTypeOK'
      BY <1>1, <1>4, <2>1 DEF TextInv, TextTypeOK, Steps
    <2>4. StageInv'
      BY <1>1, <1>4, <2>1, <2>2 DEF TextInv, StageInv, InCall, Over, Ahead
    <2>5. BridgeInv'
      BY <1>1, <1>4, <2>1 DEF TextInv, BridgeInv, InCall, Over
    <2>. QED  BY <2>3, <2>4, <2>5 DEF TextInv
  <1>. QED  BY <1>2, <1>3, <1>4 DEF PrepareCall

LEMMA SendAttemptKeeps ==
    ASSUME TextInv, SendAttempt
    PROVE  TextInv'
  <1>1. step = "head" /\ InCall /\ ~Over /\ Sent = try - 1 /\ UNCHANGED <<try, halted>>
    BY DEF SendAttempt, InCall, Over, Sent
  <1>2. CASE halted /\ Terminal("cancelled", try - 1) /\ UNCHANGED happened
    BY <1>1, <1>2, Fits, TerminalKeeps
  <1>3. CASE /\ ~halted /\ step' = "sent" /\ Stay
             /\ happened' = [happened EXCEPT !.attempts = @ + 1, !.retries = @ + (IF try > 1 THEN 1 ELSE 0)]
             /\ UNCHANGED <<stageVars, books>>
    <2>1. UNCHANGED <<unit, semantic, ledger, call, contact, recorded, broken, refused, verdictOf, carried>>
      BY <1>3 DEF Stay, stageVars, books, ends
    <2>2. ledger \in Counts /\ happened \in Counts /\ try \in 1 .. MaxAttempts
      BY DEF TextInv, TextTypeOK
    <2>3. /\ happened' \in Counts /\ happened'.hits = happened.hits /\ happened'.misses = happened.misses
          /\ happened'.requests = happened.requests /\ happened'.attempts = happened.attempts + 1
          /\ happened'.retries = happened.retries + (IF try > 1 THEN 1 ELSE 0)
          /\ happened'.semanticRetries = happened.semanticRetries
      <3>. DEFINE one  == [happened EXCEPT !.attempts = @ + 1]
                  more == IF try > 1 THEN 1 ELSE 0
                  two  == [one EXCEPT !.retries = @ + more]
      <3>1. /\ one \in Counts /\ one.hits = happened.hits /\ one.misses = happened.misses
            /\ one.requests = happened.requests /\ one.attempts = happened.attempts + 1
            /\ one.retries = happened.retries /\ one.semanticRetries = happened.semanticRetries
        BY <2>2 DEF Counts
      <3>2. happened' = two
        BY <1>3, Zenon
      <3>. HIDE DEF one
      <3>3. more \in Nat
        OBVIOUS
      <3>4. /\ two \in Counts /\ two.hits = one.hits /\ two.misses = one.misses
            /\ two.requests = one.requests /\ two.attempts = one.attempts
            /\ two.retries = one.retries + more /\ two.semanticRetries = one.semanticRetries
        BY <3>1, <3>3 DEF Counts
      <3>. HIDE DEF two
      <3>. QED  BY <3>1, <3>2, <3>4
    <2>4. InCall' /\ ~Over' /\ Sent' = try
      BY <1>1, <1>3 DEF InCall, Sent, Over
    <2>5. TextTypeOK'
      BY <1>1, <1>3, <2>1, <2>3 DEF TextInv, TextTypeOK, Steps
    <2>6. StageInv'
      <3>1. Ahead(1, try - 1, IF try - 1 > 1 THEN try - 1 - 1 ELSE 0, 0)
        BY <1>1 DEF TextInv, StageInv
      <3>2. Ahead(1, try, IF try > 1 THEN try - 1 ELSE 0, 0)'
        BY <1>1, <2>1, <2>2, <2>3, <3>1, LimitsAssumption DEF Ahead, Counts
      <3>3. carried' = {} /\ unit' < Units
        BY <1>1, <2>1 DEF TextInv, StageInv
      <3>. QED  BY <1>1, <1>3, <2>4, <3>2, <3>3 DEF StageInv
    <2>7. BridgeInv'
      BY <1>1, <1>3, <2>1 DEF TextInv, BridgeInv, InCall, Over
    <2>. QED  BY <2>5, <2>6, <2>7 DEF TextInv
  <1>. QED  BY <1>2, <1>3 DEF SendAttempt

LEMMA SendEndsKeeps ==
    ASSUME TextInv, SendCancelled \/ SendFails
    PROVE  TextInv'
  <1>1. step = "sent" /\ InCall /\ Sent = try /\ UNCHANGED <<try, halted, happened>>
    BY DEF SendCancelled, SendFails, InCall, Sent
  <1>2. PICK kind \in {"cancelled", "provider", "internal"} : Terminal(kind, try)
    BY DEF SendCancelled, SendFails
  <1>. QED  BY <1>1, <1>2, Fits, TerminalKeeps

LEMMA AttemptFailsKeeps ==
    ASSUME TextInv, AttemptFails
    PROVE  TextInv'
  <1>1. step = "sent" /\ InCall /\ ~Over /\ Sent = try /\ UNCHANGED <<try, halted, happened>> /\ try \in 1 .. MaxAttempts
    BY DEF AttemptFails, InCall, Sent, Over, TextInv, TextTypeOK
  <1>2. CASE Terminal("provider", try)
    BY <1>1, <1>2, Fits, TerminalKeeps
  <1>3. CASE Breaks(try)
    BY <1>1, <1>3, BreaksKeeps, LimitsAssumption
  <1>4. CASE /\ MayRetry
             /\ call' = [Seen(try) EXCEPT !.scheduled = try + 1]
             /\ step' = "delay" /\ Stay /\ UNCHANGED <<stageVars, contact, recorded, broken, refused>>
    <2>1. UNCHANGED <<unit, semantic, ledger, contact, recorded, broken, refused, verdictOf, carried>>
      BY <1>4 DEF Stay, stageVars, ends
    <2>2. try < MaxAttempts /\ try + 1 \in 1 .. MaxAttempts
      BY <1>1, <1>4, LimitsAssumption DEF MayRetry
    <2>3. /\ call' \in [open : BOOLEAN, operation : BOOLEAN, observed : 0 .. MaxAttempts, scheduled : 1 .. MaxAttempts]
          /\ call'.scheduled = try + 1
      <3>1. Seen(try) \in [open : BOOLEAN, operation : BOOLEAN, observed : 0 .. MaxAttempts, scheduled : 1 .. MaxAttempts]
        BY <1>1, SeenType, LimitsAssumption
      <3>. QED  BY <1>4, <2>2, <3>1
    <2>4. InCall' /\ ~Over' /\ Sent' = try
      BY <1>1, <1>4 DEF InCall, Sent, Over
    <2>5. TextTypeOK'
      BY <1>1, <1>4, <2>1, <2>3 DEF TextInv, TextTypeOK, Steps
    <2>6. StageInv'
      BY <1>1, <1>4, <2>1, <2>4 DEF TextInv, StageInv, Ahead
    <2>7. BridgeInv'
      BY <1>1, <1>4, <2>1, <2>2, <2>3 DEF TextInv, BridgeInv, InCall, Over
    <2>. QED  BY <2>5, <2>6, <2>7 DEF TextInv
  <1>. QED  BY <1>2, <1>3, <1>4 DEF AttemptFails

LEMMA DelayKeeps ==
    ASSUME TextInv, Delay
    PROVE  TextInv'
  <1>1. step = "delay" /\ InCall /\ ~Over /\ Sent = try /\ UNCHANGED <<halted, happened>> /\ try \in 1 .. MaxAttempts
    BY DEF Delay, InCall, Sent, Over, TextInv, TextTypeOK
  <1>2. CASE Terminal("cancelled", try) /\ UNCHANGED try
    BY <1>1, <1>2, Fits, TerminalKeeps
  <1>3. CASE try' = try + 1 /\ step' = "head" /\ Stay /\ UNCHANGED <<stageVars, books>>
    <2>1. UNCHANGED <<unit, semantic, ledger, call, contact, recorded, broken, refused, verdictOf, carried>>
      BY <1>3 DEF Stay, stageVars, books, ends
    <2>2. try' \in 1 .. MaxAttempts
      BY <1>1, <1>3, LimitsAssumption DEF TextInv, BridgeInv
    <2>3. InCall' /\ ~Over' /\ Sent' = try
      BY <1>1, <1>3, <2>2, LimitsAssumption DEF InCall, Sent, Over
    <2>4. TextTypeOK'
      BY <1>1, <1>3, <2>1, <2>2 DEF TextInv, TextTypeOK, Steps
    <2>5. StageInv'
      BY <1>1, <1>3, <2>1, <2>3 DEF TextInv, StageInv, Ahead
    <2>6. BridgeInv'
      BY <1>1, <1>3, <2>1 DEF TextInv, BridgeInv, InCall, Over
    <2>. QED  BY <2>4, <2>5, <2>6 DEF TextInv
  <1>. QED  BY <1>2, <1>3 DEF Delay

\* An answer: the call is counted, and the output is used, asked for again or
\* given up.
LEMMA SendSucceedsKeeps ==
    ASSUME TextInv, SendSucceeds
    PROVE  TextInv'
  <1>1. step = "sent" /\ InCall /\ ~Over /\ Sent = try /\ UNCHANGED <<try, halted, happened>> /\ try \in 1 .. MaxAttempts
        /\ carried = {} /\ unit < Units
    BY DEF SendSucceeds, InCall, Sent, Over, TextInv, TextTypeOK, StageInv
  <1>2. CASE Breaks(try)
    BY <1>1, <1>2, BreaksKeeps, LimitsAssumption
  <1>3. CASE ~Breaks(try)
    <2>1. ~Refuses("answer", Sent)
      BY <1>1, LimitsAssumption DEF TextInv, BridgeInv, Refuses
    <2>2. /\ CallAnswers(Sent) /\ ~broken /\ call' = NoCall /\ UNCHANGED <<broken, refused>>
          /\ \/ Sent = 0 /\ UNCHANGED <<contact, recorded>>
             \/ Sent > 0 /\ contact' = "contacted" /\ recorded' = recorded + Sent
      BY <1>1, <1>3, <2>1, EndsCases DEF SendSucceeds
    <2>3. Counted(Sent, TRUE) = happened /\ happened \in Counts
      BY <1>1, CountedIsHappened DEF TextInv, TextTypeOK
    <2>. DEFINE more == [happened EXCEPT !.semanticRetries = @ + 1]
    <2>4. /\ more \in Counts /\ more.hits = happened.hits /\ more.misses = happened.misses
          /\ more.requests = happened.requests /\ more.attempts = happened.attempts
          /\ more.retries = happened.retries /\ more.semanticRetries = happened.semanticRetries + 1
      BY <2>3 DEF Counts
    <2>5. \/ /\ ledger' = happened /\ step' = "publish" /\ UNCHANGED ends /\ UNCHANGED <<unit, semantic>>
          \/ /\ ledger' = more /\ step' = "generate" /\ UNCHANGED ends /\ UNCHANGED unit
             /\ semantic < SemanticLimit /\ semantic' = semantic + 1
          \/ /\ ledger' = happened /\ step' = "ended" /\ verdictOf' = "failed" /\ carried' = {happened}
             /\ UNCHANGED <<unit, semantic>>
      BY <2>2, <2>3, Zenon DEF CallAnswers, Leave, Stay
    <2>. HIDE DEF more
    <2>6. ledger' \in Counts /\ ledger'.attempts = happened.attempts /\ step' \in {"ended", "publish", "generate"}
      BY <2>3, <2>4, <2>5
    <2>7. /\ BridgeInv'
          /\ call' \in [open : BOOLEAN, operation : BOOLEAN, observed : 0 .. MaxAttempts, scheduled : 1 .. MaxAttempts]
          /\ contact' \in {"open", "contacted", "zero"} /\ recorded' \in Nat
      BY <1>1, <2>2, <2>6, ClosedBooks
    <2>8. /\ semantic' \in 1 .. SemanticLimit /\ unit' \in 0 .. Units /\ unit' < Units
          /\ verdictOf' \in {"none", "ok", "failed", "interrupted", "internal"}
          /\ carried' \subseteq {happened}
          /\ step' = "generate" => semantic' > 1
      BY <1>1, <2>5, LimitsAssumption DEF TextInv, TextTypeOK, ends
    <2>9. TextTypeOK'
      BY <1>1, <2>2, <2>3, <2>6, <2>7, <2>8 DEF TextInv, TextTypeOK, Steps
    <2>10. StageInv'
      <3>1. step' = "publish" => Ahead(0, 0, 0, 0)'
        BY <1>1, <2>3, <2>5 DEF Ahead, Counts
      <3>2. step' = "generate" => Ahead(0, 0, 0, 1)'
        BY <1>1, <2>3, <2>4, <2>5 DEF Ahead, Counts
      <3>3. step' \in {"publish", "generate"} => carried' = {}
        BY <1>1, <2>5 DEF ends
      <3>. QED  BY <1>1, <2>5, <2>6, <2>8, <3>1, <3>2, <3>3 DEF StageInv, InCall, Over
    <2>. QED  BY <2>7, <2>9, <2>10 DEF TextInv
  <1>. QED  BY <1>2, <1>3

LEMMA CloseStageKeeps ==
    ASSUME TextInv, CloseStage
    PROVE  TextInv'
  <1>1. /\ step = "ended" /\ step' = "closed"
        /\ UNCHANGED <<unit, semantic, ledger, try, broken, refused, halted, verdictOf, carried, happened>>
    BY DEF CloseStage, stageVars, ends
  <1>2. StageInv'
    BY <1>1 DEF TextInv, StageInv, InCall, Over
  <1>3. CASE broken
    <2>1. UNCHANGED <<contact, recorded, call>>
      BY <1>3 DEF CloseStage
    <2>. QED  BY <1>1, <1>2, <1>3, <2>1 DEF TextInv, TextTypeOK, BridgeInv, Steps, InCall, Over
  <1>4. CASE ~broken
    <2>1. /\ call = NoCall /\ recorded = ledger.attempts /\ (contact = "contacted" <=> recorded > 0)
          /\ ledger.attempts = happened.attempts /\ recorded \in Nat /\ ~refused
      BY <1>1, <1>4 DEF TextInv, TextTypeOK, StageInv, BridgeInv, InCall, Over
    <2>2. ~call.open
      BY <2>1 DEF NoCall
    <2>3. /\ contact' = IF contact = "contacted" THEN "contacted" ELSE "zero"
          /\ recorded' = recorded + 0 /\ call' = NoCall
      BY <1>4, <2>2 DEF CloseStage
    <2>4. TextTypeOK'
      BY <1>1, <2>1, <2>3 DEF TextInv, TextTypeOK, Steps
    <2>5. BridgeInv'
      BY <1>1, <1>4, <2>1, <2>3 DEF BridgeInv, InCall, Over
    <2>. QED  BY <1>2, <2>4, <2>5 DEF TextInv
  <1>. QED  BY <1>3, <1>4

LEMMA CancelRunKeeps ==
    ASSUME TextInv, CancelRun
    PROVE  TextInv'
  <1>1. /\ halted' = TRUE
        /\ UNCHANGED <<step, unit, semantic, ledger, try, call, contact, recorded, broken, refused, verdictOf, carried, happened>>
    BY DEF CancelRun, stageVars, books, ends
  <1>. QED  BY <1>1 DEF TextInv, TextTypeOK, StageInv, BridgeInv, InCall, Sent, Over, Ahead

\* The books of a stage fit each other at every step.
THEOREM TextInvariant == TextSpec => []TextInv
  <1>1. TextInit => TextInv
    <2>. SUFFICES ASSUME TextInit PROVE TextInv
      OBVIOUS
    <2>1. NoCounts \in Counts /\ NoCounts.attempts = 0
      BY DEF NoCounts, Counts
    <2>2. ledger = NoCounts /\ happened = NoCounts /\ step = "unit" /\ carried = {} /\ call = NoCall
          /\ recorded = 0 /\ contact = "open" /\ ~broken /\ ~refused
      BY DEF TextInit, NoFacts
    <2>3. TextTypeOK
      <3>1. call \in [open : BOOLEAN, operation : BOOLEAN, observed : 0 .. MaxAttempts, scheduled : 1 .. MaxAttempts]
        BY <2>2, LimitsAssumption DEF NoCall
      <3>2. /\ step \in Steps /\ unit \in 0 .. Units /\ semantic \in 1 .. SemanticLimit /\ try \in 1 .. MaxAttempts
        BY LimitsAssumption DEF TextInit, Steps
      <3>3. /\ halted \in BOOLEAN /\ broken \in BOOLEAN /\ refused \in BOOLEAN /\ verdictOf = "none"
        BY DEF TextInit
      <3>. QED  BY <2>1, <2>2, <3>1, <3>2, <3>3 DEF TextTypeOK
    <2>4. StageInv
      BY <2>1, <2>2 DEF StageInv, InCall, Over, Ahead, Counts
    <2>5. BridgeInv
      BY <2>1, <2>2 DEF BridgeInv, InCall, Over
    <2>. QED  BY <2>3, <2>4, <2>5 DEF TextInv
  <1>2. TextInv /\ [TextNext]_textVars => TextInv'
    <2>. SUFFICES ASSUME TextInv, [TextNext]_textVars PROVE TextInv'
      OBVIOUS
    <2>1. CASE Stage
      BY <2>1, NextUnitKeeps, AllDoneKeeps, BeginCallKeeps, PublishUnitKeeps, CloseStageKeeps DEF Stage
    <2>2. CASE Adapter
      BY <2>2, PrepareCallKeeps, SendAttemptKeeps, SendEndsKeeps, AttemptFailsKeeps, SendSucceedsKeeps,
         DelayKeeps DEF Adapter
    <2>3. CASE CancelRun
      BY <2>3, CancelRunKeeps
    <2>4. CASE UNCHANGED textVars
      BY <2>4 DEF textVars, stageVars, books, ends, TextInv, TextTypeOK, StageInv, BridgeInv, InCall, Sent, Over, Ahead
    <2>. QED  BY <2>1, <2>2, <2>3, <2>4 DEF TextNext
  <1>. QED  BY <1>1, <1>2, PTL DEF TextSpec

\* The books of a stage are numbers, and no attempt, repetition or unit of it goes
\* beyond its limit (the loops of TopicReview, SubtitleOptimization and the adapter).
THEOREM TextTypeCorrect == TextSpec => []TextTypeOK
  <1>1. TextInv => TextTypeOK
    BY DEF TextInv
  <1>. QED  BY <1>1, TextInvariant, PTL

\* However a stage of the text model ends - with a result, a failure of the
\* provider, a cancellation between any two steps, or a record that cannot be
\* written - the facts it carries and the facts the diagnostics keep are what
\* went over the wire (application of TopicReview and SubtitleOptimization, the
\* adapter of StepFun, the bridge of the diagnostics).
THEOREM TextAccountsTruthful == TextSpec => []AccountsTruthful
  <1>1. TextInv => AccountsTruthful
    <2>. SUFFICES ASSUME TextInv PROVE AccountsTruthful
      OBVIOUS
    <2>1. FactsTruthful
      BY DEF TextInv, StageInv, FactsTruthful
    <2>2. DisclosureTruthful
      <3>1. ~refused /\ (contact = "zero" => happened.attempts = 0)
        BY DEF TextInv, BridgeInv
      <3>2. ASSUME step = "closed", ~broken
            PROVE  recorded = happened.attempts /\ (contact = "contacted" <=> recorded > 0)
        BY <3>2 DEF TextInv, StageInv, BridgeInv, Over
      <3>. QED  BY <3>1, <3>2 DEF DisclosureTruthful
    <2>. QED  BY <2>1, <2>2 DEF AccountsTruthful
  <1>. QED  BY <1>1, TextInvariant, PTL
================================================================================
