-------------------------- MODULE RecognitionProofs --------------------------
(***************************************************************************)
(* The threads of the recognition.  For any number of works, workers,      *)
(* attempts and cache entries: what one call of observe reports is what    *)
(* happened to its works, nothing of it is left behind, and zero requests  *)
(* are declared only if none was sent.  No exchange over HTTPS leaves a    *)
(* socket, no use of a child process a child or a cut-off output.          *)
(***************************************************************************)
EXTENDS ShardPool, HttpsExchange, MediaProcess, FiniteSetTheorems, WellFoundedInduction, NaturalsInduction,
        TLAPS

-----------------------------------------------------------------------------
(* The pool: its inductive invariant                                         *)

Over == {"join", "returned", "stageEnded"}
Holding == {"compute", "send", "delay", "publish"}

\* The future, the thread and the outcome of a work tell the same story, and a
\* work that was stopped has somebody who stopped it.
WorkInv ==
    \A w \in Works :
        /\ future[w] = "none" <=> w > next
        /\ future[w] = "queued" => w \in pending /\ main \notin Over
        /\ future[w] = "running" <=> at[w] \notin {"idle", "done"}
        /\ future[w] = "finished" <=> at[w] = "done"
        /\ future[w] = "cancelled" => failures # {} \/ main \in Over
        /\ outcome[w] # "none" <=> at[w] = "done"
        /\ outcome[w] = "root" => root
        /\ outcome[w] \in {"cachestop", "sibling"} => stopped
        /\ outcome[w] = "truncated" => attempts[w] = MaxAttempts
        /\ at[w] \notin Holding => \A k \in Keys : holder[k] # w
        /\ main \in {"returned", "stageEnded"} => future[w] # "running"

\* What the bridge knows of a request that was sent.
RequestInv ==
    /\ \A w \in Works :
        /\ request[w] = "none" <=> attempts[w] = 0
        /\ at[w] \in {"idle", "lookup", "claim", "compute"} => request[w] = "none"
        /\ at[w] \in {"send", "delay"} => request[w] = "open"
        /\ at[w] = "delay" => attempts[w] < MaxAttempts
        /\ request[w] = "none" => w \notin observed
        /\ request[w] = "open" => at[w] \in {"send", "delay"} \/ (w \in observed /\ sinkFailed)
        /\ request[w] = "closed" => disclosed = "contacted"
        /\ main = "stageEnded" => request[w] # "open"
    /\ disclosed = "contacted" => \E w \in Works : attempts[w] # 0
    /\ disclosed = "zero" => main = "stageEnded"
    /\ main = "stageEnded" => disclosed # "open"

\* What the calling thread has collected.
MainInv ==
    /\ \A w \in failures : Failed(w)
    /\ stopped => failures # {} \/ main \in Over
    /\ main \in {"dispatch", "loop", "wait", "stop"} => answer = "none"
    /\ main = "stop" => failures # {} /\ ~Sequential
    /\ Sequential => ~stopped
    /\ Cardinality(pending) <= limit
    /\ \A w \in pending : w <= next
    /\ main = "wait" => pending # {}
    /\ main \in {"loop", "wait"} /\ failures = {} => pending # {} \/ next = Cardinality(Works)
    /\ failures = {} /\ answer # "interrupted" =>
           \A w \in Works \ pending : w <= next => outcome[w] = "ok"
    /\ answer = "ok" => pending = {} /\ failures = {} /\ next = Cardinality(Works)
    /\ answer = "interrupted" => root
    /\ answer = "failed" => failures # {}
    /\ answer = "none" => main \in {"dispatch", "loop", "wait", "stop"}

PoolInv == TypeOK /\ WorkInv /\ RequestInv /\ MainInv

-----------------------------------------------------------------------------
(* The smaller of two numbers.                                              *)
LEMMA MinOfTwo ==
    ASSUME NEW a \in Nat, NEW b \in Int
    PROVE  /\ Min({a, b}) \in {a, b}
           /\ Min({a, b}) <= a /\ Min({a, b}) <= b
<1>1. \E x \in {a, b} : \A y \in {a, b} : x <= y
    BY SMT
<1> QED BY <1>1 DEF Min

(* The first of the failures is one of them.                                *)
LEMMA MinIsMember ==
    ASSUME NEW S \in SUBSET Nat, S # {}
    PROVE  Min(S) \in S
<1> DEFINE R == {ss \in Nat \X Nat : ss[1] < ss[2]}
<1>1. IsWellFoundedOn(R, Nat)
    BY NatLessThanWellFounded, Zenon DEF OpToRel
<1> HIDE DEF R
<1>2. PICK x \in S : \A y \in S : ~(<<y, x>> \in R)
    BY <1>1, WFMin
<1>3. ASSUME NEW y \in S PROVE x <= y
  <2>1. <<y, x>> \notin R
    BY <1>2
  <2>2. <<y, x>>[1] = y /\ <<y, x>>[2] = x
    OBVIOUS
  <2> QED BY <2>1, <2>2, SMT DEF R
<1> QED BY <1>3 DEF Min

(* The works are counted from one, and fewer are pending than there are.     *)
LEMMA WorksCounted ==
    ASSUME ConstantsAssumption, TypeOK
    PROVE  /\ Cardinality(Works) \in Nat /\ Works = 1 .. Cardinality(Works) /\ Works # {}
           /\ IsFiniteSet(pending) /\ Cardinality(pending) \in Nat
           /\ limit \in Nat \ {0} /\ next \in Nat
BY FS_CardinalityType, FS_Subset DEF ConstantsAssumption, TypeOK

(* Dispatch hands the next works to the pool, as many as it has room for.    *)
LEMMA DispatchEffect ==
    ASSUME ConstantsAssumption, TypeOK, Dispatch, Cardinality(pending) <= limit,
           \A w \in pending : w <= next
    PROVE  \E new \in SUBSET Works :
             /\ next' \in next .. Cardinality(Works)
             /\ \A w \in Works : w \in new <=> next < w /\ w <= next'
             /\ pending' = pending \cup new /\ Cardinality(pending') <= limit
             /\ future' = [w \in Works |-> IF w \in new THEN "queued" ELSE future[w]]
             /\ failures = {} => pending' # {} \/ next' = Cardinality(Works)
             /\ main = "dispatch" /\ main' = "loop"
             /\ UNCHANGED <<limit, failures, answer, at, attempts, outcome, root, stopped, cacheVars, bridgeVars>>
<1> DEFINE size == Cardinality(Works)
           room == next + limit - Cardinality(pending)
           last == Min({size, room})
           new  == IF failures = {} THEN (next + 1) .. last ELSE {}
<1>1. /\ size \in Nat /\ Works = 1 .. size /\ next \in 0 .. size
      /\ IsFiniteSet(pending) /\ Cardinality(pending) \in Nat /\ limit \in Nat \ {0}
    BY WorksCounted DEF TypeOK
<1>2. last \in {size, room} /\ last <= size /\ last <= room
    BY <1>1, MinOfTwo
<1>3. room \in Int /\ last \in Int /\ next <= last
    BY <1>1, <1>2
<1> HIDE DEF last, room, size
<1>4. new \subseteq Works /\ IsFiniteSet(new)
      /\ Cardinality(new) = IF failures = {} THEN last - next ELSE 0
  <2>1. CASE failures # {}
      BY <2>1, FS_EmptySet
  <2>2. CASE failures = {}
    <3>1. new = (next + 1) .. last
        BY <2>2
    <3>0. next + 1 \in Int /\ last \in Int
        BY <1>1, <1>3
    <3> DEFINE low == next + 1
    <3> HIDE DEF low
    <3>4. /\ IsFiniteSet(low .. last)
          /\ Cardinality(low .. last) = IF low > last THEN 0 ELSE last - low + 1
        BY <3>0, FS_Interval DEF low
    <3>2. IsFiniteSet(new) /\ Cardinality(new) = IF next + 1 > last THEN 0 ELSE last - (next + 1) + 1
        BY <3>1, <3>4 DEF low
    <3>3. new \subseteq 1 .. size
        BY <1>1, <1>2, <1>3, <3>1
    <3> QED BY <1>1, <1>3, <2>2, <3>2, <3>3
  <2> QED BY <2>1, <2>2
<1>5. /\ next' = next + Cardinality(new)
      /\ pending' = pending \cup new
      /\ future' = [w \in Works |-> IF w \in new THEN "queued" ELSE future[w]]
      /\ main = "dispatch" /\ main' = "loop"
      /\ UNCHANGED <<limit, failures, answer, at, attempts, outcome, root, stopped, cacheVars, bridgeVars>>
    BY DEF Dispatch, last, room, size
<1>6. next' = IF failures = {} THEN last ELSE next
    BY <1>1, <1>3, <1>4, <1>5
<1>7. \A w \in Works : w \in new <=> next < w /\ w <= next'
    BY <1>1, <1>3, <1>6
<1>8. Cardinality(pending') <= limit
  <2>1. Cardinality(pending \cup new) <= Cardinality(pending) + Cardinality(new)
    <3>1. Cardinality(pending \cap new) \in Nat
        BY <1>1, FS_Intersection, FS_CardinalityType
    <3>2. Cardinality(pending \cup new)
            = Cardinality(pending) + Cardinality(new) - Cardinality(pending \cap new)
        BY <1>1, <1>4, FS_Union
    <3>3. Cardinality(new) \in Nat
        BY <1>4, FS_CardinalityType
    <3> QED BY <1>1, <3>1, <3>2, <3>3
  <2>2. Cardinality(pending) + Cardinality(new) <= limit
      BY <1>1, <1>2, <1>3, <1>4 DEF room
  <2>3. Cardinality(pending \cup new) \in Nat
      BY <1>1, <1>4, FS_Union, FS_CardinalityType
  <2> QED BY <1>1, <1>4, <1>5, <2>1, <2>2, <2>3, FS_CardinalityType
<1>9. failures = {} => pending' # {} \/ next' = size
  <2>1. ASSUME failures = {}, pending' = {} PROVE next' = size
    <3>1. pending = {} /\ new = {}
        BY <1>5, <2>1
    <3>2. Cardinality(pending) = 0 /\ Cardinality(new) = 0
        BY <3>1, FS_EmptySet
    <3> QED BY <1>1, <1>2, <1>3, <1>4, <1>6, <2>1, <3>2 DEF room
  <2> QED BY <2>1
<1>10. next' \in next .. size
    BY <1>1, <1>2, <1>3, <1>6
<1> HIDE DEF new
<1> QED BY <1>4, <1>5, <1>7, <1>8, <1>9, <1>10 DEF size

(* Every step keeps the types.                                              *)
LEMMA NextTypeOK == ConstantsAssumption /\ PoolInv /\ [Next]_vars => TypeOK'
<1> SUFFICES ASSUME ConstantsAssumption, TypeOK, WorkInv, RequestInv, MainInv, [Next]_vars
             PROVE  TypeOK'
    BY DEF PoolInv
<1>0. /\ Cardinality(pending) <= limit /\ \A w \in pending : w <= next
      /\ Cardinality(Works) \in Nat /\ next \in Nat
    BY WorksCounted DEF MainInv
<1> USE DEF TypeOK, Futures, Positions, Outcomes, Mains, Answers
<1> USE DEF poolVars, workVars, cacheVars, bridgeVars
<1>1. CASE UNCHANGED vars
    BY <1>1 DEF vars
<1>2. CASE Dispatch
    BY <1>0, <1>2, DispatchEffect
<1>3. CASE CheckRoot
    BY <1>3 DEF CheckRoot
<1>4. CASE Poll
    BY <1>4 DEF Poll
<1>5. CASE Collect
  <2>1. Ended \subseteq Works /\ Unexplained \subseteq Works
    BY DEF Ended, Unexplained
  <2> QED BY <1>5, <2>1 DEF Collect
<1>6. CASE StopSiblings
    BY <1>6 DEF StopSiblings, CancelQueued
<1>7. CASE Conclude
    BY <1>7 DEF Conclude
<1>8. CASE Unwind
  <2>1. stopped' \in BOOLEAN
    BY <1>8 DEF Unwind
  <2> QED BY <1>8, <2>1 DEF Unwind, CancelQueued
<1>9. CASE Join
    BY <1>9 DEF Join
<1>10. CASE FailUnresolved
    BY <1>10 DEF FailUnresolved
<1>11. CASE CancelRoot
    BY <1>11 DEF CancelRoot
<1>12. ASSUME NEW w \in Works, Start(w) PROVE TypeOK'
    BY <1>12 DEF Start, NotMine, End, Release, Goto
<1>13. ASSUME NEW w \in Works, Lookup(w) PROVE TypeOK'
    BY <1>13 DEF Lookup, NotMine, End, Release, Goto, CacheCancelled
<1>14. ASSUME NEW w \in Works, Claim(w) PROVE TypeOK'
    BY <1>14 DEF Claim, NotMine, End, Release, Goto, CacheCancelled
<1>15. ASSUME NEW w \in Works, BeginRequest(w) PROVE TypeOK'
  <2>1. attempts' \in [Works -> 0 .. MaxAttempts]
    BY <1>15 DEF BeginRequest, ConstantsAssumption
  <2>2. request' \in [Works -> {"none", "open", "closed"}] /\ sinkFailed' \in BOOLEAN
    BY <1>15 DEF BeginRequest
  <2>3. /\ at' \in [Works -> Positions] /\ future' \in [Works -> Futures]
        /\ outcome' \in [Works -> Outcomes] /\ holder' \in [Keys -> Works \cup {None, Foreign}]
    BY <1>15 DEF BeginRequest, End, Release, Goto, Stop
  <2>4. /\ UNCHANGED <<limit, main, next, pending, failures, answer, root, stopped, cached>>
        /\ UNCHANGED <<observed, disclosed>>
    BY <1>15 DEF BeginRequest, NotMine
  <2> HIDE DEF Positions, Futures, Outcomes, Mains, Answers
  <2> QED BY <2>1, <2>2, <2>3, <2>4
<1>16. ASSUME NEW w \in Works, Respond(w) PROVE TypeOK'
    BY <1>16 DEF Respond, NotMine, End, Release, Goto, Close, Breaks, Sees
<1>17. ASSUME NEW w \in Works, StopRequest(w) PROVE TypeOK'
    BY <1>17 DEF StopRequest, NotMine, Terminal, Close, Breaks, Sees, End, Release, Stop
<1>18. ASSUME NEW w \in Works, Fail(w) PROVE TypeOK'
  <2>1. /\ UNCHANGED <<limit, main, next, pending, failures, answer, root, stopped, attempts, cached>>
        /\ (\E how \in Outcomes : End(w, how)) \/ (Goto(w, "delay") /\ UNCHANGED holder)
        /\ request' \in {request, [request EXCEPT ![w] = "closed"]} /\ observed' = observed \cup {w}
    BY <1>18 DEF Fail, FailAttempt, NotMine, Terminal, Close, Breaks, Sees
  <2>2. sinkFailed' \in BOOLEAN /\ disclosed' \in {"open", "contacted", "zero"}
    BY <1>18 DEF Fail, FailAttempt, Terminal, Close, Breaks
  <2> QED BY <2>1, <2>2 DEF End, Release, Goto
<1>19. ASSUME NEW w \in Works, Truncate(w) PROVE TypeOK'
  <2>1. /\ UNCHANGED <<limit, main, next, pending, failures, answer, root, stopped, attempts, cached>>
        /\ (\E how \in Outcomes : End(w, how)) \/ (Goto(w, "delay") /\ UNCHANGED holder)
        /\ request' \in {request, [request EXCEPT ![w] = "closed"]} /\ observed' = observed \cup {w}
    BY <1>19 DEF Truncate, FailAttempt, NotMine, Terminal, Close, Breaks, Sees
  <2>2. sinkFailed' \in BOOLEAN /\ disclosed' \in {"open", "contacted", "zero"}
    BY <1>19 DEF Truncate, FailAttempt, Terminal, Close, Breaks
  <2> QED BY <2>1, <2>2 DEF End, Release, Goto
<1>20. ASSUME NEW w \in Works, Retry(w) PROVE TypeOK'
  <2>1. attempts' \in [Works -> 0 .. MaxAttempts]
    BY <1>20 DEF Retry, RequestInv, ConstantsAssumption
  <2> QED BY <1>20, <2>1 DEF Retry, NotMine, Goto
<1>21. ASSUME NEW w \in Works, Publish(w) PROVE TypeOK'
  <2>1. cached' \subseteq Keys
    BY <1>21 DEF Publish, ConstantsAssumption
  <2> QED BY <1>21, <2>1 DEF Publish, NotMine, End, Release, Goto, CacheCancelled
<1>22. ASSUME NEW w \in Works, Finish(w) PROVE TypeOK'
    BY <1>22 DEF Finish, NotMine, End, Release, Stop
<1>23. ASSUME NEW k \in Keys, ForeignReleases(k) PROVE TypeOK'
    BY <1>23 DEF ForeignReleases
<1> QED BY <1>1, <1>2, <1>3, <1>4, <1>5, <1>6, <1>7, <1>8, <1>9, <1>10, <1>11, <1>12, <1>13, <1>14,
    <1>15, <1>16, <1>17, <1>18, <1>19, <1>20, <1>21, <1>22, <1>23 DEF Next, Caller, Worker, Attempt

(* The futures, the threads and the outcomes stay in step.                  *)
LEMMA NextWorkInv == ConstantsAssumption /\ PoolInv /\ [Next]_vars => WorkInv'
<1> SUFFICES ASSUME ConstantsAssumption, TypeOK, WorkInv, RequestInv, MainInv, [Next]_vars
             PROVE  WorkInv'
    BY DEF PoolInv
<1> USE DEF ConstantsAssumption, TypeOK, WorkInv, Over, Holding, Futures, Positions, Outcomes, Sequential, CacheStopped, RequestStopped
<1> USE DEF poolVars, workVars, cacheVars, bridgeVars
<1>1. CASE UNCHANGED vars
    BY <1>1 DEF vars
<1>2. CASE Dispatch
  <2>1. PICK new \in SUBSET Works :
           /\ next' \in next .. Cardinality(Works)
           /\ \A w \in Works : w \in new <=> next < w /\ w <= next'
           /\ pending' = pending \cup new
           /\ future' = [w \in Works |-> IF w \in new THEN "queued" ELSE future[w]]
           /\ main = "dispatch" /\ main' = "loop"
           /\ UNCHANGED <<limit, failures, answer, at, attempts, outcome, root, stopped, cacheVars, bridgeVars>>
    BY <1>2, DispatchEffect DEF MainInv
  <2>2. /\ Cardinality(Works) \in Nat /\ Works = 1 .. Cardinality(Works) /\ next \in Nat
    BY WorksCounted
  <2>3. ASSUME NEW w \in Works PROVE w \in Int /\ (w \in new => future[w] = "none")
    BY <2>1, <2>2
  <2>4. next' \in Int
    BY <2>1, <2>2
  <2>5. \A w \in Works : future'[w] = IF w \in new THEN "queued" ELSE future[w]
    BY <2>1
  <2>6. \A w \in Works : future'[w] = "none" <=> w > next'
    BY <2>1, <2>2, <2>3, <2>4, <2>5
  <2> QED BY <2>1, <2>3, <2>5, <2>6
<1>3. CASE CheckRoot
    BY <1>3 DEF CheckRoot
<1>4. CASE Poll
    BY <1>4 DEF Poll
<1>5. CASE Collect
    BY <1>5 DEF Collect, Ended, Unexplained
<1>6. CASE StopSiblings
    BY <1>6 DEF StopSiblings, CancelQueued, MainInv
<1>7. CASE Conclude
    BY <1>7 DEF Conclude
<1>8. CASE Unwind
    BY <1>8 DEF Unwind, CancelQueued, MainInv
<1>9. CASE Join
    BY <1>9 DEF Join
<1>10. CASE FailUnresolved
    BY <1>10 DEF FailUnresolved
<1>11. CASE CancelRoot
    BY <1>11 DEF CancelRoot
<1>12. ASSUME NEW w \in Works, Start(w) PROVE WorkInv'
    BY <1>12 DEF Start, NotMine, End, Release, Goto
<1>13. ASSUME NEW w \in Works, Lookup(w) PROVE WorkInv'
    BY <1>13 DEF Lookup, NotMine, End, Release, Goto, CacheCancelled
<1>14. ASSUME NEW w \in Works, Claim(w) PROVE WorkInv'
    BY <1>14 DEF Claim, NotMine, End, Release, Goto, CacheCancelled
<1>15. ASSUME NEW w \in Works, BeginRequest(w) PROVE WorkInv'
    BY <1>15 DEF BeginRequest, NotMine, End, Release, Goto, Stop
<1>16. ASSUME NEW w \in Works, Respond(w) PROVE WorkInv'
    BY <1>16 DEF Respond, NotMine, End, Release, Goto, Close, Breaks, Sees
<1>17. ASSUME NEW w \in Works, StopRequest(w) PROVE WorkInv'
    BY <1>17 DEF StopRequest, NotMine, Terminal, Close, Breaks, Sees, End, Release, Stop
<1>18. ASSUME NEW w \in Works, Fail(w) PROVE WorkInv'
    BY <1>18 DEF Fail, FailAttempt, NotMine, Terminal, Close, Breaks, Sees, End, Release, Goto
<1>19. ASSUME NEW w \in Works, Truncate(w) PROVE WorkInv'
    BY <1>19 DEF Truncate, FailAttempt, NotMine, Terminal, Close, Breaks, Sees, End, Release, Goto
<1>20. ASSUME NEW w \in Works, Retry(w) PROVE WorkInv'
    BY <1>20 DEF Retry, NotMine, Goto
<1>21. ASSUME NEW w \in Works, Publish(w) PROVE WorkInv'
    BY <1>21 DEF Publish, NotMine, End, Release, Goto, CacheCancelled
<1>22. ASSUME NEW w \in Works, Finish(w) PROVE WorkInv'
    BY <1>22 DEF Finish, NotMine, End, Release, Stop
<1>23. ASSUME NEW k \in Keys, ForeignReleases(k) PROVE WorkInv'
    BY <1>23 DEF ForeignReleases
<1> QED BY <1>1, <1>2, <1>3, <1>4, <1>5, <1>6, <1>7, <1>8, <1>9, <1>10, <1>11, <1>12, <1>13, <1>14,
    <1>15, <1>16, <1>17, <1>18, <1>19, <1>20, <1>21, <1>22, <1>23 DEF Next, Caller, Worker, Attempt

(* What the bridge knows of the requests stays true.                        *)
LEMMA NextRequestInv == ConstantsAssumption /\ PoolInv /\ [Next]_vars => RequestInv'
<1> SUFFICES ASSUME ConstantsAssumption, TypeOK, WorkInv, RequestInv, MainInv, [Next]_vars
             PROVE  RequestInv'
    BY DEF PoolInv
<1> USE DEF ConstantsAssumption, TypeOK, WorkInv, RequestInv, Over, Holding, Futures, Positions, Outcomes, RequestStopped
<1> USE DEF poolVars, workVars, cacheVars, bridgeVars
<1>1. CASE UNCHANGED vars
    BY <1>1 DEF vars
<1>2. CASE Dispatch
    BY <1>2, DispatchEffect DEF Dispatch
<1>3. CASE CheckRoot
    BY <1>3 DEF CheckRoot
<1>4. CASE Poll
    BY <1>4 DEF Poll
<1>5. CASE Collect
    BY <1>5 DEF Collect, Ended, Unexplained
<1>6. CASE StopSiblings
    BY <1>6 DEF StopSiblings, CancelQueued
<1>7. CASE Conclude
    BY <1>7 DEF Conclude
<1>8. CASE Unwind
    BY <1>8 DEF Unwind, CancelQueued
<1>9. CASE Join
    BY <1>9 DEF Join
<1>10. CASE FailUnresolved
    BY <1>10 DEF FailUnresolved
<1>11. CASE CancelRoot
    BY <1>11 DEF CancelRoot
<1>12. ASSUME NEW w \in Works, Start(w) PROVE RequestInv'
  <2>1. at[w] = "idle" /\ request[w] = "none"
    BY <1>12 DEF Start
  <2>2. at' = [at EXCEPT ![w] = "done"] \/ at' = [at EXCEPT ![w] = "lookup"]
    BY <1>12 DEF Start, End
  <2>3. UNCHANGED <<main, attempts, request, observed, sinkFailed, disclosed>>
    BY <1>12 DEF Start, NotMine
  <2>4. \A v \in Works : v # w => at'[v] = at[v]
    BY <2>2
  <2> QED BY <2>1, <2>2, <2>3, <2>4
<1>13. ASSUME NEW w \in Works, Lookup(w) PROVE RequestInv'
    BY <1>13 DEF Lookup, NotMine, End, Release, Goto, CacheCancelled
<1>14. ASSUME NEW w \in Works, Claim(w) PROVE RequestInv'
    BY <1>14 DEF Claim, NotMine, End, Release, Goto, CacheCancelled
<1>15. ASSUME NEW w \in Works, BeginRequest(w) PROVE RequestInv'
    BY <1>15 DEF BeginRequest, NotMine, End, Release, Goto, Stop
<1>16. ASSUME NEW w \in Works, Respond(w) PROVE RequestInv'
    BY <1>16 DEF Respond, NotMine, End, Release, Goto, Close, Breaks, Sees
<1>17. ASSUME NEW w \in Works, StopRequest(w) PROVE RequestInv'
    BY <1>17 DEF StopRequest, NotMine, Terminal, Close, Breaks, Sees, End, Release, Stop
<1>18. ASSUME NEW w \in Works, Fail(w) PROVE RequestInv'
    BY <1>18 DEF Fail, FailAttempt, NotMine, Terminal, Close, Breaks, Sees, End, Release, Goto
<1>19. ASSUME NEW w \in Works, Truncate(w) PROVE RequestInv'
    BY <1>19 DEF Truncate, FailAttempt, NotMine, Terminal, Close, Breaks, Sees, End, Release, Goto
<1>20. ASSUME NEW w \in Works, Retry(w) PROVE RequestInv'
    BY <1>20 DEF Retry, NotMine, Goto
<1>21. ASSUME NEW w \in Works, Publish(w) PROVE RequestInv'
    BY <1>21 DEF Publish, NotMine, End, Release, Goto, CacheCancelled
<1>22. ASSUME NEW w \in Works, Finish(w) PROVE RequestInv'
    BY <1>22 DEF Finish, NotMine, End, Release, Stop
<1>23. ASSUME NEW k \in Keys, ForeignReleases(k) PROVE RequestInv'
    BY <1>23 DEF ForeignReleases
<1> QED BY <1>1, <1>2, <1>3, <1>4, <1>5, <1>6, <1>7, <1>8, <1>9, <1>10, <1>11, <1>12, <1>13, <1>14,
    <1>15, <1>16, <1>17, <1>18, <1>19, <1>20, <1>21, <1>22, <1>23 DEF Next, Caller, Worker, Attempt

(* A thread works for its own work only, which has not ended before.         *)
LEMMA WorkerFrame ==
    ASSUME TypeOK, WorkInv, NEW w \in Works, Worker(w)
    PROVE  /\ NotMine /\ outcome[w] = "none" /\ future[w] # "none"
           /\ \A v \in Works : v # w => outcome'[v] = outcome[v]
<1>1. NotMine
    BY DEF Worker, Attempt, Start, Lookup, Claim, BeginRequest, Respond, StopRequest, Fail, Truncate, Retry, Publish, Finish
<1>2. at[w] # "done" /\ future[w] # "none"
    BY DEF TypeOK, WorkInv, Worker, Attempt, Start, Lookup, Claim, BeginRequest, Respond, StopRequest, Fail, Truncate, Retry, Publish, Finish
<1>3. outcome' = outcome \/ \E how : outcome' = [outcome EXCEPT ![w] = how]
  <2>1. CASE Start(w)
    BY <2>1 DEF Start, NotMine, End, Goto
  <2>2. CASE Lookup(w)
    BY <2>2 DEF Lookup, NotMine, End, Goto, CacheCancelled
  <2>3. CASE Claim(w)
    BY <2>3 DEF Claim, NotMine, End, Goto, CacheCancelled
  <2>4. CASE BeginRequest(w)
    BY <2>4 DEF BeginRequest, NotMine, End, Goto
  <2>5. CASE Respond(w)
    BY <2>5 DEF Respond, NotMine, End, Goto, Breaks
  <2>6. CASE StopRequest(w)
    BY <2>6 DEF StopRequest, NotMine, Terminal, Breaks, End
  <2>7. CASE Fail(w)
    BY <2>7 DEF Fail, FailAttempt, NotMine, Terminal, Breaks, End, Goto
  <2>8. CASE Truncate(w)
    BY <2>8 DEF Truncate, FailAttempt, NotMine, Terminal, Breaks, End, Goto
  <2>9. CASE Retry(w)
    BY <2>9 DEF Retry, NotMine, Goto
  <2>10. CASE Publish(w)
    BY <2>10 DEF Publish, NotMine, End, Goto, CacheCancelled
  <2>11. CASE Finish(w)
    BY <2>11 DEF Finish, NotMine, End
  <2> QED BY <2>1, <2>2, <2>3, <2>4, <2>5, <2>6, <2>7, <2>8, <2>9, <2>10, <2>11 DEF Worker, Attempt
<1>4. outcome[w] = "none"
    BY <1>2 DEF WorkInv, TypeOK
<1> QED BY <1>1, <1>2, <1>3, <1>4 DEF TypeOK

(* What the calling thread has collected stays true.                        *)
LEMMA NextMainInv == ConstantsAssumption /\ PoolInv /\ [Next]_vars => MainInv'
<1> SUFFICES ASSUME ConstantsAssumption, TypeOK, WorkInv, RequestInv, MainInv, [Next]_vars
             PROVE  MainInv'
    BY DEF PoolInv
<1> USE DEF ConstantsAssumption, TypeOK, WorkInv, MainInv, Over, Holding, Futures, Positions, Outcomes, Sequential, CacheStopped, RequestStopped, Failed, Cancelled
<1> USE DEF poolVars, workVars, cacheVars, bridgeVars
<1>1. CASE UNCHANGED vars
    BY <1>1 DEF vars
<1>2. CASE Dispatch
  <2>1. PICK new \in SUBSET Works :
           /\ next' \in next .. Cardinality(Works)
           /\ \A w \in Works : w \in new <=> next < w /\ w <= next'
           /\ pending' = pending \cup new /\ Cardinality(pending') <= limit
           /\ failures = {} => pending' # {} \/ next' = Cardinality(Works)
           /\ main = "dispatch" /\ main' = "loop"
           /\ UNCHANGED <<limit, failures, answer, outcome, root, stopped>>
    BY <1>2, DispatchEffect
  <2>2. /\ Cardinality(Works) \in Nat /\ Works = 1 .. Cardinality(Works) /\ next \in Nat
    BY WorksCounted
  <2>3. next' \in Int /\ next <= next'
    BY <2>1, <2>2
  <2>4. \A w \in pending' : w <= next'
    BY <2>1, <2>2, <2>3
  <2>5. ASSUME NEW w \in Works \ pending', w <= next' PROVE w \in Works \ pending /\ w <= next
    BY <2>1, <2>2, <2>3, <2>5
  <2> QED BY <2>1, <2>3, <2>4, <2>5
<1>3. CASE CheckRoot
    BY <1>3 DEF CheckRoot
<1>4. CASE Poll
    BY <1>4 DEF Poll
<1>5. CASE Collect
  <2>1. /\ main = "wait" /\ pending' = pending \ Ended /\ Ended \subseteq pending /\ Ended # {}
        /\ UNCHANGED <<limit, next, outcome, root, stopped>>
    BY <1>5 DEF Collect, Ended
  <2>2. Cardinality(pending') <= limit
    <3>1. IsFiniteSet(pending) /\ Cardinality(pending) \in Nat /\ limit \in Nat
        BY WorksCounted
    <3>2. Cardinality(pending') <= Cardinality(pending)
        BY <2>1, <3>1, FS_Subset
    <3> QED BY <2>1, <3>1, <3>2, FS_Subset, FS_CardinalityType
  <2>3. CASE root /\ \E w \in Ended : Cancelled(w)
    BY <1>5, <2>1, <2>2, <2>3 DEF Collect
  <2>4. CASE ~(root /\ \E w \in Ended : Cancelled(w))
    <3>1. /\ failures' = failures \cup {w \in Ended : Failed(w)} \cup Unexplained
          /\ main' = IF failures' = {} THEN "dispatch" ELSE IF Sequential THEN "loop" ELSE "stop"
          /\ answer' = answer
      BY <1>5, <2>4 DEF Collect
    <3>2. Unexplained = {}
      BY <2>1, <2>4 DEF Unexplained
    <3>3. failures' = {} => \A w \in Ended : outcome[w] = "ok"
      <4> SUFFICES ASSUME failures' = {}, NEW w \in Ended PROVE outcome[w] = "ok"
          OBVIOUS
      <4>1. failures = {} /\ ~Failed(w) /\ ~stopped /\ w \in Works /\ main = "wait"
          BY <2>1, <3>1
      <4>2. future[w] = "finished"
          BY <4>1 DEF Ended
      <4>3. outcome[w] # "none" /\ outcome[w] # "root"
          BY <2>4, <4>1, <4>2
      <4> QED BY <4>1, <4>3
    <3> QED BY <2>1, <2>2, <3>1, <3>2, <3>3
  <2> QED BY <2>3, <2>4
<1>6. CASE StopSiblings
    BY <1>6 DEF StopSiblings, CancelQueued
<1>7. CASE Conclude
    BY <1>7 DEF Conclude
<1>8. CASE Unwind
    BY <1>8 DEF Unwind, CancelQueued
<1>9. CASE Join
    BY <1>9 DEF Join
<1>10. CASE FailUnresolved
    BY <1>10 DEF FailUnresolved
<1>11. CASE CancelRoot
    BY <1>11 DEF CancelRoot
<1>12. ASSUME NEW w \in Works, Worker(w) PROVE MainInv'
  <2>1. /\ UNCHANGED <<limit, main, next, pending, failures, answer, root, stopped>>
        /\ outcome[w] = "none" /\ future[w] # "none"
        /\ \A v \in Works : v # w => outcome'[v] = outcome[v]
    BY <1>12, WorkerFrame DEF NotMine
  <2>2. w \notin failures
    BY <2>1
  <2>3. failures = {} /\ answer # "interrupted" => w \in pending
    <3>1. w \in Int /\ next \in Int
        BY WorksCounted
    <3>2. w <= next
        BY <2>1, <3>1
    <3> QED BY <2>1, <3>2
  <2> QED BY <2>1, <2>2, <2>3
<1>13. ASSUME NEW k \in Keys, ForeignReleases(k) PROVE MainInv'
    BY <1>13 DEF ForeignReleases
<1> QED BY <1>1, <1>2, <1>3, <1>4, <1>5, <1>6, <1>7, <1>8, <1>9, <1>10, <1>11, <1>12, <1>13 DEF Next, Caller

(* The initial states satisfy the invariant.                                 *)
LEMMA InitPoolInv == ConstantsAssumption /\ Init => PoolInv
<1> SUFFICES ASSUME ConstantsAssumption, Init PROVE PoolInv
    OBVIOUS
<1>1. /\ Cardinality(Works) \in Nat /\ Works = 1 .. Cardinality(Works)
      /\ Cardinality(pending) = 0 /\ Limits \subseteq Nat \ {0} /\ MaxAttempts \in Nat \ {0}
    BY FS_CardinalityType, FS_EmptySet DEF ConstantsAssumption, Init
<1>2. TypeOK
  <2>1. holder \in [Keys -> Works \cup {None, Foreign}] /\ cached \subseteq Keys
      BY DEF Init
  <2>2. /\ at \in [Works -> Positions] /\ future \in [Works -> Futures] /\ outcome \in [Works -> Outcomes]
        /\ main \in Mains /\ answer \in Answers
      BY DEF Init, Futures, Positions, Outcomes, Mains, Answers
  <2>3. limit \in Limits /\ next \in 0 .. Cardinality(Works) /\ attempts \in [Works -> 0 .. MaxAttempts]
      BY <1>1 DEF Init
  <2>4. request \in [Works -> {"none", "open", "closed"}] /\ disclosed \in {"open", "contacted", "zero"}
      BY DEF Init
  <2>5. /\ pending \subseteq Works /\ failures \subseteq Works /\ observed \subseteq Works
        /\ root \in BOOLEAN /\ stopped \in BOOLEAN /\ sinkFailed \in BOOLEAN
      BY DEF Init
  <2> QED BY <2>1, <2>2, <2>3, <2>4, <2>5 DEF TypeOK
<1>3. WorkInv
    BY <1>1 DEF Init, WorkInv, Over, Holding, ConstantsAssumption
<1>4. RequestInv
    BY DEF Init, RequestInv
<1>5. MainInv
    BY <1>1 DEF Init, MainInv, Sequential
<1> QED BY <1>2, <1>3, <1>4, <1>5 DEF PoolInv

(* Every reachable state satisfies it.                                       *)
THEOREM PoolInvariant == Spec => []PoolInv
<1>1. Init => PoolInv
    BY PoolConstants, InitPoolInv
<1>2. PoolInv /\ [Next]_vars => PoolInv'
    BY PoolConstants, NextTypeOK, NextWorkInv, NextRequestInv, NextMainInv DEF PoolInv
<1> QED BY <1>1, <1>2, PTL DEF Spec

-----------------------------------------------------------------------------
(* What the invariant is for                                                *)

(* Zero requests are declared exactly when no request left the machine.      *)
LEMMA ZeroIsTrue == PoolInv => ZeroMeansNothingSent
BY DEF PoolInv, TypeOK, RequestInv, ZeroMeansNothingSent

(* What observe reports is what happened: a failure that is raised is one of *)
(* the work's own and never the echo of the stop it caused, "ok" means that  *)
(* every work has its shard, "interrupted" that the root was cancelled,      *)
(* nothing still runs, holds a lock or is left open in the diagnostics, and  *)
(* zero requests are declared only if there were none.                       *)
THEOREM PoolAnswerTruthful == Spec => []AnswerTruthful
<1>1. PoolInv => AnswerTruthful
  <2> SUFFICES ASSUME PoolInv, main \in {"returned", "stageEnded"} PROVE AnswerTruthful
      BY DEF AnswerTruthful
  <2> USE PoolConstants DEF PoolInv
  <2>1. answer = "ok" => \A w \in Works : outcome[w] = "ok"
      BY WorksCounted DEF MainInv
  <2>2. answer = "interrupted" => root
      BY DEF MainInv
  <2>3. ASSUME answer = "failed"
        PROVE  Failed(Reported) /\ (outcome[Reported] = "truncated" => attempts[Reported] = MaxAttempts)
    <3>1. failures # {} /\ failures \subseteq Works /\ Works \subseteq Nat
        BY <2>3, WorksCounted DEF MainInv, TypeOK
    <3>2. Reported \in failures
        BY <3>1, MinIsMember DEF Reported
    <3> QED BY <3>1, <3>2 DEF MainInv, WorkInv
  <2>4. ASSUME NEW w \in Works PROVE at[w] \in {"idle", "done"} /\ \A k \in Keys : holder[k] # w
    <3>1. at[w] \in {"idle", "done"}
        BY DEF WorkInv
    <3> QED BY <3>1 DEF WorkInv, Holding
  <2>5. ~sinkFailed => \A w \in Works : request[w] # "open"
      BY <2>4 DEF RequestInv
  <2> QED BY <2>1, <2>2, <2>3, <2>4, <2>5, ZeroIsTrue DEF AnswerTruthful
<1> QED BY <1>1, PoolInvariant, PTL

-----------------------------------------------------------------------------
(* The exchange: who still has to close the socket                           *)

\* The caller has gone on with a connection that stands.
Talking == {"write", "header", "bind", "body", "leave"}

ExchangeInv ==
    /\ ExchangeTypeOK
    /\ connector = "idle" => caller \in {"start", "ended"} /\ socket = "none"
    /\ caller = "start" => connector = "idle"
    /\ caller \in Talking => connector \in {"check", "connected"}
    /\ watcher # "idle" => connector \in {"check", "connected"}
    /\ connector = "dialing" => socket = "none"
    \* A connection that is being made for nobody has been given up, so whoever
    \* makes it will see that.
    /\ caller \in {"close", "ended"} /\ connector \in {"dialing", "handshake", "finish"} => reason # "none"
    /\ caller = "ended" /\ connector = "check" => reason # "none" \/ socket \in {"none", "closed"}
    /\ NoSocketLeft


LEMMA ExchangeInitInv == ExchangeInit => ExchangeInv
BY DesignsAssumption DEF ExchangeInit, ExchangeInv, ExchangeTypeOK, CallerSteps, ConnectorSteps, WatcherSteps,
   Results, Talking, NoSocketLeft

LEMMA ExchangeNextInv == ExchangeInv /\ [ExchangeNext]_exchangeVars => ExchangeInv'
<1> SUFFICES ASSUME ExchangeInv, [ExchangeNext]_exchangeVars PROVE ExchangeInv'
    OBVIOUS
<1> USE DEF ExchangeInv, ExchangeTypeOK, CallerSteps, ConnectorSteps, WatcherSteps, Results, Talking, NoSocketLeft
<1>1. CASE Send
    BY <1>1 DEF Send
<1>2. CASE AbandonConnect
    BY <1>2 DEF AbandonConnect, Connecting, AbortsTo, Closed, Shutdown
<1>3. CASE LeaveConnect
    BY <1>3 DEF LeaveConnect
<1>4. CASE BindResponse
    BY <1>4 DEF BindResponse, Raise
<1>5. CASE Interrupted
    BY <1>5 DEF Interrupted, Blocked, Raise, AfterAbort
<1>6. CASE SocketTimeout
    BY <1>6 DEF SocketTimeout, Blocked, Raise, AfterAbort
<1>7. CASE JoinWatcher
    BY <1>7 DEF JoinWatcher
<1>8. CASE CloseConnection
  <2>1. deferred' \in BOOLEAN
      BY <1>8, Zenon DEF CloseConnection
  <2>2. deferred' => connector \in {"dialing", "handshake"}
      BY <1>8 DEF CloseConnection
  <2>3. CASE deferred'
      BY <1>8, <2>1, <2>2, <2>3 DEF CloseConnection, Closed
  <2>4. CASE ~deferred'
      BY <1>8, <2>1, <2>4 DEF CloseConnection, Closed
  <2> QED BY <2>3, <2>4
<1>9. CASE FinishConnect
    BY <1>9 DEF FinishConnect, Closed
<1>10. CASE Watch
    BY <1>10 DEF Watch, AbortsTo, Closed, Shutdown
<1>11. CASE FinishAbort
    BY <1>11 DEF FinishAbort, Closed
<1>12. CASE Advance
  <2>1. /\ caller \in {"write", "header", "body"} /\ caller' \in {"header", "bind", "leave"}
        /\ sendResult' \in Results
        /\ UNCHANGED <<design, connector, watcher, socket, bound, reason, deferred, cancelled, expired>>
    <3>1. CASE caller = "write"
        BY <1>12, <3>1 DEF Advance, Raise
    <3>2. CASE caller = "header"
        BY <1>12, <3>2 DEF Advance, Raise
    <3>3. CASE caller = "body"
        BY <1>12, <3>3 DEF Advance, Raise, AfterAbort
    <3> QED BY <1>12, <3>1, <3>2, <3>3 DEF Advance, Blocked
  <2> QED BY <2>1
<1>13. CASE PeerFails
    BY <1>13 DEF PeerFails, Blocked, Raise, AfterAbort
<1>14. CASE Dial
    BY <1>14 DEF Dial
<1>15. CASE Handshake
    BY <1>15 DEF Handshake
<1>16. CASE CancelRequest
    BY <1>16 DEF CancelRequest
<1>17. CASE DeadlinePasses
    BY <1>17 DEF DeadlinePasses
<1>18. CASE UNCHANGED exchangeVars
    BY <1>18 DEF exchangeVars
<1> QED BY <1>1, <1>2, <1>3, <1>4, <1>5, <1>6, <1>7, <1>8, <1>9, <1>10, <1>11, <1>12, <1>13, <1>14, <1>15, <1>16, <1>17, <1>18
       DEF ExchangeNext, OwnSteps, Daemons, PeerSteps

(* A connection that was given up is closed, whichever thread comes last.    *)
THEOREM ExchangeLeavesNoSocket == ExchangeSpec => []NoSocketLeft
<1>1. ExchangeInv => NoSocketLeft
    BY DEF ExchangeInv
<1> QED BY <1>1, ExchangeInitInv, ExchangeNextInv, PTL DEF ExchangeSpec

-----------------------------------------------------------------------------
(* The child process: what the caller knows of it at each of its steps       *)

Stopping == {"stop", "drain", "redrain", "last"}

ChildInv ==
    /\ ChildTypeOK
    /\ child = "exited" <=> code # "none"
    /\ parent = "spawn" => child = "none"
    /\ parent \in Steps \ {"spawn", "ended"} => child # "none"
    /\ child = "none" => report # "ok" /\ pipe = [s \in Streams |-> 0]
    /\ parent \in {"spawn", "pump", "wait", "judge"} => report = "none" /\ told = "nothing"
    /\ parent \in Stopping => report \in {"failed", "cancelled"}
    /\ parent \in {"redrain", "last"} => told = "kill"
    /\ parent \in {"wait", "judge"} => open = {}
    /\ parent = "judge" => child = "exited" /\ reaped
    /\ \A s \in Streams :
         /\ s \notin open => child = "exited" /\ pipe[s] = 0
         /\ pipe[s] = 1 => taken[s] < MaxChunks
         /\ use = "probe" => taken[s] <= Limit
    /\ report = "ok" => parent = "ended"
    /\ ChildAccounted

LEMMA ChildInitInv == ChildInit => ChildInv
<1> SUFFICES ASSUME ChildInit PROVE ChildInv
    OBVIOUS
<1>1. /\ pipe \in [Streams -> 0 .. 1] /\ taken \in [Streams -> 0 .. MaxChunks]
      /\ \A s \in Streams : pipe[s] = 0 /\ taken[s] = 0
    BY ChunksAssumption DEF ChildInit
<1>2. input \in {"none", "open"}
    BY DEF ChildInit
<1>3. ChildTypeOK
    BY <1>1, <1>2 DEF ChildInit, ChildTypeOK, Uses, Steps
<1>4. /\ parent = "spawn" /\ child = "none" /\ code = "none" /\ told = "nothing" /\ report = "none"
      /\ open = Streams /\ pipe = [s \in Streams |-> 0]
    BY DEF ChildInit
<1>5. \A s \in Streams : /\ s \in open /\ pipe[s] # 1
                        /\ use = "probe" => taken[s] <= Limit
    BY <1>1, <1>4, ChunksAssumption
<1> QED BY <1>3, <1>4, <1>5 DEF ChildInv, Stopping, ChildAccounted, NoChildLeft, SuccessIsComplete

LEMMA ChildNextInv == ChildInv /\ [ChildNext]_childVars => ChildInv'
<1> SUFFICES ASSUME ChildInv, [ChildNext]_childVars PROVE ChildInv'
    OBVIOUS
<1> USE ChunksAssumption
    DEF ChildInv, ChildTypeOK, Uses, Steps, Streams, Stopping, ChildAccounted, NoChildLeft, SuccessIsComplete
<1>1. CASE \E s \in Streams : Writes(s)
    BY <1>1 DEF Writes, parentVars
<1>2. CASE Exits
    BY <1>2 DEF Exits, Exited, parentVars
<1>3. CASE CancelRun
    BY <1>3 DEF CancelRun, parentVars
<1>4. CASE Deadline
    BY <1>4 DEF Deadline, parentVars
<1>5. CASE Spawn
    BY <1>5 DEF Spawn
<1>6. CASE \E s \in Streams : ReadChunk(s)
    BY <1>6 DEF ReadChunk, Oversize, StopFor, Untouched
<1>7. CASE \E s \in Streams : ReadEnd(s)
    BY <1>7 DEF ReadEnd, AtEnd, Untouched
<1>8. CASE PumpDone
    BY <1>8 DEF PumpDone, Untouched
<1>9. CASE Give
    BY <1>9 DEF Give, StopFor, Untouched
<1>10. CASE AwaitExit
    BY <1>10 DEF AwaitExit, StopFor, Untouched
<1>11. CASE Judge
    BY <1>11 DEF Judge, Accepted, StopFor, Untouched
<1>12. CASE AskToStop
    BY <1>12 DEF AskToStop, Gone, Untouched
<1>13. CASE Drain
  <2>1. /\ pipe' = [s \in Streams |-> 0] /\ pipe' \in [Streams -> 0 .. 1]
        /\ \A s \in Streams : pipe'[s] = 0
      BY <1>13 DEF Drain, Empty
  <2>2. /\ parent = "drain" /\ child # "none" /\ report' = report
        /\ UNCHANGED <<use, child, code, callOff, overdue, input, taken, open>>
      BY <1>13 DEF Drain, Untouched
  <2>3. \/ child = "exited" /\ parent' = "ended" /\ reaped' = TRUE /\ told' = told
        \/ parent' = "redrain" /\ told' = "kill" /\ reaped' = reaped
        \/ parent' \in {"last", "ended"} /\ told' = "kill" /\ reaped' = reaped
      BY <1>13 DEF Drain, Gone, EndWith
  <2>4. CASE child = "exited" /\ parent' = "ended" /\ reaped' = TRUE /\ told' = told
      BY <2>1, <2>2, <2>4
  <2>5. CASE parent' = "redrain" /\ told' = "kill" /\ reaped' = reaped
      BY <2>1, <2>2, <2>5
  <2>6. CASE parent' \in {"last", "ended"} /\ told' = "kill" /\ reaped' = reaped
      BY <2>1, <2>2, <2>6
  <2> QED BY <2>3, <2>4, <2>5, <2>6
<1>14. CASE Redrain
  <2>1. /\ pipe' = [s \in Streams |-> 0] /\ pipe' \in [Streams -> 0 .. 1]
        /\ \A s \in Streams : pipe'[s] = 0
      BY <1>14 DEF Redrain, Empty
  <2>2. /\ parent = "redrain" /\ child # "none" /\ report' = report
        /\ UNCHANGED <<use, child, code, callOff, overdue, input, taken, open>>
      BY <1>14 DEF Redrain, Untouched
  <2>3. /\ told' = "kill"
        /\ parent' \in {"last", "ended"} /\ reaped' \in BOOLEAN
      BY <1>14 DEF Redrain, Gone, EndWith
  <2> QED BY <2>1, <2>2, <2>3
<1>15. CASE LastWait
    BY <1>15 DEF LastWait, Gone, EndWith, Untouched
<1>16. CASE Feed
    BY <1>16 DEF Feed, Untouched
<1>17. CASE PumpFails
    BY <1>17 DEF PumpFails, StopFor, Untouched
<1>18. CASE UNCHANGED childVars
    BY <1>18 DEF childVars
<1> QED BY <1>1, <1>2, <1>3, <1>4, <1>5, <1>6, <1>7, <1>8, <1>9, <1>10, <1>11, <1>12, <1>13, <1>14, <1>15, <1>16, <1>17, <1>18
       DEF ChildNext, World, Parent, Pump, StopChild

(* No child that was not told to die outlives its caller, and success is the *)
(* whole output of a child that ended by itself and well.                    *)
THEOREM ChildIsAccounted == ChildSpec => []ChildAccounted
<1>1. ChildInv => ChildAccounted
    BY DEF ChildInv
<1> QED BY <1>1, ChildInitInv, ChildNextInv, PTL DEF ChildSpec
=============================================================================
