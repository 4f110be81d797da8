------------------------------ MODULE ShardPool ------------------------------
(***************************************************************************)
(* One call of _StepAudioObservationSource.observe: the works of a round   *)
(* are resolved by a pool of threads, each through the cache entry of its  *)
(* shard and up to MaxAttempts requests to the provider.  The first        *)
(* failure stops the siblings; the root cancellation stops them all.       *)
(*                                                                         *)
(* Three tokens are told apart, as in the code: the root token, which the  *)
(* main thread and every request look at, the local stop, which only the   *)
(* requests look at, and the token of the cache, which a pool gives to     *)
(* resolve() instead of the root one.  The local stop and the cache token  *)
(* are always set together and are one variable here.                      *)
(*                                                                         *)
(* The sink of the remote request events is the diagnostic bridge with the *)
(* ledger of the providers: the module ends with the end of the stage,     *)
(* where the bridge closes what was left open.                             *)
(***************************************************************************)
EXTENDS Naturals, FiniteSets, FiniteSetsExt

CONSTANTS Works,          \* the sequence numbers of the round, 1 .. n
          Keys,           \* identities of cache entries
          KeyOf,          \* shards with the same samples have the same identity
          Limits,         \* possible values of max_concurrency
          MaxAttempts,    \* _MAX_TRANSPORT_ATTEMPTS, 3 in the code
          None, Foreign   \* nobody and another process, as holders of an entry

ConstantsAssumption ==
    /\ IsFiniteSet(Works) /\ Works # {} /\ Works = 1 .. Cardinality(Works)
    /\ KeyOf \in [Works -> Keys] /\ {None, Foreign} \cap Works = {}
    /\ Limits \subseteq Nat \ {0} /\ MaxAttempts \in Nat \ {0}
ASSUME PoolConstants == ConstantsAssumption

VARIABLES
    limit,      \* worker_count of this call
    main,       \* where the calling thread is
    next,       \* works handed to the executor so far
    pending,    \* futures the calling thread waits for
    future,     \* state of the future of each work
    at,         \* where the thread that resolves a work is
    attempts,   \* the ledger of the requests that were sent
    outcome,    \* how the resolution of each work ended
    failures,   \* works whose failure the calling thread has seen
    answer,     \* what observe returns or raises
    root,       \* the root cancellation was requested
    stopped,    \* local_stop and cache_stop
    holder,     \* who holds the lock of a cache entry
    cached,     \* entries that are published
    request,    \* the bridge's view of each request
    observed,   \* the bridge has seen an attempt of the request
    sinkFailed, \* a diagnostic record failed
    disclosed   \* the ledger: nothing yet, contacted, or zero requests

poolVars   == <<limit, main, next, pending, failures, answer>>
workVars   == <<future, at, attempts, outcome>>
cacheVars  == <<holder, cached>>
bridgeVars == <<request, observed, sinkFailed, disclosed>>
vars == <<poolVars, workVars, root, stopped, cacheVars, bridgeVars>>

Futures   == {"none", "queued", "running", "cancelled", "finished"}
Positions == {"idle", "lookup", "claim", "compute", "send", "delay", "publish", "finish", "done"}
Outcomes  == {"none", "ok", "failed", "truncated", "internal", "root", "sibling", "cachestop"}
Mains     == {"dispatch", "loop", "wait", "stop", "unwind", "join", "returned", "stageEnded"}
Answers   == {"none", "ok", "interrupted", "failed"}

TypeOK ==
    /\ limit \in Limits /\ main \in Mains /\ next \in 0 .. Cardinality(Works)
    /\ pending \subseteq Works /\ failures \subseteq Works /\ answer \in Answers
    /\ future \in [Works -> Futures] /\ at \in [Works -> Positions]
    /\ attempts \in [Works -> 0 .. MaxAttempts] /\ outcome \in [Works -> Outcomes]
    /\ root \in BOOLEAN /\ stopped \in BOOLEAN
    /\ holder \in [Keys -> Works \cup {None, Foreign}] /\ cached \subseteq Keys
    /\ request \in [Works -> {"none", "open", "closed"}] /\ observed \subseteq Works
    /\ sinkFailed \in BOOLEAN /\ disclosed \in {"open", "contacted", "zero"}

Init ==
    /\ limit \in Limits /\ main = "dispatch" /\ next = 0
    /\ pending = {} /\ failures = {} /\ answer = "none"
    /\ future = [w \in Works |-> "none"] /\ at = [w \in Works |-> "idle"]
    /\ attempts = [w \in Works |-> 0] /\ outcome = [w \in Works |-> "none"]
    /\ root = FALSE /\ stopped = FALSE
    /\ holder \in [Keys -> {None, Foreign}] /\ cached \in SUBSET Keys
    /\ request = [w \in Works |-> "none"] /\ observed = {}
    /\ sinkFailed = FALSE /\ disclosed = "open"

-----------------------------------------------------------------------------
(* The calling thread                                                        *)

\* With one worker there is no pool: the works are resolved in their order by
\* the calling thread, and the cache looks at the root token.
Sequential == limit = 1
\* Fault: the waiting threads of the pool hear of the root cancellation only.
RootOnly == root
CacheStopped == IF Sequential THEN root ELSE stopped
RequestStopped == root \/ stopped

\* dispatch(): fill the pool, unless a failure was seen.
Dispatch ==
    /\ main = "dispatch"
    /\ LET last == Min({Cardinality(Works), next + limit - Cardinality(pending)})
           new  == IF failures = {} THEN (next + 1) .. last ELSE {}
       IN  /\ next' = next + Cardinality(new)
           /\ pending' = pending \cup new
           /\ future' = [w \in Works |-> IF w \in new THEN "queued" ELSE future[w]]
    /\ main' = "loop"
    /\ UNCHANGED <<limit, failures, answer, at, attempts, outcome, root, stopped, cacheVars, bridgeVars>>

\* The head of the loop: the root token first, then wait().
CheckRoot ==
    /\ main = "loop" /\ pending # {}
    /\ IF root /\ ~Sequential
       THEN main' = "unwind" /\ answer' = "interrupted"
       ELSE main' = "wait" /\ UNCHANGED answer
    /\ UNCHANGED <<limit, next, pending, failures, workVars, root, stopped, cacheVars, bridgeVars>>

Ended == {w \in pending : future[w] \in {"finished", "cancelled"} /\ at[w] \in {"done", "idle"}}

\* wait() came back with nothing after its 50 ms.
Poll ==
    /\ main = "wait" /\ Ended = {}
    /\ main' = "loop"
    /\ UNCHANGED <<limit, next, pending, failures, answer, workVars, root, stopped, cacheVars, bridgeVars>>

Failed(w)    == outcome[w] \in {"failed", "truncated", "internal"}
Cancelled(w) == outcome[w] \in {"root", "cachestop"}

\* Fault: a work that was stopped counts as a failure.
StoppedCounts == {w \in Ended : Cancelled(w)}

\* A cancellation that is not the root's counts as a failure of its own only
\* when there is no other: stopping the pool is what causes it.
Unexplained == {w \in Ended : /\ Cancelled(w)
                              /\ failures = {}
                              /\ \A v \in Ended : Failed(v) => v > w}

\* The futures that ended, in the order of their works.
Collect ==
    /\ main = "wait" /\ Ended # {}
    /\ pending' = pending \ Ended
    /\ IF root /\ \E w \in Ended : Cancelled(w)
       THEN main' = "unwind" /\ answer' = "interrupted" /\ UNCHANGED failures
       ELSE /\ failures' = failures \cup {w \in Ended : Failed(w)} \cup Unexplained
            /\ main' = IF failures' = {} THEN "dispatch" ELSE IF Sequential THEN "loop" ELSE "stop"
            /\ UNCHANGED answer
    /\ UNCHANGED <<limit, next, workVars, root, stopped, cacheVars, bridgeVars>>

CancelQueued == [w \in Works |-> IF future[w] = "queued" /\ w \in pending THEN "cancelled" ELSE future[w]]

\* stop_siblings() and cancel() of the futures that no thread took yet.
StopSiblings ==
    /\ main = "stop"
    /\ stopped' = TRUE
    /\ future' = CancelQueued
    /\ main' = "loop"
    /\ UNCHANGED <<limit, next, pending, failures, answer, at, attempts, outcome, root, cacheVars, bridgeVars>>

\* Every work of the pool ended.
Conclude ==
    /\ main = "loop" /\ pending = {}
    /\ answer' = IF root /\ ~Sequential THEN "interrupted"
                 ELSE IF failures # {} THEN "failed" ELSE "ok"
    /\ main' = "unwind"
    /\ UNCHANGED <<limit, next, pending, failures, workVars, root, stopped, cacheVars, bridgeVars>>

\* The finally block.
Unwind ==
    /\ main = "unwind"
    /\ stopped' = ~Sequential
    /\ future' = CancelQueued
    /\ main' = "join"
    /\ UNCHANGED <<limit, next, pending, failures, answer, at, attempts, outcome, root, cacheVars, bridgeVars>>

\* executor.shutdown(wait=True).
Join ==
    /\ main = "join"
    /\ \A w \in Works : future[w] # "running"
    /\ main' = "returned"
    /\ UNCHANGED <<limit, next, pending, failures, answer, workVars, root, stopped, cacheVars, bridgeVars>>

\* Fault: the ledger is asked before the open requests are closed.
LedgerFirst ==
    /\ main = "returned"
    /\ disclosed' = IF disclosed = "contacted" THEN "contacted" ELSE "zero"
    /\ request' = [w \in Works |-> IF request[w] = "open" THEN "closed" ELSE request[w]]
    /\ main' = "stageEnded"
    /\ UNCHANGED <<limit, next, pending, failures, answer, workVars, root, stopped, cacheVars, observed, sinkFailed>>

\* The end of the stage: fail_unresolved closes the requests that are open and
\* marks the provider contacted if one of their attempts was seen; without any
\* contact the ledger declares that there was no request.
FailUnresolved ==
    /\ main = "returned"
    /\ LET open == {w \in Works : request[w] = "open"}
           contacted == disclosed = "contacted" \/ open \cap observed # {}
       IN  /\ disclosed' = IF contacted THEN "contacted" ELSE "zero"
           /\ request' = [w \in Works |-> IF w \in open THEN "closed" ELSE request[w]]
    /\ main' = "stageEnded"
    /\ UNCHANGED <<limit, next, pending, failures, answer, workVars, root, stopped, cacheVars, observed, sinkFailed>>

-----------------------------------------------------------------------------
(* A thread of the pool                                                      *)

\* What every step of a thread leaves alone.
NotMine == UNCHANGED <<limit, main, next, pending, failures, answer, root, stopped>>

Release(w) == [k \in Keys |-> IF holder[k] = w THEN None ELSE holder[k]]

\* The resolution of a work ends; whatever it holds is released.
End(w, how) ==
    /\ outcome' = [outcome EXCEPT ![w] = how]
    /\ at' = [at EXCEPT ![w] = "done"]
    /\ future' = [future EXCEPT ![w] = "finished"]
    /\ holder' = Release(w)

Goto(w, where) == /\ at' = [at EXCEPT ![w] = where]
                  /\ UNCHANGED <<future, outcome>>

\* raise_if_cancelled of the combined token looks at the root first.
Stop == IF root THEN "root" ELSE "sibling"

\* _resolve_work up to the cache: it looks at the root token only, and the
\* slice of the samples may be unreadable.
Start(w) ==
    /\ future[w] = "queued"
    /\ \/ root /\ End(w, "root")
       \/ ~root /\ End(w, "failed")
       \/ /\ ~root
          /\ at' = [at EXCEPT ![w] = "lookup"]
          /\ future' = [future EXCEPT ![w] = "running"]
          /\ UNCHANGED <<outcome, holder>>
    /\ NotMine /\ UNCHANGED <<attempts, cached, bridgeVars>>

CacheCancelled(w) == End(w, IF Sequential THEN "root" ELSE "cachestop")

\* The lookup without the lock.
Lookup(w) ==
    /\ at[w] = "lookup"
    /\ IF CacheStopped THEN CacheCancelled(w)
       ELSE Goto(w, IF KeyOf[w] \in cached THEN "finish" ELSE "claim") /\ UNCHANGED holder
    /\ NotMine /\ UNCHANGED <<attempts, cached, bridgeVars>>

\* Waiting for the lock of the entry ends with the lock or the cancellation.
Claim(w) ==
    /\ at[w] = "claim"
    /\ \/ CacheStopped /\ CacheCancelled(w)
       \/ /\ holder[KeyOf[w]] = None
          /\ IF KeyOf[w] \in cached THEN Goto(w, "finish") /\ UNCHANGED holder
             ELSE Goto(w, "compute") /\ holder' = [holder EXCEPT ![KeyOf[w]] = w]
    /\ NotMine /\ UNCHANGED <<attempts, cached, bridgeVars>>

\* The bridge records an event of the request, or fails to and thereby fails
\* the work; a terminal event marks the provider contacted.
Sees(w)  == observed' = observed \cup {w}
Close(w) == /\ Sees(w) /\ request' = [request EXCEPT ![w] = "closed"]
            /\ disclosed' = "contacted" /\ UNCHANGED sinkFailed
\* The bridge raises: its own checks, or a record of the session that failed.
\* After the latter no record of any thread succeeds; here later ones may.
Breaks(w) == /\ Sees(w) /\ sinkFailed' = TRUE
             /\ End(w, "internal") /\ UNCHANGED <<request, disclosed>>

\* The request ends with a terminal event.
Terminal(w, how) ==
    /\ \/ Close(w) /\ End(w, how)
       \/ Breaks(w)
    /\ UNCHANGED <<attempts, cached>>

\* _request_shard up to its first attempt.
BeginRequest(w) ==
    /\ at[w] = "compute"
    /\ \/ RequestStopped /\ End(w, Stop) /\ UNCHANGED <<attempts, bridgeVars>>
       \/ /\ ~RequestStopped
          /\ request' = [request EXCEPT ![w] = "open"]
          /\ attempts' = [attempts EXCEPT ![w] = 1]
          /\ Goto(w, "send")
          /\ UNCHANGED <<holder, observed, sinkFailed, disclosed>>
       \/ /\ ~RequestStopped
          /\ sinkFailed' = TRUE /\ End(w, "internal")
          /\ UNCHANGED <<attempts, request, observed, disclosed>>
    /\ NotMine /\ UNCHANGED cached

\* A response that holds a shard, unless the pool was stopped meanwhile.
Respond(w) ==
    /\ at[w] = "send" /\ ~RequestStopped
    /\ \/ Close(w) /\ Goto(w, "publish") /\ UNCHANGED holder
       \/ Breaks(w)
    /\ NotMine /\ UNCHANGED <<attempts, cached>>

\* The request sees that it was stopped.
StopRequest(w) ==
    /\ at[w] \in {"send", "delay"} /\ RequestStopped
    /\ Terminal(w, Stop)
    /\ NotMine

\* A failed attempt is retried after a delay, or ends the request.
FailAttempt(w, retryable, how) ==
    IF retryable /\ attempts[w] < MaxAttempts
    THEN \/ Sees(w) /\ Goto(w, "delay") /\ UNCHANGED <<attempts, holder, cached, request, sinkFailed, disclosed>>
         \/ Breaks(w) /\ UNCHANGED <<attempts, cached>>
    ELSE Terminal(w, how)

\* The transport, the provider or the parser fails the attempt.
Fail(w) ==
    /\ at[w] = "send"
    /\ \E retryable \in BOOLEAN : FailAttempt(w, retryable, "failed")
    /\ NotMine

\* The connection of a stopped request is closed under a read that announced
\* a length: the transport calls that a truncated response.
Truncate(w) ==
    /\ at[w] = "send" /\ RequestStopped
    /\ FailAttempt(w, TRUE, "truncated")
    /\ NotMine

\* The delay is over.
Retry(w) ==
    /\ at[w] = "delay" /\ ~RequestStopped
    /\ attempts' = [attempts EXCEPT ![w] = @ + 1]
    /\ Goto(w, "send")
    /\ NotMine /\ UNCHANGED <<cacheVars, bridgeVars>>

\* The entry is published and the lock given back, or the publication fails;
\* the token of the cache is asked before and after.
Publish(w) ==
    /\ at[w] = "publish"
    /\ \/ CacheStopped /\ CacheCancelled(w) /\ (UNCHANGED cached \/ cached' = cached \cup {KeyOf[w]})
       \/ ~CacheStopped /\ Goto(w, "finish") /\ holder' = Release(w) /\ cached' = cached \cup {KeyOf[w]}
       \/ ~CacheStopped /\ End(w, "failed") /\ UNCHANGED cached
    /\ NotMine /\ UNCHANGED <<attempts, bridgeVars>>

Finish(w) ==
    /\ at[w] = "finish"
    /\ End(w, IF RequestStopped THEN Stop ELSE "ok")
    /\ NotMine /\ UNCHANGED <<attempts, cached, bridgeVars>>

-----------------------------------------------------------------------------
(* The environment                                                           *)

CancelRoot ==
    /\ ~root /\ main \notin {"returned", "stageEnded"}
    /\ root' = TRUE
    /\ UNCHANGED <<poolVars, workVars, stopped, cacheVars, bridgeVars>>

\* Another process ends its claim, with or without an entry; it may never do.
ForeignReleases(k) ==
    /\ holder[k] = Foreign
    /\ holder' = [holder EXCEPT ![k] = None]
    /\ cached' \in {cached, cached \cup {k}}
    /\ UNCHANGED <<poolVars, workVars, root, stopped, bridgeVars>>

Caller == Dispatch \/ CheckRoot \/ Poll \/ Collect \/ StopSiblings \/ Conclude \/ Unwind \/ Join \/ FailUnresolved
Attempt(w) == Respond(w) \/ StopRequest(w) \/ Fail(w) \/ Truncate(w)
Worker(w) == Start(w) \/ Lookup(w) \/ Claim(w) \/ BeginRequest(w) \/ Attempt(w) \/ Retry(w) \/ Publish(w) \/ Finish(w)

Next ==
    \/ Caller
    \/ \E w \in Works : Worker(w)
    \/ CancelRoot
    \/ \E k \in Keys : ForeignReleases(k)

Spec == Init /\ [][Next]_vars

\* Threads run; an attempt ends by its deadline at the latest.  Nothing is
\* assumed of other processes.
Fairness == WF_vars(Caller) /\ \A w \in Works : WF_vars(Worker(w))
FairSpec == Spec /\ Fairness

-----------------------------------------------------------------------------
(* Properties                                                                *)

Reported == Min(failures)

\* The run tells the operator that a provider received nothing only when no
\* request left the machine, whatever failed while requests were in flight.
ZeroMeansNothingSent ==
    main = "stageEnded" => (disclosed = "zero" <=> \A w \in Works : attempts[w] = 0)

\* What observe reports is what happened.  A failure that is raised is one of
\* the work's own, never the echo of the stop that another failure caused; the
\* one exception is the last attempt of a request whose connection was closed
\* under it.  "ok" means that every work has its shard, "interrupted" that the
\* root was cancelled.  Nothing still runs, holds a lock or is left open in the
\* diagnostics, unless the diagnostics themselves failed.
AnswerTruthful ==
    main \in {"returned", "stageEnded"} =>
      /\ answer = "ok" => \A w \in Works : outcome[w] = "ok"
      /\ answer = "interrupted" => root
      /\ answer = "failed" =>
           /\ Failed(Reported)
           /\ outcome[Reported] = "truncated" => attempts[Reported] = MaxAttempts
      /\ \A w \in Works : at[w] \in {"idle", "done"} /\ \A k \in Keys : holder[k] # w
      /\ ~sinkFailed => \A w \in Works : request[w] # "open"
      /\ ZeroMeansNothingSent

\* A cancelled run and a failed round end although another process holds the
\* lock of a shard for ever: the waiting threads must hear of it.
StoppedPoolEnds == (root \/ failures # {}) ~> main = "stageEnded"
=============================================================================
