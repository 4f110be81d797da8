---------------------------- MODULE MCRecognition ----------------------------
(***************************************************************************)
(* The parts of the pipeline that run in threads or processes of their     *)
(* own, each on a small instance: the pool that observes shards, one HTTPS *)
(* exchange, the progress of the cache and a child process of ffmpeg.      *)
(* They share no state that the properties could relate - what one needs   *)
(* of another is an outcome it chooses freely - so an initial state starts *)
(* one of them and parks the others where none of their actions is enabled.*)
(***************************************************************************)
EXTENDS ShardPool, HttpsExchange, MediaProcess

CONSTANTS Callers, Values, Absent, Corrupt, Nobody, k1, k2

-----------------------------------------------------------------------------
(* The pool: the first and the third work have the same samples.             *)

EqualSamples == <<k1, k2, k1>>

PoolParked ==
    /\ limit = 1 /\ main = "stageEnded" /\ next = 0
    /\ pending = {} /\ failures = {} /\ answer = "none"
    /\ future = [w \in Works |-> "none"] /\ at = [w \in Works |-> "idle"]
    /\ attempts = [w \in Works |-> 0] /\ outcome = [w \in Works |-> "none"]
    /\ root = FALSE /\ stopped = FALSE
    /\ holder = [k \in Keys |-> None] /\ cached = {}
    /\ request = [w \in Works |-> "none"] /\ observed = {}
    /\ sinkFailed = FALSE /\ disclosed = "zero"

-----------------------------------------------------------------------------
(* One exchange over HTTPS, with either transport: it has ended.             *)

HttpsParked ==
    /\ design = "stepfun" /\ caller = "ended" /\ connector = "idle" /\ watcher = "idle"
    /\ socket = "none" /\ bound = FALSE /\ reason = "none" /\ deferred = FALSE
    /\ cancelled = FALSE /\ expired = FALSE /\ sendResult = "none"

-----------------------------------------------------------------------------
(* Three calls of resolve for one identity; one may die.                     *)

VARIABLES entry, durable, lockHolder, pc, purpose, value, callCancelled, faults, served, acknowledged
cacheState == <<entry, durable, lockHolder, pc, purpose, value, callCancelled, faults, served, acknowledged>>

Cache == INSTANCE CacheSingleFlight WITH
    holder <- lockHolder, cancelled <- callCancelled,
    MaxDeaths <- 1, MaxPowerLosses <- 0, MaxDecays <- 0

CacheParked ==
    /\ entry = Absent /\ durable = {Absent} /\ lockHolder = Nobody
    /\ pc = [c \in Callers |-> "cancelled"] /\ purpose = [c \in Callers |-> "resolve"]
    /\ value = [c \in Callers |-> Absent] /\ callCancelled = [c \in Callers |-> TRUE]
    /\ faults = [deaths |-> 1, losses |-> 0, decays |-> 0] /\ served = {} /\ acknowledged = {}

-----------------------------------------------------------------------------
(* A child process in each of its four uses, two chunks in each pipe.        *)

MediaParked ==
    /\ use = "export" /\ parent = "ended" /\ child = "none" /\ code = "none" /\ told = "nothing"
    /\ input = "none" /\ pipe = [s \in Streams |-> 0] /\ taken = pipe /\ open = Streams
    /\ callOff = FALSE /\ overdue = FALSE /\ report = "failed" /\ reaped = FALSE

-----------------------------------------------------------------------------
ThreadsInit ==
    \/ Init /\ HttpsParked /\ CacheParked /\ MediaParked
    \/ PoolParked /\ ExchangeInit /\ CacheParked /\ MediaParked
    \/ PoolParked /\ HttpsParked /\ Cache!Init /\ MediaParked
    \/ PoolParked /\ HttpsParked /\ CacheParked /\ ChildInit

ThreadsNext ==
    \/ Next /\ UNCHANGED <<exchangeVars, cacheState, childVars>>
    \/ ExchangeNext /\ UNCHANGED <<vars, cacheState, childVars>>
    \/ Cache!Next /\ UNCHANGED <<vars, exchangeVars, childVars>>
    \/ ChildNext /\ UNCHANGED <<vars, exchangeVars, cacheState>>

Threads ==
    /\ ThreadsInit /\ [][ThreadsNext]_<<vars, exchangeVars, cacheState, childVars>>
    /\ Fairness /\ ExchangeFairness /\ Cache!Fairness /\ ChildFairness

-----------------------------------------------------------------------------
(* The progress of all of them.                                              *)

\* Whoever is cancelled ends: a pool, whoever holds the locks of its shards; a
\* request, although the peer keeps silent; a call of resolve; the caller of a
\* child process, whatever the child does.
CancellationEnds ==
    /\ StoppedPoolEnds
    /\ CancelledSendEnds
    /\ Cache!CancelledCallsEnd
    /\ CallerReturns
\* Whoever waits for the lock of an entry gets past it (CacheSingleFlight).
WaitersGetThrough == Cache!WaitersGetThrough
=============================================================================
