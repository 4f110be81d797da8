---------------------------- MODULE TextGeneration ----------------------------
(***************************************************************************)
(* A stage that asks the text model: TopicReview.review over its batches,  *)
(* or SubtitleOptimization.optimize over its windows.  Each unit is taken  *)
(* from the cache or generated; an output the stage cannot use is asked    *)
(* for again, up to SemanticLimit times; a call of the adapter sends up to *)
(* MaxAttempts requests.  The adapter reports events to a bridge that      *)
(* turns them into diagnostic operations, external request facts and the   *)
(* ledger of the providers.                                                *)
(*                                                                         *)
(* Everything here runs in one thread; what can go wrong is the book-      *)
(* keeping, which five parties share, when a cancellation, a failure or a  *)
(* failing record comes between any two steps.  The semaphore of the       *)
(* adapter is never contended and is left out.                             *)
(***************************************************************************)
EXTENDS Naturals

CONSTANTS Units,          \* batches of candidates or windows of subtitles
          SemanticLimit,  \* semantic_attempt_limit
          MaxAttempts     \* max_transport_attempts

ASSUME LimitsAssumption == Units \in Nat /\ SemanticLimit \in Nat \ {0} /\ MaxAttempts \in Nat \ {0}

VARIABLES
    step,       \* where the thread is
    unit,       \* units that are resolved
    semantic,   \* attempts of the unit at a usable output
    try,        \* attempts of the call at the transport
    ledger,     \* _ExecutionLedger of the stage
    call,       \* the bridge's view of the call, or NoCall
    contact,    \* the ledger of the providers
    recorded,   \* attempts in the external request facts
    halted,     \* the run was cancelled
    broken,     \* a record failed: no later one succeeds
    refused,    \* the bridge refused an event that contradicts earlier ones
    verdictOf,  \* how the stage ended
    carried     \* the ledger as the result or failure carries it, a set of one or none

\* What really happened, to compare with the books.
VARIABLE happened

stageVars == <<unit, semantic, ledger>>
books     == <<call, contact, recorded, broken, refused>>
ends      == <<verdictOf, carried>>
textVars == <<step, stageVars, try, books, halted, ends, happened>>

NoFacts == {}
NoCall  == [open |-> FALSE, operation |-> FALSE, observed |-> 0, scheduled |-> 1]
NewCall == [NoCall EXCEPT !.open = TRUE]
NoCounts == [hits |-> 0, misses |-> 0, requests |-> 0, attempts |-> 0, retries |-> 0, semanticRetries |-> 0]

Steps  == {"unit", "generate", "begin", "head", "sent", "delay", "publish", "ended", "closed"}
Counts == [hits : Nat, misses : Nat, requests : Nat, attempts : Nat, retries : Nat, semanticRetries : Nat]

TextTypeOK ==
    /\ step \in Steps /\ unit \in 0 .. Units /\ semantic \in 1 .. SemanticLimit
    /\ try \in 1 .. MaxAttempts
    /\ ledger \in Counts /\ happened \in Counts
    /\ call \in [open : BOOLEAN, operation : BOOLEAN, observed : 0 .. MaxAttempts, scheduled : 1 .. MaxAttempts]
    /\ contact \in {"open", "contacted", "zero"} /\ recorded \in Nat
    /\ halted \in BOOLEAN /\ broken \in BOOLEAN /\ refused \in BOOLEAN
    /\ verdictOf \in {"none", "ok", "failed", "interrupted", "internal"}
    /\ \A facts \in carried : facts \in Counts

TextInit ==
    /\ step = "unit" /\ unit = 0 /\ semantic = 1 /\ try = 1
    /\ ledger = NoCounts /\ happened = NoCounts
    /\ call = NoCall /\ contact = "open" /\ recorded = 0
    /\ halted = FALSE /\ broken = FALSE /\ refused = FALSE
    /\ verdictOf = "none" /\ carried = NoFacts

-----------------------------------------------------------------------------
(* The stage                                                                 *)

\* The stage leaves with a result or an exception.  Only the result and the
\* failures of its own carry the execution facts.
Leave(how, facts) == step' = "ended" /\ verdictOf' = how /\ carried' = facts

Stay == UNCHANGED ends

\* The next unit: its cache entry is looked up, unless the run was cancelled.
NextUnit ==
    /\ step = "unit" /\ unit < Units
    /\ \/ halted /\ Leave("interrupted", NoFacts) /\ UNCHANGED <<unit, semantic, ledger, happened>>
       \/ /\ ~halted /\ Stay
          /\ ledger' = [ledger EXCEPT !.hits = @ + 1]
          /\ happened' = [happened EXCEPT !.hits = @ + 1]
          /\ unit' = unit + 1 /\ UNCHANGED <<step, semantic>>
       \/ /\ ~halted /\ Stay
          /\ ledger' = [ledger EXCEPT !.misses = @ + 1]
          /\ happened' = [happened EXCEPT !.misses = @ + 1]
          /\ semantic' = 1 /\ step' = "generate" /\ UNCHANGED unit
       \/ ~halted /\ Leave("internal", NoFacts) /\ UNCHANGED <<unit, semantic, ledger, happened>>
    /\ UNCHANGED <<try, books, halted>>

AllDone ==
    /\ step = "unit" /\ unit = Units
    /\ Leave("ok", {ledger})
    /\ UNCHANGED <<stageVars, try, books, halted, happened>>

\* The loop over the semantic attempts, up to CALL_STARTED, which the bridge
\* only notes.
BeginCall ==
    /\ step = "generate"
    /\ IF halted
       THEN Leave("interrupted", NoFacts) /\ UNCHANGED <<call, happened>>
       ELSE /\ step' = "begin" /\ Stay
            /\ call' = NewCall
            /\ happened' = [happened EXCEPT !.requests = @ + 1, !.semanticRetries = @ + (IF semantic > 1 THEN 1 ELSE 0)]
    /\ try' = 1
    /\ UNCHANGED <<stageVars, contact, recorded, broken, refused, halted>>

\* Fault: the attempts of a call that failed are not added up.
CountAnswersOnly(attempts, ok) ==
    IF ok THEN [ledger EXCEPT !.requests = @ + 1, !.attempts = @ + attempts,
                              !.retries = @ + (IF attempts > 1 THEN attempts - 1 ELSE 0)]
          ELSE [ledger EXCEPT !.requests = @ + 1]

\* A call that answered or failed is added to the ledger of the stage.
Counted(attempts, ok) ==
    [ledger EXCEPT !.requests = @ + 1, !.attempts = @ + attempts,
                   !.retries = @ + (IF attempts > 1 THEN attempts - 1 ELSE 0)]

\* generate raised a failure of the given kind.
CallFails(kind, attempts) ==
    /\ ledger' = Counted(attempts, FALSE)
    /\ CASE kind = "cancelled" -> Leave("interrupted", NoFacts)
         [] kind = "provider"  -> Leave("failed", {ledger'})
         [] kind = "internal"  -> Leave("internal", NoFacts)
    /\ UNCHANGED <<unit, semantic>>

\* generate returned; the output is used, asked for again, or given up.
CallAnswers(attempts) ==
    \/ /\ ledger' = Counted(attempts, TRUE)
       /\ step' = "publish" /\ Stay /\ UNCHANGED <<unit, semantic>>
    \/ /\ semantic < SemanticLimit
       /\ ledger' = [Counted(attempts, TRUE) EXCEPT !.semanticRetries = @ + 1]
       /\ semantic' = semantic + 1
       /\ step' = "generate" /\ Stay /\ UNCHANGED unit
    \/ /\ semantic = SemanticLimit
       /\ ledger' = Counted(attempts, TRUE)
       /\ Leave("failed", {ledger'}) /\ UNCHANGED <<unit, semantic>>

\* The cache publishes what was generated.
PublishUnit ==
    /\ step = "publish"
    /\ \/ halted /\ Leave("interrupted", NoFacts) /\ UNCHANGED unit
       \/ ~halted /\ step' = "unit" /\ unit' = unit + 1 /\ Stay
       \/ ~halted /\ Leave("internal", NoFacts) /\ UNCHANGED unit
    /\ UNCHANGED <<semantic, ledger, try, books, halted, happened>>

-----------------------------------------------------------------------------
(* The bridge                                                                *)

\* An event with attempts starts the operation of the call, at the latest.
Seen(attempts) == [call EXCEPT !.observed = IF attempts > @ THEN attempts ELSE @,
                               !.operation = TRUE]

\* An append fails: the session is finished, the exception leaves the stage,
\* and the record did not happen.
Breaks(attempts) ==
    /\ broken' = TRUE
    /\ call' \in {[Seen(attempts) EXCEPT !.operation = call.operation], Seen(attempts)}
    /\ Leave("internal", NoFacts)
    /\ UNCHANGED <<contact, recorded, refused, stageVars>>

\* Attempts and plans must fit: no more attempts than were planned, and fewer
\* only when the wait for the next one was cancelled.
Refuses(kind, attempts) ==
    attempts > call.scheduled \/ (attempts < call.scheduled /\ kind # "cancelled")

\* The terminal event of the call and what the stage makes of it.  Without an
\* attempt there is nothing to record.
Ends(kind, attempts, Then) ==
    \/ /\ attempts = 0
       /\ call' = NoCall /\ UNCHANGED <<contact, recorded, broken, refused>>
       /\ Then
    \/ /\ attempts > 0 /\ Refuses(kind, attempts)
       /\ refused' = TRUE /\ call' = Seen(attempts)
       /\ Leave("internal", NoFacts)
       /\ UNCHANGED <<contact, recorded, broken, stageVars>>
    \/ /\ attempts > 0 /\ ~Refuses(kind, attempts)
       /\ call' = NoCall /\ contact' = "contacted" /\ recorded' = recorded + attempts
       /\ UNCHANGED <<broken, refused>>
       /\ Then
    \/ attempts > 0 /\ Breaks(attempts)

Terminal(kind, attempts) == Ends(kind, attempts, CallFails(kind, attempts))

-----------------------------------------------------------------------------
(* The adapter                                                               *)

\* generate up to its loop: the cancellation, the configuration and the body.
PrepareCall ==
    /\ step = "begin"
    /\ \/ halted /\ Terminal("cancelled", 0)
       \/ ~halted /\ Terminal("internal", 0)
       \/ ~halted /\ step' = "head" /\ Stay /\ UNCHANGED <<stageVars, books>>
    /\ UNCHANGED <<try, halted, happened>>

\* Fault: a cancellation before the request counts the request.
SendCountsAttempt ==
    /\ step = "head"
    /\ \/ halted /\ Terminal("cancelled", try) /\ UNCHANGED happened
       \/ /\ ~halted /\ step' = "sent" /\ Stay
          /\ happened' = [happened EXCEPT !.attempts = @ + 1, !.retries = @ + (IF try > 1 THEN 1 ELSE 0)]
          /\ UNCHANGED <<stageVars, books>>
    /\ UNCHANGED <<try, halted>>

\* The head of the loop over the attempts, and the request that is sent.
SendAttempt ==
    /\ step = "head"
    /\ \/ halted /\ Terminal("cancelled", try - 1) /\ UNCHANGED happened
       \/ /\ ~halted /\ step' = "sent" /\ Stay
          /\ happened' = [happened EXCEPT !.attempts = @ + 1, !.retries = @ + (IF try > 1 THEN 1 ELSE 0)]
          /\ UNCHANGED <<stageVars, books>>
    /\ UNCHANGED <<try, halted>>

\* The transport saw the cancellation, or an answer came too late for it.
SendCancelled ==
    /\ step = "sent" /\ halted
    /\ Terminal("cancelled", try)
    /\ UNCHANGED <<try, halted, happened>>

\* The transport, the status or the body is one no retry can mend.
SendFails ==
    /\ step = "sent"
    /\ \/ Terminal("internal", try)
       \/ Terminal("provider", try)
    /\ UNCHANGED <<try, halted, happened>>

\* _should_retry, for a failure that a retry can mend.
MayRetry == try < MaxAttempts

\* TRANSPORT_FAILED, and either the plan of a retry or the end.
AttemptFails ==
    /\ step = "sent"
    /\ \/ /\ MayRetry
          /\ call' = [Seen(try) EXCEPT !.scheduled = try + 1]
          /\ step' = "delay" /\ Stay /\ UNCHANGED <<stageVars, contact, recorded, broken, refused>>
       \/ MayRetry /\ Breaks(try)
       \/ Terminal("provider", try)
    /\ UNCHANGED <<try, halted, happened>>

\* A complete answer.
SendSucceeds ==
    /\ step = "sent" /\ ~halted
    /\ Ends("answer", try, CallAnswers(try))
    /\ UNCHANGED <<try, halted, happened>>

\* _wait_before_retry ends with the delay or the cancellation.
Delay ==
    /\ step = "delay"
    /\ \/ halted /\ Terminal("cancelled", try) /\ UNCHANGED try
       \/ ~halted /\ try' = try + 1 /\ step' = "head" /\ Stay /\ UNCHANGED <<stageVars, books>>
    /\ UNCHANGED <<halted, happened>>

-----------------------------------------------------------------------------
(* The end of the stage and the run                                          *)

\* A call the bridge still holds is recorded as failed, if anything of it was
\* seen; then a provider nobody contacted is declared so.  After a failed
\* record nothing is.
CloseStage ==
    /\ step = "ended"
    /\ step' = "closed"
    /\ LET unresolved == call.open /\ call.operation /\ verdictOf # "ok"
           touched == contact = "contacted" \/ unresolved
       IN  IF broken THEN UNCHANGED <<contact, recorded, call>>
           ELSE /\ contact' = IF touched THEN "contacted" ELSE "zero"
                /\ recorded' = recorded + (IF unresolved THEN call.observed ELSE 0)
                /\ call' = NoCall
    /\ UNCHANGED <<stageVars, try, broken, refused, halted, ends, happened>>

CancelRun ==
    /\ ~halted /\ step \notin {"ended", "closed"}
    /\ halted' = TRUE
    /\ UNCHANGED <<step, stageVars, try, books, ends, happened>>

Stage   == NextUnit \/ AllDone \/ BeginCall \/ PublishUnit \/ CloseStage
Adapter == PrepareCall \/ SendAttempt \/ SendCancelled \/ SendFails \/ AttemptFails \/ SendSucceeds \/ Delay

TextNext == Stage \/ Adapter \/ CancelRun

TextSpec == TextInit /\ [][TextNext]_textVars

-----------------------------------------------------------------------------
(* Properties                                                                *)

\* The facts a result or a failure carries are what happened: calls, requests
\* on the wire, repetitions of either kind, hits and misses.
FactsTruthful == carried \subseteq {happened}

\* The diagnostics of a closed stage say what was on the wire: every request
\* is in exactly one external request fact, the provider was contacted if and
\* only if there was one, and the bridge found no event contradicting another.
\* After a failed record they may say less, but not that nothing was sent.
DisclosureTruthful ==
    /\ ~refused
    /\ step = "closed" =>
         /\ contact = "zero" => happened.attempts = 0
         /\ ~broken => recorded = happened.attempts /\ (contact = "contacted" <=> recorded > 0)

\* Both, wherever the cancellation, the failure or the broken record came.
AccountsTruthful == FactsTruthful /\ DisclosureTruthful
=============================================================================
