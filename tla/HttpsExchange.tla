---------------------------- MODULE HttpsExchange ----------------------------
(***************************************************************************)
(* One send() of a transport: the calling thread, the daemon that          *)
(* connects, and the watcher that aborts the exchange when the request is  *)
(* cancelled or its deadline passes.  The repository has two transports of *)
(* this design, for StepAudio and for StepFun; where they differ, Design   *)
(* says which one is meant.                                                *)
(*                                                                         *)
(* http.client is outside the repository: a blocking call ends when the    *)
(* peer answers, when the socket is shut down under it or when the socket  *)
(* times out, and close() of a response waits for the buffer that a read   *)
(* in progress holds.                                                      *)
(***************************************************************************)
EXTENDS Naturals

CONSTANT Designs    \* the transports that are looked at
ASSUME DesignsAssumption == Designs \subseteq {"stepaudio", "stepfun"}

VARIABLES
    design,     \* the transport of this call
    caller,     \* where send() is
    connector,  \* where the daemon that connects is
    watcher,    \* where the watcher is
    socket,     \* the socket of the connection
    bound,      \* the controller knows the response
    reason,     \* of the abort
    deferred,   \* close() left the connection to the connector
    cancelled,  \* the cancellation of the request
    expired,    \* the deadline passed
    sendResult  \* what send() returns or raises

exchangeVars == <<design, caller, connector, watcher, socket, bound, reason, deferred, cancelled, expired, sendResult>>

CallerSteps    == {"start", "connecting", "write", "header", "bind", "body", "leave", "close", "ended"}
ConnectorSteps == {"idle", "dialing", "handshake", "finish", "check", "connected", "refused"}
WatcherSteps   == {"idle", "watching", "aborting", "ended"}
Results    == {"none", "ok", "cancelled", "timeout", "truncated", "failed"}

ExchangeTypeOK ==
    /\ design \in Designs /\ caller \in CallerSteps /\ connector \in ConnectorSteps /\ watcher \in WatcherSteps
    /\ socket \in {"none", "open", "shut", "closed"}
    /\ bound \in BOOLEAN /\ deferred \in BOOLEAN /\ cancelled \in BOOLEAN /\ expired \in BOOLEAN
    /\ reason \in {"none", "cancellation", "timeout"} /\ sendResult \in Results

ExchangeInit ==
    /\ design \in Designs
    /\ caller = "start" /\ connector = "idle" /\ watcher = "idle" /\ socket = "none"
    /\ bound = FALSE /\ reason = "none" /\ deferred = FALSE
    /\ cancelled = FALSE /\ expired = FALSE /\ sendResult = "none"

Shutdown == IF socket = "open" THEN "shut" ELSE socket
Closed   == IF socket = "none" THEN "none" ELSE "closed"

-----------------------------------------------------------------------------
(* The calling thread                                                        *)

\* raise_if_cancelled, the endpoint, the context, the proxy and the connection.
Send ==
    /\ caller = "start"
    /\ \/ cancelled /\ sendResult' = "cancelled" /\ caller' = "ended" /\ UNCHANGED connector
       \/ sendResult' = "failed" /\ caller' = "ended" /\ UNCHANGED connector
       \/ ~cancelled /\ caller' = "connecting" /\ connector' = "dialing" /\ UNCHANGED sendResult
    /\ UNCHANGED <<design, watcher, socket, bound, reason, deferred, cancelled, expired>>

\* Fault: an abort only notes its reason while a response is read.
AbortsNothing == IF bound THEN socket ELSE Shutdown

\* What abort() does to the socket: the StepAudio one closes the connection,
\* the StepFun one interrupts the transfer only.
AbortsTo == IF design = "stepaudio" /\ ~bound THEN Closed ELSE Shutdown

Connecting == caller = "connecting" /\ connector \in {"dialing", "handshake", "finish"}

\* The loop of _connect: cancellation first, then the deadline.
AbandonConnect ==
    /\ Connecting /\ (cancelled \/ expired)
    /\ reason' = IF cancelled THEN "cancellation" ELSE "timeout"
    /\ sendResult' = IF cancelled THEN "cancelled" ELSE "timeout"
    /\ socket' = AbortsTo
    /\ caller' = "close"
    /\ UNCHANGED <<design, connector, watcher, bound, deferred, cancelled, expired>>

\* The connection failed, or it stands and the watcher is started.
LeaveConnect ==
    /\ caller = "connecting" /\ connector \in {"check", "connected", "refused"}
    /\ IF cancelled \/ connector = "refused"
       THEN /\ caller' = "close" /\ sendResult' = IF cancelled THEN "cancelled" ELSE "failed"
            /\ UNCHANGED watcher
       ELSE caller' = "write" /\ watcher' = "watching" /\ UNCHANGED sendResult
    /\ UNCHANGED <<design, connector, socket, bound, reason, deferred, cancelled, expired>>

Blocked == caller \in {"write", "header", "body"}

\* _failure_after_abort: a failure after an abort is the abort's.
AfterAbort(native) ==
    IF cancelled THEN "cancelled" ELSE IF reason = "timeout" THEN "timeout" ELSE native

Raise(result) == sendResult' = result /\ caller' = "leave"

\* A blocking call succeeds; the cancellation is looked at before the next one.
Advance ==
    /\ Blocked /\ socket = "open"
    /\ CASE caller = "write"  -> IF cancelled THEN Raise("cancelled") ELSE caller' = "header" /\ UNCHANGED sendResult
         [] caller = "header" -> caller' = "bind" /\ UNCHANGED sendResult
         [] caller = "body"   -> Raise(AfterAbort("ok"))
    /\ UNCHANGED <<design, connector, watcher, socket, bound, reason, deferred, cancelled, expired>>

\* bind_response: an abort that came first closes the response.
BindResponse ==
    /\ caller = "bind"
    /\ bound' = TRUE
    /\ socket' = IF reason # "none" THEN "closed" ELSE socket
    /\ IF cancelled THEN Raise("cancelled") ELSE caller' = "body" /\ UNCHANGED sendResult
    /\ UNCHANGED <<design, connector, watcher, reason, deferred, cancelled, expired>>

\* The peer, or an answer that is refused, fails the call.  A body that ends
\* before its announced length is a failure of the transport's own and is not
\* asked whether an abort ended it.
PeerFails ==
    /\ Blocked /\ socket = "open"
    /\ \/ Raise(AfterAbort("failed"))
       \/ caller = "body" /\ (Raise("truncated") \/ Raise("failed"))
    /\ UNCHANGED <<design, connector, watcher, socket, bound, reason, deferred, cancelled, expired>>

\* The socket was shut down or closed under the call: an error, or the end of
\* the stream, which only a body without a length takes for its end.
Interrupted ==
    /\ Blocked /\ socket \in {"shut", "closed"}
    /\ \/ Raise(AfterAbort("failed"))
       \/ caller = "body" /\ (Raise(AfterAbort("ok")) \/ Raise("truncated"))
    /\ UNCHANGED <<design, connector, watcher, socket, bound, reason, deferred, cancelled, expired>>

\* The socket's own timeout, which lasts as long as the deadline leaves.
SocketTimeout ==
    /\ Blocked /\ expired
    /\ Raise(AfterAbort("timeout"))
    /\ UNCHANGED <<design, connector, watcher, socket, bound, reason, deferred, cancelled, expired>>

\* The finally block of _exchange: the watcher is joined, by StepAudio for a
\* moment only.
JoinWatcher ==
    /\ caller = "leave"
    /\ design = "stepaudio" \/ watcher = "ended"
    /\ caller' = "close"
    /\ UNCHANGED <<design, connector, watcher, socket, bound, reason, deferred, cancelled, expired, sendResult>>

\* controller.close(): StepFun leaves a connection that is still being made to
\* the daemon.
CloseConnection ==
    /\ caller = "close"
    /\ deferred' = (design = "stepfun" /\ reason # "none" /\ connector \in {"dialing", "handshake"})
    /\ socket' = IF deferred' THEN socket ELSE Closed
    /\ caller' = "ended"
    /\ UNCHANGED <<design, connector, watcher, bound, reason, cancelled, expired, sendResult>>

-----------------------------------------------------------------------------
(* The daemon that connects                                                  *)

\* The address is resolved and the socket made.
Dial ==
    /\ connector = "dialing"
    /\ \/ connector' = "handshake" /\ socket' = "open"
       \/ connector' = "refused" /\ UNCHANGED socket
    /\ UNCHANGED <<design, caller, watcher, bound, reason, deferred, cancelled, expired, sendResult>>

\* TLS and the tunnel; http.client closes the socket of a failed connection.
Handshake ==
    /\ connector = "handshake"
    /\ \/ socket = "open" /\ connector' = "finish" /\ UNCHANGED socket
       \/ connector' = "refused" /\ socket' = "closed"
    /\ UNCHANGED <<design, caller, watcher, bound, reason, deferred, cancelled, expired, sendResult>>

\* Fault: the daemon does not look back.
FinishConnectBlindly ==
    /\ connector = "finish" /\ connector' = "connected"
    /\ UNCHANGED <<design, caller, watcher, socket, bound, reason, deferred, cancelled, expired, sendResult>>

\* A connection nobody waits for any more is closed by the one who made it.
\* StepFun looks whether it is before the caller hears of the connection,
\* StepAudio after.
FinishConnect ==
    /\ \/ /\ design = "stepaudio" /\ connector = "finish"
          /\ connector' = "check" /\ UNCHANGED socket
       \/ /\ connector = IF design = "stepaudio" THEN "check" ELSE "finish"
          /\ connector' = "connected"
          /\ socket' = IF reason # "none" THEN Closed ELSE socket
    /\ UNCHANGED <<design, caller, watcher, bound, reason, deferred, cancelled, expired, sendResult>>

-----------------------------------------------------------------------------
(* The watcher                                                               *)

\* It sees the cancellation or the deadline, or that the exchange is over.
\* abort() of StepAudio closes a response first: from here on the watcher
\* waits for the buffer of that response.
Watch ==
    /\ watcher = "watching"
    /\ IF caller \in {"leave", "close", "ended"}
       THEN watcher' = "ended" /\ UNCHANGED <<reason, socket>>
       ELSE /\ cancelled \/ expired
            /\ reason' = IF cancelled THEN "cancellation" ELSE "timeout"
            /\ IF design = "stepaudio" /\ bound
               THEN watcher' = "aborting" /\ UNCHANGED socket
               ELSE watcher' = "ended" /\ socket' = AbortsTo
    /\ UNCHANGED <<design, caller, connector, bound, deferred, cancelled, expired, sendResult>>

\* The read that held the buffer ended.
FinishAbort ==
    /\ watcher = "aborting" /\ caller # "body"
    /\ watcher' = "ended" /\ socket' = Closed
    /\ UNCHANGED <<design, caller, connector, bound, reason, deferred, cancelled, expired, sendResult>>

-----------------------------------------------------------------------------
(* The environment                                                           *)

CancelRequest ==
    /\ ~cancelled /\ caller # "ended"
    /\ cancelled' = TRUE
    /\ UNCHANGED <<design, caller, connector, watcher, socket, bound, reason, deferred, expired, sendResult>>

DeadlinePasses ==
    /\ ~expired /\ caller # "ended"
    /\ expired' = TRUE
    /\ UNCHANGED <<design, caller, connector, watcher, socket, bound, reason, deferred, cancelled, sendResult>>

OwnSteps == Send \/ AbandonConnect \/ LeaveConnect \/ BindResponse \/ Interrupted \/ SocketTimeout
            \/ JoinWatcher \/ CloseConnection
Daemons  == FinishConnect \/ Watch \/ FinishAbort
PeerSteps == Advance \/ PeerFails \/ Dial \/ Handshake

ExchangeNext == OwnSteps \/ Daemons \/ PeerSteps \/ CancelRequest \/ DeadlinePasses

ExchangeSpec == ExchangeInit /\ [][ExchangeNext]_exchangeVars

\* Threads run and sockets time out when the deadline passes, which may be ten
\* minutes away; the peer and the network owe nothing.
ExchangeFairness == WF_exchangeVars(OwnSteps) /\ WF_exchangeVars(FinishConnect) /\ WF_exchangeVars(Watch \/ FinishAbort)
ExchangeFairSpec == ExchangeSpec /\ ExchangeFairness

-----------------------------------------------------------------------------
(* Properties                                                                *)

\* A cancelled request ends although the peer keeps silent: while it connects,
\* writes or waits for the head of the answer with either transport, and with
\* StepFun while it reads the body as well.
CancelledSendEnds == (cancelled /\ ~(design = "stepaudio" /\ caller = "body")) ~> caller = "ended"

\* A connection that was given up is closed by somebody, whichever of the
\* threads comes last.
NoSocketLeft ==
    caller = "ended" /\ connector \in {"idle", "connected", "refused"} => socket \in {"none", "closed"}

\* StdlibStepAudioTransport promises the abort of what is in flight.
InFlightCancels == cancelled ~> caller = "ended"
=============================================================================
