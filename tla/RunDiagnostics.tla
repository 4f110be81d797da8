---------------------------- MODULE RunDiagnostics ----------------------------
(***************************************************************************)
(* The diagnostics of one run (diagnostics/_session.py, class              *)
(* RunDiagnostics): the main thread and the workers of a stage record what *)
(* happens, each call under one lock, and every accepted fact becomes a    *)
(* line of events.jsonl; finish() sums the session's memory up in run.json.*)
(* What the session remembers and what a reader gathers from the lines     *)
(* (DiagnosticPackageReader) are computed apart and must agree, whatever   *)
(* the callers do, in whatever order, whichever write fails, and wherever  *)
(* the process dies.                                                       *)
(*                                                                         *)
(* One action is one call: its guard is what the session accepts; a refused*)
(* call raises and changes nothing.  Left out: the modules that may record *)
(* a fact, facts that are copied only (configuration, source, environment),*)
(* the operation an error or an artifact may name, a second provider and   *)
(* local ones.                                                             *)
(***************************************************************************)
EXTENDS DiagnosticPackageReader

CONSTANTS
    MaxFacts,       \* bound: events that are not of a stage, the delivery or an artifact
    MaxDelivered,   \* bound: how many of them when there is a delivery
    MaxAttempts     \* bound: attempts of an operation

ASSUME DiagnosticsAssumption == MaxFacts \in Nat /\ MaxDelivered \in Nat /\ MaxAttempts \in Nat

VARIABLES
    sequence,       \* number of the last accepted event
    active,         \* the stage that is open
    entered,        \* the stage entered last
    outcomes,       \* _stages: how each ended
    operations,     \* _operations
    retryCounts,    \* of all stages
    internalRetries,\* of the transcription
    execution,      \* what the transcription reported
    cacheStats,
    transcriptHit,  \* the whole transcript came from the cache
    notices,
    interruption,   \* an interruption has been recorded
    service,        \* the provider: "none", "selected", "unused", "contacted"
    phases,         \* the three states of the delivery
    created,        \* artifacts that were built
    verified,       \* and those of them that were verified
    errors,         \* the error ledger
    proof,          \* _postcommit_proof is set
    incomplete,     \* _postcommit_incomplete
    finished,
    formed,         \* the completion a finish() under way was given
    result,         \* what finish() answered
    log,            \* events.jsonl, as the reader gathers it
    torn,           \* its last line is cut off
    runJson         \* run.json

stageVars == <<active, entered, outcomes>>
workVars == <<operations, retryCounts, internalRetries, execution>>
factVars == <<cacheStats, transcriptHit, notices, interruption, service>>
deliveryVars == <<phases, created, verified>>
endVars == <<formed, result, runJson>>
writeVars == <<sequence, incomplete, finished, log, torn>>
sessionVars == <<stageVars, workVars, factVars, deliveryVars, errors, proof, endVars, writeVars>>

StageOutcomes == {"succeeded", "failed"}  \* the third, interrupted, is kept just so
OperationKinds == {"request", "cache"}
NoOperation == [state |-> "unknown", stage |-> None, parent |-> None, kind |-> None, attempts |-> 0]

(* How each phase of a delivery may end.                                  *)
FinalStates == [build |-> {"completed", "failed", "interrupted"},
                verification |-> {"passed", "failed", "interrupted"},
                publication |-> {"committed", "rolled_back", "failed"}]
Errors == [seq : Nat, stage : Stages]
RunOutcomes == StageOutcomes \cup {"interrupted"}
CompletionType == [outcome : RunOutcomes, primary : Errors \cup {None}, associated : SUBSET Errors]

(* The last line of a package, and its run.json.                           *)
Terminals == [code : {"run.completed"}, seq : Nat, stage : Stages \cup {None}, outcome : RunOutcomes]
DeliveryStateType == {"not_started", "in_progress"} \cup UNION {FinalStates[p] : p \in DOMAIN FinalStates}
Manifests ==
    [outcome : RunOutcomes, eventCount : Nat, primary : Errors \cup {None}, associated : SUBSET Errors,
     stages : [Stages -> StageOutcomes \cup {"not_started"}],
     operations : {Cardinality(S) : S \in SUBSET Ops},
     retries : [RetryKinds -> Nat], cache : [CacheOutcomes -> Nat], notices : [NoticeKinds -> Nat],
     service : BOOLEAN \X BOOLEAN,
     delivery : DeliveryStateType \X DeliveryStateType \X DeliveryStateType,
     artifacts : {Cardinality(S) : S \in SUBSET Paths} \X {Cardinality(S) : S \in SUBSET Paths}]

ASSUME NoneAssumption ==
    /\ None \notin [RetryKinds -> Nat] /\ None \notin Errors
    /\ None \notin Terminals /\ None \notin Manifests

(* The kinds of the memory; `log` and `manifest` are judged by the reader. *)
SessionTypeOK ==
    /\ sequence \in Nat \ {0}
    /\ active \in Stages \cup {None} /\ entered \in Stages \cup {None}
    /\ outcomes \in [Stages -> StageOutcomes \cup {"not_started"}]
    /\ operations \in [Ops -> [state : {"unknown", "active", "completed"}, stage : Stages \cup {None},
                               parent : Ops \cup {None}, kind : OperationKinds \cup {None},
                               attempts : Nat]]
    /\ retryCounts \in [RetryKinds -> Nat] /\ internalRetries \in [RetryKinds -> Nat]
    /\ execution \in [RetryKinds -> Nat] \cup {None}
    /\ cacheStats \in [CacheOutcomes -> Nat] /\ transcriptHit \in BOOLEAN
    /\ notices \in [NoticeKinds -> Nat]
    /\ interruption \in BOOLEAN /\ service \in {"none", "selected", "unused", "contacted"}
    /\ DOMAIN phases = DOMAIN FinalStates
    /\ \A phase \in DOMAIN FinalStates :
         phases[phase] \in {"not_started", "in_progress"} \cup FinalStates[phase]
    /\ created \subseteq Paths /\ verified \subseteq created
    /\ errors \subseteq Errors
    /\ proof \in BOOLEAN /\ incomplete \in BOOLEAN /\ finished \in BOOLEAN /\ torn \in BOOLEAN
    /\ formed \in CompletionType \cup {None}
    /\ result \in {"none", "persisted", "incomplete", "raised"}

SessionInit ==
    /\ sequence = 1 /\ incomplete = FALSE /\ finished = FALSE
    /\ log = Initialized /\ torn = FALSE
    /\ active = None /\ entered = None /\ outcomes = [s \in Stages |-> "not_started"]
    /\ operations = [o \in Ops |-> NoOperation]
    /\ retryCounts = [k \in RetryKinds |-> 0]
    /\ internalRetries = [k \in RetryKinds |-> 0]
    /\ execution = None
    /\ cacheStats = [c \in CacheOutcomes |-> 0] /\ transcriptHit = FALSE
    /\ notices = [n \in NoticeKinds |-> 0]
    /\ interruption = FALSE /\ service = "none"
    /\ phases = [build |-> "not_started", verification |-> "not_started",
                   publication |-> "not_started"]
    /\ created = {} /\ verified = {}
    /\ errors = {} /\ proof = FALSE
    /\ formed = None /\ result = "none" /\ runJson = None

-----------------------------------------------------------------------------
(* Writing a line.  A write that fails may leave nothing, a part of the    *)
(* line, or all of it, if only its sync failed.                            *)

Line(e) == [e EXCEPT !.seq = sequence + 1]

Accepted(e) ==
    /\ ~incomplete
    /\ log' = Read(log, Line(e), torn)
    /\ sequence' = sequence + 1
    /\ UNCHANGED <<torn, incomplete, finished>>
Residue(e) ==
    \/ UNCHANGED <<log, torn>>
    \/ torn' = TRUE /\ UNCHANGED log
    \/ log' = Read(log, Line(e), torn) /\ UNCHANGED torn

\* Fault: writing goes on behind a line that may be half written.
LostUnnoted(e) == ~incomplete /\ proof' /\ Residue(e) /\ UNCHANGED <<incomplete, sequence, finished>>
(* Once the delivery is committed a failure is noted and the call goes on; *)
(* after that nothing is written any more.                                 *)
Lost(e) == ~incomplete /\ proof' /\ Residue(e) /\ incomplete' = TRUE /\ UNCHANGED <<sequence, finished>>
Skipped == incomplete /\ UNCHANGED writeVars
AppendsLine(e) == Accepted(e) \/ Lost(e) \/ Skipped

(* Before the commit a failure ends the session: the call raises.          *)
Raises(e) == ~incomplete /\ ~proof' /\ Residue(e) /\ finished' = TRUE /\ UNCHANGED <<sequence, incomplete>>

(* Whether the session takes calls at all.  Facts is for the bounds alone: *)
(* the events that do not happen once each, as those of stages, of the     *)
(* delivery and of artifacts do.                                           *)
Open == ~finished
Steps(state) == CASE state = "not_started" -> 0 [] state = "in_progress" -> 1 [] OTHER -> 2
Facts ==
    sequence - (1 + 2 * Cardinality({s \in Stages : outcomes[s] # "not_started"})
                  + Cardinality({active} \ {None})
                  + Steps(phases.build) + Steps(phases.verification) + Steps(phases.publication)
                  + Cardinality(created) + Cardinality(verified))
Room == Open /\ Facts < IF phases.build = "not_started" THEN MaxFacts ELSE MaxDelivered
InStage(s) == active = s /\ s # None

-----------------------------------------------------------------------------
(* Stages.                                                                 *)

StartStage(s) ==
    LET e == [code |-> "stage.started", seq |-> 0, stage |-> s] IN
    /\ Open /\ ~proof
    /\ active = None /\ outcomes[s] = "not_started"
    /\ UNCHANGED <<outcomes, workVars, factVars, deliveryVars, errors, proof, endVars>>
    /\ \/ AppendsLine(e) /\ active' = s /\ entered' = s
       \/ Raises(e) /\ UNCHANGED <<active, entered>>

(* A stage may not end before its operations have.                         *)
StageQuiet == \A o \in Ops : operations[o].state = "active" => operations[o].stage # active
CloseStage(outcome) ==
    LET e == [code |-> "stage.completed", seq |-> 0, stage |-> active, outcome |-> outcome] IN
    /\ Open /\ active # None /\ StageQuiet
    /\ UNCHANGED <<entered, workVars, factVars, deliveryVars, errors, proof, endVars>>
    /\ \/ AppendsLine(e) /\ active' = None /\ outcomes' = [outcomes EXCEPT ![active] = outcome]
       \/ Raises(e) /\ UNCHANGED <<active, outcomes>>

-----------------------------------------------------------------------------
(* Operations of any number of threads.                                    *)

Aggregating == active = Transcription /\ execution # None
Working(o) == operations[o].state = "active" /\ InStage(operations[o].stage)

StartOperation(o, kind, parent) ==
    LET e == [code |-> "operation.started", seq |-> 0, stage |-> active, op |-> o,
              parent |-> parent, kind |-> kind] IN
    /\ Room /\ ~proof /\ active # None /\ ~Aggregating
    /\ operations[o].state = "unknown"
    /\ parent \in {None} \cup {p \in Ops : operations[p].state = "active"}
    /\ UNCHANGED <<stageVars, retryCounts, internalRetries, execution, factVars, deliveryVars,
                   errors, proof, endVars>>
    /\ \/ /\ AppendsLine(e)
          /\ operations' = [operations EXCEPT ![o] =
                 [state |-> "active", stage |-> active, parent |-> parent, kind |-> kind, attempts |-> 1]]
       \/ Raises(e) /\ UNCHANGED operations

(* Nothing may be retried in a transcription that came from the cache or   *)
(* has reported.                                                           *)
ScheduleRetry(o, kind) ==
    LET e == [code |-> "retry.scheduled", seq |-> 0, stage |-> active, op |-> o,
              parent |-> operations[o].parent, retry |-> kind,
              attempts |-> operations[o].attempts + 1] IN
    /\ Room /\ Working(o) /\ operations[o].attempts < MaxAttempts
    /\ active = Transcription => execution = None /\ ~transcriptHit
    /\ UNCHANGED <<stageVars, execution, factVars, deliveryVars, errors, proof, endVars>>
    /\ \/ /\ AppendsLine(e)
          /\ operations' = [operations EXCEPT ![o].attempts = @ + 1]
          /\ retryCounts' = [retryCounts EXCEPT ![kind] = @ + 1]
          /\ internalRetries' = [internalRetries EXCEPT
                 ![kind] = IF active = Transcription THEN @ + 1 ELSE @]
       \/ Raises(e) /\ UNCHANGED <<operations, retryCounts, internalRetries>>

CompleteOperation(o) ==
    LET e == [code |-> "operation.completed", seq |-> 0, stage |-> active, op |-> o,
              parent |-> operations[o].parent, kind |-> operations[o].kind,
              attempts |-> operations[o].attempts] IN
    /\ Room /\ Working(o)
    /\ \A c \in Ops : operations[c].parent = o => operations[c].state # "active"
    /\ UNCHANGED <<stageVars, retryCounts, internalRetries, execution, factVars, deliveryVars,
                   errors, proof, endVars>>
    /\ \/ AppendsLine(e) /\ operations' = [operations EXCEPT ![o].state = "completed"]
       \/ Raises(e) /\ UNCHANGED operations

-----------------------------------------------------------------------------
(* Facts.  After the commit only an interruption is still taken.           *)

RecordCache(o, outcome) ==
    LET e == [code |-> "cache.observed", seq |-> 0, stage |-> active, op |-> o,
              parent |-> operations[o].parent, outcome |-> outcome]
        whole == active = Transcription /\ outcome = "hit" IN
    /\ Room /\ ~proof /\ Working(o) /\ operations[o].kind = "cache"
    /\ whole => \A k \in RetryKinds : internalRetries[k] = 0
    /\ UNCHANGED <<stageVars, workVars, notices, interruption, service, deliveryVars, errors,
                   proof, endVars>>
    /\ \/ /\ AppendsLine(e)
          /\ cacheStats' = [cacheStats EXCEPT ![outcome] = @ + 1]
          /\ transcriptHit' = (transcriptHit \/ whole)
       \/ Raises(e) /\ UNCHANGED <<cacheStats, transcriptHit>>

(* What a transcription reports at its end is added as far as it was not   *)
(* seen as it happened.                                                    *)
RecordExecution(counts) ==
    LET e == [code |-> "execution.observed", seq |-> 0, stage |-> active, counts |-> counts] IN
    /\ Room /\ ~proof /\ active = Transcription /\ execution = None /\ StageQuiet
    /\ \A k \in RetryKinds :
         /\ counts[k] >= internalRetries[k]
         /\ transcriptHit => counts[k] = 0 /\ internalRetries[k] = 0
    /\ UNCHANGED <<stageVars, operations, internalRetries, factVars, deliveryVars, errors, proof, endVars>>
    /\ \/ /\ AppendsLine(e)
          /\ execution' = counts
          /\ retryCounts' = [k \in RetryKinds |-> retryCounts[k] + (counts[k] - internalRetries[k])]
       \/ Raises(e) /\ UNCHANGED <<execution, retryCounts>>

RecordNotice(notice) ==
    LET e == [code |-> "notice.recorded", seq |-> 0, stage |-> active, notice |-> notice] IN
    /\ Room /\ ~proof /\ active # None
    /\ notices[notice] < IF notice = "retried" THEN retryCounts["transport"] ELSE cacheStats["corrupt"]
    /\ UNCHANGED <<stageVars, workVars, cacheStats, transcriptHit, interruption, service, deliveryVars,
                   errors, proof, endVars>>
    /\ \/ AppendsLine(e) /\ notices' = [notices EXCEPT ![notice] = @ + 1]
       \/ Raises(e) /\ UNCHANGED notices

RecordInterruption ==
    LET e == [code |-> "interruption.requested", seq |-> 0, stage |-> active] IN
    /\ Room /\ active # None /\ ~interruption
    /\ UNCHANGED <<stageVars, workVars, cacheStats, transcriptHit, notices, service, deliveryVars,
                   errors, proof, endVars>>
    /\ \/ AppendsLine(e) /\ interruption' = TRUE
       \/ Raises(e) /\ UNCHANGED interruption

(* The provider is selected, and then contacted or found unnecessary.      *)
RecordService(next) ==
    LET e == [code |-> IF next = "selected" THEN "service.selected" ELSE "service.unused",
              seq |-> 0, stage |-> active] IN
    /\ Room /\ ~proof /\ active # None
    /\ service = IF next = "selected" THEN "none" ELSE "selected"
    /\ UNCHANGED <<stageVars, workVars, cacheStats, transcriptHit, notices, interruption, deliveryVars,
                   errors, proof, endVars>>
    /\ \/ AppendsLine(e) /\ service' = next
       \/ Raises(e) /\ UNCHANGED service
RecordRequest(o) ==
    LET e == [code |-> "request.completed", seq |-> 0, stage |-> active, op |-> o,
              parent |-> operations[o].parent] IN
    /\ Room /\ ~proof /\ Working(o) /\ operations[o].kind = "request"
    /\ service \in {"selected", "contacted"}
    /\ UNCHANGED <<stageVars, workVars, cacheStats, transcriptHit, notices, interruption, deliveryVars,
                   errors, proof, endVars>>
    /\ \/ AppendsLine(e) /\ service' = "contacted"
       \/ Raises(e) /\ UNCHANGED service

(* An error is what the ledger holds, so that the end can only name those. *)
RecordFailure ==
    LET e == [code |-> "error.recorded", seq |-> 0, stage |-> active] IN
    /\ Room /\ ~proof /\ active # None
    /\ UNCHANGED <<stageVars, workVars, factVars, deliveryVars, proof, endVars>>
    /\ \/ AppendsLine(e) /\ errors' = errors \cup {[seq |-> sequence + 1, stage |-> active]}
       \/ Raises(e) /\ UNCHANGED errors

-----------------------------------------------------------------------------
(* The delivery.  The state advances before the line is written, and with  *)
(* the commit comes its proof, so that a failure of that very write counts *)
(* as one after the commit.                                                *)

\* Fault: any phase may end as any other.
AdvancesLoosely(phase, state) ==
    \/ phases[phase] = "not_started" /\ state = "in_progress"
    \/ phases[phase] = "in_progress" /\ \E p \in DOMAIN FinalStates : state \in FinalStates[p]
Advances(phase, state) ==
    /\ \/ phases[phase] = "not_started" /\ state = "in_progress"
       \/ phases[phase] = "in_progress" /\ state \in FinalStates[phase]
    /\ phase = "verification" => phases.build = "completed"
    /\ phase = "publication" => phases.verification = "passed"

RecordDelivery(phase, state) ==
    LET e == [code |-> "delivery.changed", seq |-> 0, stage |-> active, phase |-> phase, state |-> state] IN
    /\ Open /\ ~proof /\ active # None
    /\ Facts <= MaxDelivered
    /\ Advances(phase, state)
    /\ phases' = [phases EXCEPT ![phase] = state]
    /\ proof' = (state = "committed")
    /\ UNCHANGED <<stageVars, workVars, factVars, created, verified, errors, endVars>>
    /\ AppendsLine(e) \/ Raises(e)

CreateArtifact(p) ==
    LET e == [code |-> "artifact.created", seq |-> 0, stage |-> active, path |-> p] IN
    /\ Open /\ ~proof /\ active # None
    /\ phases.build = "in_progress" /\ p \notin created
    /\ UNCHANGED <<stageVars, workVars, factVars, phases, verified, errors, proof, endVars>>
    /\ \/ AppendsLine(e) /\ created' = created \cup {p}
       \/ Raises(e) /\ UNCHANGED created
VerifyArtifact(p) ==
    LET e == [code |-> "artifact.verified", seq |-> 0, stage |-> active, path |-> p] IN
    /\ Open /\ ~proof /\ active # None
    /\ phases.verification = "in_progress" /\ p \in created \ verified
    /\ UNCHANGED <<stageVars, workVars, factVars, phases, created, errors, proof, endVars>>
    /\ \/ AppendsLine(e) /\ verified' = verified \cup {p}
       \/ Raises(e) /\ UNCHANGED verified

-----------------------------------------------------------------------------
(* The end of the run.                                                     *)

(* What finish() may be called with: a primary error is older than those   *)
(* associated with it, an interruption has been recorded, and the delivery *)
(* is at a point where the outcome is possible.                            *)
DeliveryStates == <<phases.build, phases.verification, phases.publication>>
Completions ==
    [outcome : {"failed"}, primary : errors, associated : SUBSET errors]
    \cup [outcome : {"interrupted"}, primary : {None}, associated : SUBSET errors]
    \cup {[outcome |-> "succeeded", primary |-> None, associated |-> {}]}
\* Fault: the publication's state is not looked at.
ValidAnyhow(c) ==
    /\ \A i \in 1 .. 3 : DeliveryStates[i] # "in_progress"
    /\ CASE c.outcome = "failed" -> \A a \in c.associated : a.seq > c.primary.seq
         [] c.outcome = "interrupted" -> interruption
         [] c.outcome = "succeeded" ->
              DeliveryStates \in {<<"completed", "passed", "committed">>,
                                 <<"not_started", "not_started", "not_started">>}
ValidOutcome(c) ==
    /\ \A i \in 1 .. 3 : DeliveryStates[i] # "in_progress"
    /\ CASE c.outcome = "failed" ->
              phases.publication # "committed" /\ \A a \in c.associated : a.seq > c.primary.seq
         [] c.outcome = "interrupted" -> phases.publication # "committed" /\ interruption
         [] c.outcome = "succeeded" ->
              DeliveryStates \in {<<"completed", "passed", "committed">>,
                                 <<"not_started", "not_started", "not_started">>}

\* Fault: the run ends in the stage entered last, wherever the primary error came from.
LastStage(c) == entered
TerminalStage(c) ==
    IF c.primary # None THEN c.primary.stage ELSE entered

(* finish() until run.completed is written, or is not.                     *)
FinishRun(c) ==
    LET e == [code |-> "run.completed", seq |-> 0, stage |-> TerminalStage(c), outcome |-> c.outcome] IN
    /\ ~finished /\ active = None /\ ValidOutcome(c)
    /\ finished' = TRUE
    /\ proof' = (proof \/ c.outcome = "succeeded")
    /\ UNCHANGED <<stageVars, workVars, factVars, deliveryVars, errors, runJson>>
    /\ \/ /\ ~incomplete
          /\ log' = Read(log, Line(e), torn) /\ sequence' = sequence + 1
          /\ formed' = c
          /\ UNCHANGED <<incomplete, torn, result>>
       \/ /\ ~incomplete /\ Residue(e)
          /\ incomplete' = proof'
          /\ result' = IF proof' THEN "incomplete" ELSE "raised"
          /\ UNCHANGED <<sequence, formed>>
       \/ /\ incomplete
          /\ result' = "incomplete"
          /\ UNCHANGED <<sequence, log, torn, incomplete, formed>>

Manifest(c) ==
    [outcome |-> c.outcome, eventCount |-> sequence,
     primary |-> c.primary, associated |-> c.associated,
     stages |-> outcomes,
     operations |-> Cardinality({o \in Ops : operations[o].state = "completed"}),
     retries |-> retryCounts, cache |-> cacheStats, notices |-> notices,
     service |-> <<service # "none", service = "contacted">>,
     delivery |-> IF c.outcome = "succeeded" THEN <<"completed", "passed", "committed">> ELSE DeliveryStates,
     artifacts |-> <<Cardinality(created), Cardinality(verified)>>]

(* A provider that was selected but neither contacted nor found unnecessary*)
(* cannot be summed up: finish() raises, though run.completed is written.  *)
Unaccounted == service = "selected"

(* run.json is written after the events were read back, and replaced as a  *)
(* whole; a failure may come before that or after it.                      *)
PublishManifest ==
    /\ formed # None
    /\ formed' = None
    /\ UNCHANGED <<stageVars, workVars, factVars, deliveryVars, errors, proof, writeVars>>
    /\ \/ ~Unaccounted /\ runJson' = Manifest(formed) /\ result' = "persisted"
       \/ /\ ~Unaccounted
          /\ runJson' \in {None, Manifest(formed)}
          /\ result' = IF formed.outcome = "succeeded" THEN "incomplete" ELSE "raised"
       \/ Unaccounted /\ result' = "raised" /\ UNCHANGED runJson

(* A snapshot that cannot be taken ends the session as a failing write does*)
SnapshotFails ==
    /\ Open
    /\ finished' = TRUE
    /\ UNCHANGED <<stageVars, workVars, factVars, deliveryVars, errors, proof, endVars,
                   sequence, incomplete, log, torn>>

Counts == [RetryKinds -> 0 .. MaxAttempts]
SessionNext ==
    \/ \E s \in Stages : StartStage(s)
    \/ \E outcome \in StageOutcomes : CloseStage(outcome)
    \/ \E o \in Ops, kind \in OperationKinds, parent \in Ops \cup {None} : StartOperation(o, kind, parent)
    \/ \E o \in Ops, kind \in RetryKinds : ScheduleRetry(o, kind)
    \/ \E o \in Ops : CompleteOperation(o) \/ RecordRequest(o)
    \/ \E o \in Ops, outcome \in CacheOutcomes : RecordCache(o, outcome)
    \/ \E counts \in Counts : RecordExecution(counts)
    \/ \E notice \in NoticeKinds : RecordNotice(notice)
    \/ \E next \in {"selected", "unused"} : RecordService(next)
    \/ RecordInterruption \/ RecordFailure
    \/ \E phase \in DOMAIN phases :
         \E state \in UNION {FinalStates[p] : p \in DOMAIN FinalStates} \cup {"in_progress"} :
           RecordDelivery(phase, state)
    \/ \E p \in Paths : CreateArtifact(p) \/ VerifyArtifact(p)
    \/ \E c \in Completions : FinishRun(c)
    \/ PublishManifest \/ SnapshotFails

SessionSpec == SessionInit /\ [][SessionNext]_sessionVars

-----------------------------------------------------------------------------
(* Properties.                                                             *)

(* Whatever is on disk, at whatever moment the process dies, is accepted as*)
(* complete or as incomplete: no order of calls, no failing write and no   *)
(* half-written line makes a package that contradicts itself.              *)
NeverCorrupt == Verdict(log, torn, runJson) # "corrupt"

(* finish() says that the package is whole only if the reader finds it so: *)
(* what the session counted as things happened is what the reader counts   *)
(* from the lines, whatever was recorded by whom in whatever order.        *)
PersistedIsComplete ==
    result = "persisted" => Verdict(log, torn, runJson) = "complete"

(* Once the delivery is committed, no line and no manifest says that the   *)
(* run failed or was interrupted, even when the line of the commit itself  *)
(* was lost; and finish() raises only over a provider left unaccounted for.*)
CommitNeverDenied ==
    phases.publication = "committed" =>
        /\ log.terminal # None => log.terminal.outcome = "succeeded"
        /\ runJson # None => runJson.outcome = "succeeded"
        /\ result = "raised" => Unaccounted
=============================================================================
