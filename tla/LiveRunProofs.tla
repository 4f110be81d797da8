--------------------------- MODULE LiveRunProofs ---------------------------
(***************************************************************************)
(* For every number of stages: the outcome, run.json, the delivery         *)
(* directory and the temporary files of a live run tell the same story.    *)
(* For any stages, operations and files of the session that records it,    *)
(* any number of attempts and facts: what is on disk never contradicts     *)
(* itself, a package that is called persisted is complete, and nothing on  *)
(* disk denies a committed delivery.                                       *)
(* For any processes and directories of the workspace below them, any      *)
(* number of starts, kills and replacements: what opens, creates, undoes   *)
(* and cleans a workspace touches nothing of others, runs alone, and       *)
(* undoes its traces.                                                      *)
(***************************************************************************)
EXTENDS LiveRun, RunDiagnostics, WorkspaceLayout, FiniteSetTheorems, TLAPS

-----------------------------------------------------------------------------
(* The run: its inductive invariant                                         *)

Projected == {"teardown", "restore", "returned"}
Clean == ~temporary /\ ~journal /\ delivery # "unknown"

\* The commit state is what the delivery directory shows, except while the
\* transaction runs; only a failed rollback leaves something to recover.
CommitInv ==
    /\ pc = "transaction" => captured /\ delivery = "old" /\ ~cancelled
    /\ pc # "transaction" => (captured <=> delivery = "new") /\ ~pending
    /\ journal \/ delivery = "unknown" =>
           ~captured /\ pc \in Handling \cup {"finish", "fallback", "exited"} \cup Projected

\* Which handlers a committed run can be in, and that the last stage has committed.
StageInv ==
    /\ captured => stage = Publishing
    /\ pc \in {"record", "complete"} => (captured <=> stage = Publishing)
    /\ pc \in {"committed", "closing"} => captured
    /\ pc \in Handling \cup {"input", "input_record", "initialize", "enter", "check", "effect"} =>
           ~captured

\* What the completion being formed claims, and whether its cleanup got through.
CompletionInv ==
    /\ pc \in {"cleanup", "terminal"} => ending \in {"failed", "interrupted"}
    /\ pc = "closing" => ending = "succeeded"
    /\ pc = "finish" => ending \in States /\ (ending = "succeeded" <=> captured)
    /\ pc \in {"input_record", "terminal", "finish"} => recovery \/ Clean

\* The outcome exists once the run was projected, and says the truth.
OutcomeInv ==
    /\ pc \in Projected => outcome # NoOutcome
    /\ pc \notin Projected \cup {"exited"} => outcome = NoOutcome
    /\ outcome = NoOutcome => manifest = "none"
    /\ outcome # NoOutcome =>
          /\ outcome.state = "succeeded" <=> captured
          /\ outcome.recoveryIncomplete \/ Clean
          /\ outcome.diagnosticsIncomplete \/ manifest = outcome.state
          /\ manifest \in {"none", outcome.state}
          /\ pc # "transaction"
    /\ pc = "returned" /\ Unrecorded => outcome.diagnosticsIncomplete

LiveRunInv == TypeOK /\ CommitInv /\ StageInv /\ CompletionInv /\ OutcomeInv

(* What a projection leaves in the outcome.                                 *)
LEMMA ProjectOutcome ==
    ASSUME NEW state \in States, NEW d \in BOOLEAN, NEW r \in BOOLEAN, Project(state, d, r)
    PROVE  /\ pc' = "teardown"
           /\ outcome' \in Outcomes /\ outcome' # NoOutcome
           /\ outcome'.state = state
           /\ outcome'.diagnosticsIncomplete = d
           /\ outcome'.recoveryIncomplete = r
<1>1. state # "none"
    BY DEF States
<1> QED BY <1>1 DEF Project, Goto, Outcomes, NoOutcome

(* Closing the lease and restoring the handlers can only add to the flags.  *)
LEMMA FlagsGrow ==
    ASSUME NEW d \in BOOLEAN, NEW r \in BOOLEAN, outcome \in Outcomes,
           outcome' = [outcome EXCEPT !.diagnosticsIncomplete = @ \/ d,
                                      !.recoveryIncomplete = @ \/ r]
    PROVE  /\ outcome' \in Outcomes /\ outcome' # NoOutcome
           /\ outcome'.state = outcome.state
           /\ outcome'.diagnosticsIncomplete <=> outcome.diagnosticsIncomplete \/ d
           /\ outcome'.recoveryIncomplete <=> outcome.recoveryIncomplete \/ r
<1>1. outcome'.state = outcome.state /\ outcome.state # "none"
    BY DEF Outcomes, States
<1> QED BY <1>1 DEF Outcomes, NoOutcome

(* The acquired workspace satisfies the inductive invariant.                *)
LEMMA InitLiveRunInv == Init => LiveRunInv
<1> SUFFICES ASSUME Init PROVE LiveRunInv
    OBVIOUS
<1>1. TypeOK
  <2>1. pc \in PC /\ stage \in 0 .. Publishing
      BY OrdinaryAssumption DEF Init, PC, Publishing
  <2> QED BY <2>1 DEF Init, TypeOK
<1>2. CommitInv /\ StageInv /\ CompletionInv /\ OutcomeInv
    BY DEF Init, CommitInv, StageInv, CompletionInv, OutcomeInv, Handling, Projected, Unrecorded
<1> QED BY <1>1, <1>2 DEF LiveRunInv

(* Every step keeps the types.                                              *)
LEMMA NextTypeOK == LiveRunInv /\ [Next]_vars => TypeOK'
<1> SUFFICES ASSUME LiveRunInv, [Next]_vars PROVE TypeOK'
    OBVIOUS
<1>0. pc' \in PC
    BY DEF Next, Step, vars, LiveRunInv, TypeOK, PC, Handling, Ended, Goto, Appends, Project,
        Initialize, EnterStage, CheckBeforeEffect, StageReturns, StageRaises, Capture, TransactionPublishes, TransactionFails, CheckAfterEffect, RecordSuccess, NoteInterruption, CompleteStage, CleanupAfterCommit, HandleFailure, HandleInterruption, CleanupBeforeTerminal, EndStage, Finish, Fallback, CleanUnusableInput, RecordUnusableInput, Teardown, Restore, Signal, ForcedExit
<1> USE OrdinaryAssumption, <1>0 DEF LiveRunInv, TypeOK, signals, commit, written, completion, disk
<1>1. CASE Initialize
    BY <1>1 DEF Initialize, Publishing
<1>2. CASE EnterStage
    BY <1>2 DEF EnterStage, Appends
<1>3. CASE CheckBeforeEffect
    BY <1>3 DEF CheckBeforeEffect
<1>4. CASE StageReturns
    BY <1>4 DEF StageReturns
<1>5. CASE StageRaises
    BY <1>5 DEF StageRaises
<1>6. CASE Capture
    BY <1>6 DEF Capture
<1>7. CASE TransactionPublishes
    BY <1>7 DEF TransactionPublishes, Unmask
<1>8. CASE TransactionFails
    BY <1>8 DEF TransactionFails, Unmask
<1>9. CASE CheckAfterEffect
    BY <1>9 DEF CheckAfterEffect
<1>10. CASE RecordSuccess
    BY <1>10 DEF RecordSuccess, Appends, AppendsAfterCommit
<1>11. CASE NoteInterruption
  <2>1. CASE cancelled
      BY <1>11, <2>1 DEF NoteInterruption, AppendsAfterCommit
  <2>2. CASE ~cancelled
      BY <1>11, <2>2 DEF NoteInterruption
  <2> QED BY <2>1, <2>2
<1>12. CASE CompleteStage
    BY <1>12 DEF CompleteStage, Publishing, States, Appends, AppendsAfterCommit
<1>13. CASE CleanupAfterCommit
  <2>1. outcome' \in Outcomes \cup {NoOutcome}
      BY <1>13, ProjectOutcome DEF CleanupAfterCommit, States
  <2>2. temporary' \in BOOLEAN
      BY <1>13 DEF CleanupAfterCommit, CleanupSucceeds, CleanupFails
  <2> QED BY <1>13, <2>1, <2>2 DEF CleanupAfterCommit
<1>14. CASE HandleFailure
    BY <1>14 DEF HandleFailure, States, Appends
<1>15. CASE HandleInterruption
    BY <1>15 DEF HandleInterruption, States, Appends
<1>16. CASE CleanupBeforeTerminal
  <2>1. recovery' \in BOOLEAN /\ temporary' \in BOOLEAN
      BY <1>16 DEF CleanupBeforeTerminal, CleanupSucceeds, CleanupFails
  <2> QED BY <1>16, <2>1 DEF CleanupBeforeTerminal, Appends
<1>17. CASE EndStage
  <2>1. outcome' \in Outcomes \cup {NoOutcome}
      BY <1>17, ProjectOutcome DEF EndStage, CompletionInv, States
  <2> QED BY <1>17, <2>1 DEF EndStage, Project, Appends
<1>18. CASE Finish
  <2>1. outcome' \in Outcomes \cup {NoOutcome}
      BY <1>18, ProjectOutcome DEF Finish, CompletionInv
  <2> QED BY <1>18, <2>1 DEF Finish, Project, States
<1>19. CASE Fallback
  <2>1. outcome' \in Outcomes \cup {NoOutcome}
      BY <1>19, ProjectOutcome DEF Fallback, States
  <2>2. temporary' \in BOOLEAN
      BY <1>19 DEF Fallback, CleanupSucceeds, CleanupFails
  <2> QED BY <1>19, <2>1, <2>2 DEF Fallback
<1>20. CASE CleanUnusableInput
  <2>1. recovery' \in BOOLEAN /\ temporary' \in BOOLEAN
      BY <1>20 DEF CleanUnusableInput, CleanupSucceeds, CleanupFails
  <2> QED BY <1>20, <2>1 DEF CleanUnusableInput, Appends
<1>21. CASE RecordUnusableInput
    BY <1>21 DEF RecordUnusableInput, States, Appends
<1>22. CASE Teardown
  <2>1. outcome' \in Outcomes \cup {NoOutcome}
      BY <1>22, FlagsGrow DEF Teardown, OutcomeInv, Projected, Unrecorded
  <2> QED BY <1>22, <2>1 DEF Teardown
<1>23. CASE Restore
  <2>1. outcome' \in Outcomes \cup {NoOutcome}
      BY <1>23, FlagsGrow DEF Restore, OutcomeInv, Projected, Unrecorded
  <2> QED BY <1>23, <2>1 DEF Restore
<1>24. CASE Signal
    BY <1>24 DEF Signal
<1>25. CASE ForcedExit
  <2>1. temporary' \in BOOLEAN
      BY <1>25 DEF ForcedExit, CleanupSucceeds, CleanupFails
  <2> QED BY <1>25, <2>1 DEF ForcedExit
<1>26. CASE UNCHANGED vars
    BY <1>26 DEF vars
<1> QED BY <1>1, <1>2, <1>3, <1>4, <1>5, <1>6, <1>7, <1>8, <1>9, <1>10, <1>11, <1>12, <1>13,
        <1>14, <1>15, <1>16, <1>17, <1>18, <1>19, <1>20, <1>21, <1>22, <1>23, <1>24, <1>25, <1>26
    DEF Next, Step

(* Every step preserves the inductive invariant.                            *)
LEMMA NextLiveRunInv == LiveRunInv /\ [Next]_vars => LiveRunInv'
<1> SUFFICES ASSUME LiveRunInv, [Next]_vars PROVE CommitInv' /\ StageInv' /\ CompletionInv' /\ OutcomeInv'
    BY NextTypeOK DEF LiveRunInv
<1>0. TypeOK'
    BY NextTypeOK
<1> USE OrdinaryAssumption, <1>0 DEF LiveRunInv, TypeOK, CommitInv, StageInv, CompletionInv,
        OutcomeInv, PC, Handling, Ended, Projected, Clean, States, Publishing, Unrecorded,
        Goto, signals, commit, written, completion, disk
<1>1. CASE Initialize
    BY <1>1 DEF Initialize
<1>2. CASE EnterStage
    BY <1>2 DEF EnterStage, Appends
<1>3. CASE CheckBeforeEffect
    BY <1>3 DEF CheckBeforeEffect
<1>4. CASE StageReturns
    BY <1>4 DEF StageReturns
<1>5. CASE StageRaises
    BY <1>5 DEF StageRaises
<1>6. CASE Capture
    BY <1>6 DEF Capture
<1>7. CASE TransactionPublishes
    BY <1>7 DEF TransactionPublishes, Unmask
<1>8. CASE TransactionFails
    BY <1>8 DEF TransactionFails, Unmask
<1>9. CASE CheckAfterEffect
    BY <1>9 DEF CheckAfterEffect
<1>10. CASE RecordSuccess
    BY <1>10 DEF RecordSuccess, Appends, AppendsAfterCommit
<1>11. CASE NoteInterruption
    BY <1>11 DEF NoteInterruption, AppendsAfterCommit
<1>12. CASE CompleteStage
    BY <1>12 DEF CompleteStage, Appends, AppendsAfterCommit
<1>13. CASE CleanupAfterCommit
    BY <1>13, ProjectOutcome DEF CleanupAfterCommit, CleanupSucceeds, CleanupFails
<1>14. CASE HandleFailure
    BY <1>14 DEF HandleFailure, Appends
<1>15. CASE HandleInterruption
    BY <1>15 DEF HandleInterruption, Appends
<1>16. CASE CleanupBeforeTerminal
    BY <1>16 DEF CleanupBeforeTerminal, CleanupSucceeds, CleanupFails, Appends
<1>17. CASE EndStage
    BY <1>17, ProjectOutcome DEF EndStage, Appends
<1>18. CASE Finish
    BY <1>18, ProjectOutcome DEF Finish
<1>19. CASE Fallback
    BY <1>19, ProjectOutcome DEF Fallback, CleanupSucceeds, CleanupFails
<1>20. CASE CleanUnusableInput
    BY <1>20 DEF CleanUnusableInput, CleanupSucceeds, CleanupFails, Appends
<1>21. CASE RecordUnusableInput
    BY <1>21 DEF RecordUnusableInput, Appends
<1>22. CASE Teardown
    BY <1>22, FlagsGrow DEF Teardown
<1>23. CASE Restore
    BY <1>23, FlagsGrow DEF Restore
<1>24. CASE Signal
    BY <1>24 DEF Signal
<1>25. CASE ForcedExit
    BY <1>25 DEF ForcedExit, CleanupSucceeds, CleanupFails
<1>26. CASE UNCHANGED vars
    BY <1>26 DEF vars
<1> QED BY <1>1, <1>2, <1>3, <1>4, <1>5, <1>6, <1>7, <1>8, <1>9, <1>10, <1>11, <1>12, <1>13,
        <1>14, <1>15, <1>16, <1>17, <1>18, <1>19, <1>20, <1>21, <1>22, <1>23, <1>24, <1>25, <1>26
    DEF Next, Step

(* The invariant holds in every reachable state.                            *)
THEOREM LiveRunInvariant == Spec => []LiveRunInv
BY InitLiveRunInv, NextLiveRunInv, PTL DEF Spec

-----------------------------------------------------------------------------
(* The properties                                                           *)

(* Every value the main thread keeps has its type, for any number of stages. *)
THEOREM LiveRunTypeCorrect == Spec => []TypeOK
<1>1. LiveRunInv => TypeOK
    BY DEF LiveRunInv
<1> QED BY <1>1, LiveRunInvariant, PTL

(* The returned outcome is "succeeded" exactly when the new delivery stands, *)
(* and directories left exchanged are reported (live.py, LiveRunOutcome).   *)
THEOREM LiveRunOutcomeTruthful == Spec => []OutcomeTruthful
<1>1. LiveRunInv => OutcomeTruthful
    BY DEF LiveRunInv, CommitInv, StageInv, OutcomeInv, OutcomeTruthful, Clean, Projected, TypeOK
<1> QED BY <1>1, LiveRunInvariant, PTL

(* run.json never contradicts `delivery/` or the outcome (_session.py,      *)
(* finish).                                                                 *)
THEOREM LiveRunManifestTruthful == Spec => []ManifestTruthful
<1>1. LiveRunInv => ManifestTruthful
    BY DEF LiveRunInv, CommitInv, StageInv, OutcomeInv, ManifestTruthful, Projected, TypeOK, States
<1> QED BY <1>1, LiveRunInvariant, PTL

(* Diagnostics not reported incomplete are on disk (_session.py, finish).      *)
THEOREM LiveRunCompletePersisted == Spec => []CompleteMeansPersisted
<1>1. LiveRunInv => CompleteMeansPersisted
    BY DEF LiveRunInv, OutcomeInv, CompleteMeansPersisted, Projected
<1> QED BY <1>1, LiveRunInvariant, PTL

(* A signal too late to interrupt is recorded or reported (live.py,         *)
(* _CommitState and the end of execute).                                    *)
THEOREM LiveRunLateSignal == Spec => []LateSignalAccounted
<1>1. LiveRunInv => LateSignalAccounted
    BY DEF LiveRunInv, CommitInv, OutcomeInv, LateSignalAccounted, Unrecorded, Projected, TypeOK
<1> QED BY <1>1, LiveRunInvariant, PTL

(* A run leaves no temporary files unless it says so (live.py, _cleanup_run *)
(* and every caller of it).                                                 *)
THEOREM LiveRunCleanOrFlagged == Spec => []CleanOrFlagged
<1>1. LiveRunInv => CleanOrFlagged
    BY DEF LiveRunInv, OutcomeInv, CleanOrFlagged, Clean, Projected
<1> QED BY <1>1, LiveRunInvariant, PTL

-----------------------------------------------------------------------------
(* The session that records the run: its inductive invariant                *)

LogFields ==
    {"lines", "readable", "ordered", "possible", "active", "last", "stages", "ops", "retries",
     "internal", "execution", "cache", "hit", "notices", "interrupted", "selected", "unused",
     "contacted", "build", "verification", "publication", "created", "verified", "errors", "terminal"}

\* What the session remembers is consistent in itself.
MemoryInv ==
    /\ \A o \in Ops : operations[o].state = "active" =>
         /\ operations[o].stage = active /\ active # None
         /\ active = Transcription => execution = None
    /\ \A k \in RetryKinds :
         /\ execution # None => execution[k] >= internalRetries[k]
         /\ transcriptHit => internalRetries[k] = 0 /\ (execution # None => execution[k] = 0)
    /\ notices["retried"] <= retryCounts["transport"]
    /\ notices["recovered"] <= cacheStats["corrupt"]
    /\ phases.publication = "committed" => proof

\* The reader would gather from the lines what the session remembers.
FaithfulStages == log.active = active /\ log.last = entered /\ log.stages = outcomes
FaithfulWork ==
    /\ log.ops = operations /\ log.internal = internalRetries /\ log.execution = execution
    /\ log.retries \in [RetryKinds -> Nat] /\ Retries(log) = retryCounts
FaithfulFacts ==
    /\ log.cache = cacheStats /\ log.hit = transcriptHit /\ log.notices = notices
    /\ log.interrupted = interruption
    /\ log.selected \in BOOLEAN /\ (log.selected <=> service # "none")
    /\ log.contacted \in BOOLEAN /\ (log.contacted <=> service = "contacted")
    /\ log.unused <=> service = "unused"
    /\ log.errors = errors
FaithfulDelivery ==
    /\ log.build = phases.build /\ log.verification = phases.verification
    /\ log.publication = phases.publication
    /\ log.created = created /\ log.verified = verified
Faithful ==
    /\ log.lines = sequence /\ log.ordered /\ log.possible
    /\ FaithfulStages /\ FaithfulWork /\ FaithfulFacts /\ FaithfulDelivery

\* What has been given to a finish() whose run.completed is written.
FormedInv ==
    formed # None =>
        /\ finished /\ ~torn /\ Faithful
        /\ formed \in Completions /\ ValidOutcome(formed)
        /\ log.terminal \in Terminals
        /\ log.terminal.outcome = formed.outcome /\ log.terminal.stage = TerminalStage(formed)
        /\ runJson = None /\ result = "none"

\* As long as no write has failed, the package says what the session knows;
\* afterwards it keeps saying what it said.
PackageInv ==
    /\ DOMAIN log = LogFields
    /\ log.readable
    /\ ~finished => log.terminal = None /\ formed = None /\ runJson = None /\ result = "none"
    /\ ~finished /\ ~incomplete => ~torn /\ Faithful
    /\ log.terminal # None =>
         log.ordered /\ (phases.publication = "committed" => log.terminal.outcome = "succeeded")
    /\ runJson # None => ~torn /\ log.terminal # None /\ Matches(log, runJson)
    /\ result = "persisted" => runJson # None
    /\ result = "raised" /\ phases.publication = "committed" => Unaccounted

SessionInv == SessionTypeOK /\ MemoryInv /\ PackageInv /\ FormedInv

-----------------------------------------------------------------------------
(* Reading one line                                                         *)

Codes ==
    {"run.completed", "stage.started", "stage.completed", "operation.started", "operation.completed",
     "retry.scheduled", "cache.observed", "execution.observed", "error.recorded", "notice.recorded",
     "interruption.requested", "delivery.changed", "artifact.created", "artifact.verified",
     "service.selected", "service.unused", "request.completed"}
Phased(e) == e.code = "delivery.changed" => e.phase \in {"build", "verification", "publication"}

(* Every event adds to what was gathered, and only the last one ends it.    *)
LEMMA GatheredFields ==
    ASSUME NEW r, DOMAIN r = LogFields, NEW e, e.code \in Codes, Phased(e)
    PROVE  /\ DOMAIN Gathered(r, e) = LogFields
           /\ e.code # "run.completed" => Gathered(r, e).terminal = r.terminal
BY DEF Gathered, LogFields, Codes, Phased

\* Two records of the reader that differ at most in its judgement.
Agree(n, r) ==
    /\ n.active = r.active /\ n.last = r.last /\ n.stages = r.stages
    /\ n.ops = r.ops /\ n.retries = r.retries /\ n.internal = r.internal
    /\ n.execution = r.execution /\ n.cache = r.cache /\ n.hit = r.hit
    /\ n.notices = r.notices /\ n.interrupted = r.interrupted /\ n.selected = r.selected
    /\ n.unused = r.unused /\ n.contacted = r.contacted /\ n.build = r.build
    /\ n.verification = r.verification /\ n.publication = r.publication /\ n.created = r.created
    /\ n.verified = r.verified /\ n.errors = r.errors /\ n.terminal = r.terminal

(* Besides, a line is counted and judged.                                   *)
LEMMA ReadFields ==
    ASSUME NEW r, DOMAIN r = LogFields, NEW e, e.code \in Codes, Phased(e), NEW t
    PROVE  /\ DOMAIN Read(r, e, t) = LogFields
           /\ Read(r, e, t).lines = r.lines + 1
           /\ Read(r, e, t).readable <=> (r.readable /\ ~t /\ e.seq = r.lines + 1)
           /\ Read(r, e, t).ordered <=> (r.ordered /\ Ordered(r, e))
           /\ Read(r, e, t).possible <=> (r.possible /\ Possible(r, e))
           /\ Agree(Read(r, e, t), Gathered(r, e))
<1>1. DOMAIN Gathered(r, e) = LogFields
    BY GatheredFields
<1> QED BY <1>1 DEF Read, LogFields, Agree

-----------------------------------------------------------------------------
(* Writing one line                                                         *)

(* A call that writes keeps the package honest, if what an accepted line    *)
(* adds to the log is what the call adds to the memory.                     *)
LEMMA WriteKeepsPackage ==
    ASSUME SessionTypeOK, PackageInv, FormedInv, ~finished,
           NEW e, Line(e).code \in Codes \ {"run.completed"}, Phased(Line(e)),
           Line(e).seq = sequence + 1,
           AppendsLine(e) \/ Raises(e), UNCHANGED endVars,
           Accepted(e) => Faithful'
    PROVE  PackageInv' /\ FormedInv'
<1>1. formed' = None /\ runJson' = None /\ result' = "none" /\ log.terminal = None
    BY DEF PackageInv, endVars
<1> DEFINE read == Read(log, Line(e), torn)
<1>2. DOMAIN read = LogFields /\ read.terminal = None
  <2>1. read.terminal = Gathered(log, Line(e)).terminal
      BY ReadFields DEF PackageInv, Agree
  <2> QED BY <1>1, <2>1, ReadFields, GatheredFields DEF PackageInv
<1>3. ~incomplete => read.readable
  <2>1. read.readable <=> (log.readable /\ ~torn /\ Line(e).seq = log.lines + 1)
      BY ReadFields DEF PackageInv
  <2> QED BY <2>1 DEF PackageInv, Faithful
<1>4. log' = log \/ (log' = read /\ ~incomplete)
    BY DEF AppendsLine, Accepted, Lost, Skipped, Raises, Residue, writeVars
<1>5. DOMAIN log' = LogFields /\ log'.readable /\ log'.terminal = None
    BY <1>1, <1>2, <1>3, <1>4 DEF PackageInv
<1>6. ~finished' /\ ~incomplete' => ~torn' /\ Faithful'
    BY DEF AppendsLine, Accepted, Lost, Skipped, Raises, PackageInv, writeVars
<1> QED BY <1>1, <1>5, <1>6 DEF PackageInv, FormedInv

(* The bookkeeping of the writes keeps its types.                           *)
LEMMA WriteTypes ==
    ASSUME SessionTypeOK, NEW e, AppendsLine(e) \/ Raises(e)
    PROVE  /\ sequence' \in Nat \ {0}
           /\ incomplete' \in BOOLEAN /\ finished' \in BOOLEAN /\ torn' \in BOOLEAN
<1>1. sequence \in Nat \ {0} /\ incomplete \in BOOLEAN /\ finished \in BOOLEAN /\ torn \in BOOLEAN
    BY DEF SessionTypeOK
<1>2. sequence' \in {sequence, sequence + 1}
    BY DEF AppendsLine, Accepted, Lost, Skipped, Raises, writeVars
<1>3. incomplete' \in BOOLEAN /\ finished' \in BOOLEAN /\ torn' \in BOOLEAN
    BY <1>1, Zenon DEF AppendsLine, Accepted, Lost, Skipped, Raises, Residue, writeVars
<1>4. sequence' \in Nat \ {0}
    BY <1>1, <1>2
<1> QED BY <1>3, <1>4

(* What an accepted line leaves: one line more, in order, and every field   *)
(* but those of the judgement as the event makes it.                        *)
LEMMA AcceptedLine ==
    ASSUME SessionTypeOK, PackageInv, ~finished, NEW e, Line(e).code \in Codes, Phased(Line(e)), Accepted(e),
           Ordered(log, Line(e)), Possible(log, Line(e))
    PROVE  /\ Faithful /\ sequence' = sequence + 1
           /\ log'.lines = sequence' /\ log'.ordered /\ log'.possible
           /\ Agree(log', Gathered(log, Line(e)))
<1>1. Faithful
    BY DEF PackageInv, Accepted
<1>2. log' = Read(log, Line(e), torn) /\ sequence' = sequence + 1
    BY DEF Accepted
<1>3. log'.lines = log.lines + 1 /\ log'.ordered /\ log'.possible
    BY <1>1, <1>2, ReadFields DEF PackageInv, Faithful
<1>4. Agree(log', Gathered(log, Line(e)))
    BY <1>2, ReadFields DEF PackageInv
<1> QED BY <1>1, <1>2, <1>3, <1>4 DEF Faithful

-----------------------------------------------------------------------------
(* The calls.  Each is shown in the same steps: the line it writes fits what *)
(* was gathered (Ordered, Possible); gathering it changes the fields that the *)
(* call changes in the memory; so memory and log agree again, and what the   *)
(* package says of a failed write is WriteKeepsPackage.                      *)

(* A stage begins only while none is open.                                  *)
LEMMA StartStageInv ==
    ASSUME SessionInv, NEW s \in Stages, StartStage(s)
    PROVE  SessionInv'
<1> USE DEF SessionInv
<1> DEFINE e == [code |-> "stage.started", seq |-> 0, stage |-> s]
<1>1. /\ Line(e).code = "stage.started" /\ Line(e).seq = sequence + 1
      /\ Line(e).stage = s
    BY DEF Line
<1>2. SessionTypeOK'
    BY WriteTypes DEF StartStage, SessionTypeOK, stageVars, workVars, factVars, deliveryVars,
        endVars
<1>3. MemoryInv'
    BY DEF StartStage, MemoryInv, SessionTypeOK, stageVars, workVars, factVars, deliveryVars,
        endVars
<1>4. ASSUME Accepted(e) PROVE Faithful'
  <2>1. Faithful /\ log.terminal = None /\ DOMAIN log = LogFields /\ ~Raises(e)
      BY <1>4 DEF StartStage, Open, PackageInv, Accepted, Raises
  <2>2. active' = s /\ entered' = s
      BY <2>1 DEF StartStage
  <2> HIDE DEF e
  <2>3. Ordered(log, Line(e)) /\ Possible(log, Line(e))
      BY <1>1, <2>1 DEF Ordered, Possible, Faithful, FaithfulStages, FaithfulWork, FaithfulFacts,
          FaithfulDelivery, StartStage
  <2>4. Gathered(log, Line(e)) = [log EXCEPT !.active = s, !.last = s]
      BY <1>1, <2>1 DEF Gathered, Faithful, FaithfulStages, FaithfulWork, FaithfulFacts,
          FaithfulDelivery
  <2>5. /\ log'.lines = sequence' /\ log'.ordered /\ log'.possible
        /\ Agree(log', Gathered(log, Line(e)))
      BY <1>1, <1>4, <2>3, AcceptedLine DEF StartStage, Open, Codes, Phased
  <2>6. FaithfulStages'
      BY <2>1, <2>2, <2>4, <2>5 DEF StartStage, Agree, LogFields, stageVars, workVars, factVars,
          deliveryVars, endVars, Faithful, FaithfulStages
  <2>7. FaithfulWork'
      BY <2>1, <2>2, <2>4, <2>5 DEF StartStage, Agree, LogFields, stageVars, workVars, factVars,
          deliveryVars, endVars, Faithful, FaithfulWork, Retries
  <2>8. FaithfulFacts'
      BY <2>1, <2>2, <2>4, <2>5 DEF StartStage, Agree, LogFields, stageVars, workVars, factVars,
          deliveryVars, endVars, Faithful, FaithfulFacts
  <2>9. FaithfulDelivery'
      BY <2>1, <2>2, <2>4, <2>5 DEF StartStage, Agree, LogFields, stageVars, workVars, factVars,
          deliveryVars, endVars, Faithful, FaithfulDelivery
  <2> QED BY <2>5, <2>6, <2>7, <2>8, <2>9 DEF Faithful
<1> QED BY <1>1, <1>2, <1>3, <1>4, WriteKeepsPackage DEF StartStage, Open, Codes, Phased

(* It ends with its operations.                                             *)
LEMMA CloseStageInv ==
    ASSUME SessionInv, NEW how \in StageOutcomes, CloseStage(how)
    PROVE  SessionInv'
<1> USE DEF SessionInv
<1> DEFINE e == [code |-> "stage.completed", seq |-> 0, stage |-> active, outcome |-> how]
<1>1. /\ Line(e).code = "stage.completed" /\ Line(e).seq = sequence + 1
      /\ Line(e).stage = active /\ Line(e).outcome = how
    BY DEF Line
<1>2. SessionTypeOK'
    BY WriteTypes DEF CloseStage, SessionTypeOK, stageVars, workVars, factVars, deliveryVars,
        endVars
<1>3. MemoryInv'
    BY DEF CloseStage, MemoryInv, SessionTypeOK, stageVars, workVars, factVars, deliveryVars,
        endVars, StageQuiet
<1>4. ASSUME Accepted(e) PROVE Faithful'
  <2>1. Faithful /\ log.terminal = None /\ DOMAIN log = LogFields /\ ~Raises(e)
      BY <1>4 DEF CloseStage, Open, PackageInv, Accepted, Raises
  <2>2. active' = None /\ outcomes' = [outcomes EXCEPT ![active] = how]
      BY <2>1 DEF CloseStage
  <2> HIDE DEF e
  <2>3. Ordered(log, Line(e)) /\ Possible(log, Line(e))
      BY <1>1, <2>1 DEF Ordered, Possible, Faithful, FaithfulStages, FaithfulWork, FaithfulFacts,
          FaithfulDelivery, CloseStage, Running, StageQuiet, MemoryInv
  <2>4. Gathered(log, Line(e)) = [log EXCEPT !.active = None, !.stages[active] = how]
      BY <1>1, <2>1 DEF Gathered, Faithful, FaithfulStages, FaithfulWork, FaithfulFacts,
          FaithfulDelivery
  <2>5. /\ log'.lines = sequence' /\ log'.ordered /\ log'.possible
        /\ Agree(log', Gathered(log, Line(e)))
      BY <1>1, <1>4, <2>3, AcceptedLine DEF CloseStage, Open, Codes, Phased
  <2>6. FaithfulStages'
      BY <2>1, <2>2, <2>4, <2>5 DEF CloseStage, Agree, LogFields, stageVars, workVars, factVars,
          deliveryVars, endVars, Faithful, FaithfulStages
  <2>7. FaithfulWork'
      BY <2>1, <2>2, <2>4, <2>5 DEF CloseStage, Agree, LogFields, stageVars, workVars, factVars,
          deliveryVars, endVars, Faithful, FaithfulWork, Retries
  <2>8. FaithfulFacts'
      BY <2>1, <2>2, <2>4, <2>5 DEF CloseStage, Agree, LogFields, stageVars, workVars, factVars,
          deliveryVars, endVars, Faithful, FaithfulFacts
  <2>9. FaithfulDelivery'
      BY <2>1, <2>2, <2>4, <2>5 DEF CloseStage, Agree, LogFields, stageVars, workVars, factVars,
          deliveryVars, endVars, Faithful, FaithfulDelivery
  <2> QED BY <2>5, <2>6, <2>7, <2>8, <2>9 DEF Faithful
<1> QED BY <1>1, <1>2, <1>3, <1>4, WriteKeepsPackage DEF CloseStage, Open, Codes, Phased

(* An operation belongs to the open stage.                                  *)
LEMMA StartOperationInv ==
    ASSUME SessionInv, NEW o \in Ops, NEW kind \in OperationKinds, NEW parent \in Ops \cup {None}, StartOperation(o, kind, parent)
    PROVE  SessionInv'
<1> USE DEF SessionInv
<1> DEFINE e == [code |-> "operation.started", seq |-> 0, stage |-> active, op |-> o,
                 parent |-> parent, kind |-> kind]
<1>1. /\ Line(e).code = "operation.started" /\ Line(e).seq = sequence + 1
      /\ Line(e).stage = active /\ Line(e).op = o /\ Line(e).parent = parent /\ Line(e).kind = kind
    BY DEF Line
<1>2. SessionTypeOK'
    BY WriteTypes DEF StartOperation, SessionTypeOK, stageVars, workVars, factVars, deliveryVars,
        endVars
<1>3. MemoryInv'
    BY DEF StartOperation, MemoryInv, SessionTypeOK, stageVars, workVars, factVars, deliveryVars,
        endVars, Aggregating
<1>4. ASSUME Accepted(e) PROVE Faithful'
  <2>1. Faithful /\ log.terminal = None /\ DOMAIN log = LogFields /\ ~Raises(e)
      BY <1>4 DEF StartOperation, Room, Open, PackageInv, Accepted, Raises
  <2>2. operations' = [operations EXCEPT ![o] =
               [state |-> "active", stage |-> active, parent |-> parent, kind |-> kind, attempts |-> 1]]
      BY <2>1 DEF StartOperation
  <2> HIDE DEF e
  <2>3. Ordered(log, Line(e)) /\ Possible(log, Line(e))
      BY <1>1, <2>1 DEF Ordered, Possible, Faithful, FaithfulStages, FaithfulWork, FaithfulFacts,
          FaithfulDelivery, StartOperation, Working, InStage, SameOperation, Running, Aggregated,
          Aggregating, MemoryInv, SessionTypeOK
  <2>4. Gathered(log, Line(e)) = [log EXCEPT !.ops[o] = [state |-> "active", stage |-> active, parent |-> parent,
                                           kind |-> kind, attempts |-> 1]]
      BY <1>1, <2>1 DEF Gathered, Faithful, FaithfulStages, FaithfulWork, FaithfulFacts,
          FaithfulDelivery
  <2>5. /\ log'.lines = sequence' /\ log'.ordered /\ log'.possible
        /\ Agree(log', Gathered(log, Line(e)))
      BY <1>1, <1>4, <2>3, AcceptedLine DEF StartOperation, Room, Open, Codes, Phased
  <2>6. FaithfulStages'
      BY <2>1, <2>2, <2>4, <2>5 DEF StartOperation, Agree, LogFields, stageVars, workVars,
          factVars, deliveryVars, endVars, Faithful, FaithfulStages
  <2>7. FaithfulWork'
      BY <2>1, <2>2, <2>4, <2>5 DEF StartOperation, Agree, LogFields, stageVars, workVars,
          factVars, deliveryVars, endVars, Faithful, FaithfulWork, Retries
  <2>8. FaithfulFacts'
      BY <2>1, <2>2, <2>4, <2>5 DEF StartOperation, Agree, LogFields, stageVars, workVars,
          factVars, deliveryVars, endVars, Faithful, FaithfulFacts
  <2>9. FaithfulDelivery'
      BY <2>1, <2>2, <2>4, <2>5 DEF StartOperation, Agree, LogFields, stageVars, workVars,
          factVars, deliveryVars, endVars, Faithful, FaithfulDelivery
  <2> QED BY <2>5, <2>6, <2>7, <2>8, <2>9 DEF Faithful
<1> QED BY <1>1, <1>2, <1>3, <1>4, WriteKeepsPackage DEF StartOperation, Room, Open, Codes, Phased

(* An operation ends after its children.                                    *)
LEMMA CompleteOperationInv ==
    ASSUME SessionInv, NEW o \in Ops, CompleteOperation(o)
    PROVE  SessionInv'
<1> USE DEF SessionInv
<1> DEFINE e == [code |-> "operation.completed", seq |-> 0, stage |-> active, op |-> o,
                 parent |-> operations[o].parent, kind |-> operations[o].kind,
                 attempts |-> operations[o].attempts]
<1>1. /\ Line(e).code = "operation.completed" /\ Line(e).seq = sequence + 1
      /\ Line(e).stage = active /\ Line(e).op = o /\ Line(e).parent = operations[o].parent /\ Line(e).kind = operations[o].kind /\ Line(e).attempts = operations[o].attempts
    BY DEF Line
<1>2. SessionTypeOK'
    BY WriteTypes DEF CompleteOperation, SessionTypeOK, stageVars, workVars, factVars,
        deliveryVars, endVars
<1>3. MemoryInv'
    BY DEF CompleteOperation, MemoryInv, SessionTypeOK, stageVars, workVars, factVars,
        deliveryVars, endVars
<1>4. ASSUME Accepted(e) PROVE Faithful'
  <2>1. Faithful /\ log.terminal = None /\ DOMAIN log = LogFields /\ ~Raises(e)
      BY <1>4 DEF CompleteOperation, Room, Open, PackageInv, Accepted, Raises
  <2>2. operations' = [operations EXCEPT ![o].state = "completed"]
      BY <2>1 DEF CompleteOperation
  <2> HIDE DEF e
  <2>3. Ordered(log, Line(e)) /\ Possible(log, Line(e))
      BY <1>1, <2>1 DEF Ordered, Possible, Faithful, FaithfulStages, FaithfulWork, FaithfulFacts,
          FaithfulDelivery, CompleteOperation, Working, InStage, SameOperation, Running,
          Aggregated, Aggregating, MemoryInv, SessionTypeOK
  <2>4. Gathered(log, Line(e)) = [log EXCEPT !.ops[o].state = "completed"]
      BY <1>1, <2>1 DEF Gathered, Faithful, FaithfulStages, FaithfulWork, FaithfulFacts,
          FaithfulDelivery
  <2>5. /\ log'.lines = sequence' /\ log'.ordered /\ log'.possible
        /\ Agree(log', Gathered(log, Line(e)))
      BY <1>1, <1>4, <2>3, AcceptedLine DEF CompleteOperation, Room, Open, Codes, Phased
  <2>6. FaithfulStages'
      BY <2>1, <2>2, <2>4, <2>5 DEF CompleteOperation, Agree, LogFields, stageVars, workVars,
          factVars, deliveryVars, endVars, Faithful, FaithfulStages
  <2>7. FaithfulWork'
      BY <2>1, <2>2, <2>4, <2>5 DEF CompleteOperation, Agree, LogFields, stageVars, workVars,
          factVars, deliveryVars, endVars, Faithful, FaithfulWork, Retries
  <2>8. FaithfulFacts'
      BY <2>1, <2>2, <2>4, <2>5 DEF CompleteOperation, Agree, LogFields, stageVars, workVars,
          factVars, deliveryVars, endVars, Faithful, FaithfulFacts
  <2>9. FaithfulDelivery'
      BY <2>1, <2>2, <2>4, <2>5 DEF CompleteOperation, Agree, LogFields, stageVars, workVars,
          factVars, deliveryVars, endVars, Faithful, FaithfulDelivery
  <2> QED BY <2>5, <2>6, <2>7, <2>8, <2>9 DEF Faithful
<1> QED BY <1>1, <1>2, <1>3, <1>4, WriteKeepsPackage DEF CompleteOperation, Room, Open, Codes,
    Phased

(* A retry is counted as internal if it happens in the transcription.       *)
LEMMA ScheduleRetryInv ==
    ASSUME SessionInv, NEW o \in Ops, NEW kind \in RetryKinds, ScheduleRetry(o, kind)
    PROVE  SessionInv'
<1> USE DEF SessionInv
<1> DEFINE e == [code |-> "retry.scheduled", seq |-> 0, stage |-> active, op |-> o,
                 parent |-> operations[o].parent, retry |-> kind,
                 attempts |-> operations[o].attempts + 1]
<1>1. /\ Line(e).code = "retry.scheduled" /\ Line(e).seq = sequence + 1
      /\ Line(e).stage = active /\ Line(e).op = o /\ Line(e).parent = operations[o].parent /\ Line(e).retry = kind /\ Line(e).attempts = operations[o].attempts + 1
    BY DEF Line
<1>2. SessionTypeOK'
    BY WriteTypes DEF ScheduleRetry, SessionTypeOK, stageVars, workVars, factVars, deliveryVars,
        endVars
<1>3. MemoryInv'
  <2>1. /\ ~transcriptHit \/ active # Transcription
        /\ execution # None => active # Transcription
        /\ UNCHANGED <<active, execution, cacheStats, transcriptHit, notices, phases, proof>>
      BY DEF ScheduleRetry, stageVars, factVars, deliveryVars
  <2>2. CASE UNCHANGED <<operations, retryCounts, internalRetries>>
      BY <2>1, <2>2 DEF MemoryInv
  <2>3. CASE /\ operations' = [operations EXCEPT ![o].attempts = @ + 1]
             /\ retryCounts' = [retryCounts EXCEPT ![kind] = @ + 1]
             /\ internalRetries' = [internalRetries EXCEPT
                    ![kind] = IF active = Transcription THEN @ + 1 ELSE @]
    <3>1. \A k \in RetryKinds : active # Transcription => internalRetries'[k] = internalRetries[k]
        BY <2>3 DEF SessionTypeOK
    <3>2. retryCounts'["transport"] >= retryCounts["transport"]
        BY <2>3 DEF SessionTypeOK, RetryKinds
    <3>3. \A p \in Ops : operations'[p].state = operations[p].state /\ operations'[p].stage = operations[p].stage
        BY <2>3 DEF SessionTypeOK
    <3>4. notices["retried"] \in Nat /\ retryCounts["transport"] \in Nat /\ retryCounts'["transport"] \in Nat
        BY <2>3 DEF SessionTypeOK, NoticeKinds, RetryKinds
    <3>5. notices["retried"] <= retryCounts'["transport"]
        BY <3>2, <3>4 DEF MemoryInv
    <3>6. \A p \in Ops : operations'[p].state = "active" =>
             operations'[p].stage = active' /\ active' # None /\ (active' = Transcription => execution' = None)
        BY <2>1, <3>3 DEF MemoryInv
    <3>7. \A k \in RetryKinds :
             /\ execution' # None => execution'[k] >= internalRetries'[k]
             /\ transcriptHit' => internalRetries'[k] = 0 /\ (execution' # None => execution'[k] = 0)
        BY <2>1, <3>1 DEF MemoryInv
    <3> QED BY <2>1, <3>5, <3>6, <3>7 DEF MemoryInv
  <2> QED BY <2>2, <2>3 DEF ScheduleRetry
<1>4. ASSUME Accepted(e) PROVE Faithful'
  <2>1. Faithful /\ log.terminal = None /\ DOMAIN log = LogFields /\ ~Raises(e)
      BY <1>4 DEF ScheduleRetry, Room, Open, PackageInv, Accepted, Raises
  <2>2. /\ operations' = [operations EXCEPT ![o].attempts = @ + 1]
        /\ retryCounts' = [retryCounts EXCEPT ![kind] = @ + 1]
        /\ internalRetries' = [internalRetries EXCEPT
               ![kind] = IF active = Transcription THEN @ + 1 ELSE @]
      BY <2>1 DEF ScheduleRetry
  <2> HIDE DEF e
  <2>3. Ordered(log, Line(e)) /\ Possible(log, Line(e))
      BY <1>1, <2>1 DEF Ordered, Possible, Faithful, FaithfulStages, FaithfulWork, FaithfulFacts,
          FaithfulDelivery, ScheduleRetry, Working, InStage, SameOperation, Running, Aggregated,
          Aggregating, MemoryInv, SessionTypeOK
  <2>4. Gathered(log, Line(e)) = [log EXCEPT !.ops[o].attempts = operations[o].attempts + 1, !.retries[kind] = @ + 1,
                      !.internal[kind] = IF active = Transcription THEN @ + 1 ELSE @]
      BY <1>1, <2>1 DEF Gathered, Faithful, FaithfulStages, FaithfulWork, FaithfulFacts,
          FaithfulDelivery
  <2>5. /\ log'.lines = sequence' /\ log'.ordered /\ log'.possible
        /\ Agree(log', Gathered(log, Line(e)))
      BY <1>1, <1>4, <2>3, AcceptedLine DEF ScheduleRetry, Room, Open, Codes, Phased
  <2>6. FaithfulStages'
      BY <2>1, <2>2, <2>4, <2>5 DEF ScheduleRetry, Agree, LogFields, stageVars, workVars, factVars,
          deliveryVars, endVars, Faithful, FaithfulStages
  <2>7. FaithfulWork'
    <3>1. log'.ops = operations' /\ log'.internal = internalRetries' /\ log'.execution = execution'
        BY <2>1, <2>2, <2>4, <2>5 DEF ScheduleRetry, Agree, LogFields, Faithful, FaithfulWork
    <3>2. log'.retries = [log.retries EXCEPT ![kind] = @ + 1]
        BY <2>1, <2>4, <2>5 DEF Agree, LogFields
    <3>3. execution # None => internalRetries' = internalRetries
        BY <2>2 DEF ScheduleRetry, SessionTypeOK
    <3>4. \A k \in RetryKinds : Retries(log')[k] = retryCounts'[k]
      <4> SUFFICES ASSUME NEW k \in RetryKinds PROVE Retries(log')[k] = retryCounts'[k]
          OBVIOUS
      <4>1. log.retries[k] \in Nat /\ log'.retries[k] = IF k = kind THEN log.retries[k] + 1 ELSE log.retries[k]
          BY <2>1, <3>2 DEF Faithful, FaithfulWork
      <4>2. retryCounts'[k] = IF k = kind THEN retryCounts[k] + 1 ELSE retryCounts[k]
          BY <2>2 DEF SessionTypeOK
      <4>3. CASE execution = None
          BY <2>1, <3>1, <4>1, <4>2, <4>3 DEF ScheduleRetry, Retries, Faithful, FaithfulWork
      <4>4. CASE execution # None
        <5>1. execution[k] \in Nat /\ internalRetries[k] \in Nat
            BY <4>4 DEF SessionTypeOK
        <5> QED BY <2>1, <3>1, <3>3, <4>1, <4>2, <4>4, <5>1 DEF ScheduleRetry, Retries, Faithful, FaithfulWork
      <4> QED BY <4>3, <4>4
    <3>5. Retries(log') = retryCounts'
        BY <2>2, <3>4 DEF Retries, SessionTypeOK
    <3>6. log'.retries \in [RetryKinds -> Nat]
        BY <2>1, <3>2 DEF Faithful, FaithfulWork
    <3> QED BY <3>1, <3>5, <3>6 DEF FaithfulWork
  <2>8. FaithfulFacts'
      BY <2>1, <2>2, <2>4, <2>5 DEF ScheduleRetry, Agree, LogFields, stageVars, workVars, factVars,
          deliveryVars, endVars, Faithful, FaithfulFacts
  <2>9. FaithfulDelivery'
      BY <2>1, <2>2, <2>4, <2>5 DEF ScheduleRetry, Agree, LogFields, stageVars, workVars, factVars,
          deliveryVars, endVars, Faithful, FaithfulDelivery
  <2> QED BY <2>5, <2>6, <2>7, <2>8, <2>9 DEF Faithful
<1> QED BY <1>1, <1>2, <1>3, <1>4, WriteKeepsPackage DEF ScheduleRetry, Room, Open, Codes, Phased

(* A hit of the whole transcript excludes internal retries.                 *)
LEMMA RecordCacheInv ==
    ASSUME SessionInv, NEW o \in Ops, NEW found \in CacheOutcomes, RecordCache(o, found)
    PROVE  SessionInv'
<1> USE DEF SessionInv
<1> DEFINE e == [code |-> "cache.observed", seq |-> 0, stage |-> active, op |-> o,
                 parent |-> operations[o].parent, outcome |-> found]
<1>1. /\ Line(e).code = "cache.observed" /\ Line(e).seq = sequence + 1
      /\ Line(e).stage = active /\ Line(e).op = o /\ Line(e).parent = operations[o].parent /\ Line(e).outcome = found
    BY DEF Line
<1>2. SessionTypeOK'
  <2>1. cacheStats' \in [CacheOutcomes -> Nat]
      BY DEF RecordCache, SessionTypeOK
  <2>2. transcriptHit' \in BOOLEAN
      BY Zenon DEF RecordCache, SessionTypeOK
  <2> QED BY <2>1, <2>2, WriteTypes DEF RecordCache, SessionTypeOK, stageVars, workVars, deliveryVars, endVars
<1>3. MemoryInv'
  <2>1. UNCHANGED <<operations, active, execution, internalRetries, retryCounts, notices, phases, proof>>
      BY DEF RecordCache, stageVars, workVars, deliveryVars
  <2>2. transcriptHit' => transcriptHit \/ (active = Transcription /\ \A k \in RetryKinds : internalRetries[k] = 0)
      BY DEF RecordCache
  <2>3. active = Transcription => execution = None
      BY DEF RecordCache, Working, InStage, MemoryInv
  <2>4. cacheStats'["corrupt"] >= cacheStats["corrupt"]
      BY DEF RecordCache, SessionTypeOK, CacheOutcomes
  <2>5. notices["recovered"] \in Nat /\ cacheStats["corrupt"] \in Nat /\ cacheStats'["corrupt"] \in Nat
      BY DEF RecordCache, SessionTypeOK, NoticeKinds, CacheOutcomes
  <2>6. notices["recovered"] <= cacheStats'["corrupt"]
      BY <2>4, <2>5 DEF MemoryInv
  <2>7. \A k \in RetryKinds :
           transcriptHit' => internalRetries[k] = 0 /\ (execution # None => execution[k] = 0)
      BY <2>2, <2>3 DEF MemoryInv, RecordCache, Working, InStage
  <2> QED BY <2>1, <2>6, <2>7 DEF MemoryInv
<1>4. ASSUME Accepted(e) PROVE Faithful'
  <2>1. Faithful /\ log.terminal = None /\ DOMAIN log = LogFields /\ ~Raises(e)
      BY <1>4 DEF RecordCache, Room, Open, PackageInv, Accepted, Raises
  <2>2. /\ cacheStats' = [cacheStats EXCEPT ![found] = @ + 1]
        /\ transcriptHit' = (transcriptHit \/ (active = Transcription /\ found = "hit"))
      BY <2>1 DEF RecordCache
  <2> HIDE DEF e
  <2>3. Ordered(log, Line(e)) /\ Possible(log, Line(e))
      BY <1>1, <2>1 DEF Ordered, Possible, Faithful, FaithfulStages, FaithfulWork, FaithfulFacts,
          FaithfulDelivery, RecordCache, Working, InStage, SameOperation, Running, Aggregated,
          Aggregating, MemoryInv, SessionTypeOK
  <2>4. Gathered(log, Line(e)) = [log EXCEPT !.cache[found] = @ + 1,
                      !.hit = @ \/ (active = Transcription /\ found = "hit")]
      BY <1>1, <2>1 DEF Gathered, Faithful, FaithfulStages, FaithfulWork, FaithfulFacts,
          FaithfulDelivery
  <2>5. /\ log'.lines = sequence' /\ log'.ordered /\ log'.possible
        /\ Agree(log', Gathered(log, Line(e)))
      BY <1>1, <1>4, <2>3, AcceptedLine DEF RecordCache, Room, Open, Codes, Phased
  <2>6. FaithfulStages'
      BY <2>1, <2>2, <2>4, <2>5 DEF RecordCache, Agree, LogFields, stageVars, workVars, factVars,
          deliveryVars, endVars, Faithful, FaithfulStages
  <2>7. FaithfulWork'
      BY <2>1, <2>2, <2>4, <2>5 DEF RecordCache, Agree, LogFields, stageVars, workVars, factVars,
          deliveryVars, endVars, Faithful, FaithfulWork, Retries
  <2>8. FaithfulFacts'
      BY <2>1, <2>2, <2>4, <2>5 DEF RecordCache, Agree, LogFields, stageVars, workVars, factVars,
          deliveryVars, endVars, Faithful, FaithfulFacts
  <2>9. FaithfulDelivery'
      BY <2>1, <2>2, <2>4, <2>5 DEF RecordCache, Agree, LogFields, stageVars, workVars, factVars,
          deliveryVars, endVars, Faithful, FaithfulDelivery
  <2> QED BY <2>5, <2>6, <2>7, <2>8, <2>9 DEF Faithful
<1> QED BY <1>1, <1>2, <1>3, <1>4, WriteKeepsPackage DEF RecordCache, Room, Open, Codes, Phased

(* What was not seen as it happened is added to the retries.                *)
LEMMA RecordExecutionInv ==
    ASSUME SessionInv, NEW counts \in Counts, RecordExecution(counts)
    PROVE  SessionInv'
<1> USE DEF SessionInv
<1> DEFINE e == [code |-> "execution.observed", seq |-> 0, stage |-> active, counts |-> counts]
<1>1. /\ Line(e).code = "execution.observed" /\ Line(e).seq = sequence + 1
      /\ Line(e).stage = active /\ Line(e).counts = counts
    BY DEF Line
<1>2. SessionTypeOK'
  <2>1. counts \in [RetryKinds -> Nat] /\ \A k \in RetryKinds : counts[k] - internalRetries[k] \in Nat
      BY DiagnosticsAssumption DEF Counts, RecordExecution, SessionTypeOK
  <2>2. retryCounts' \in [RetryKinds -> Nat] /\ execution' \in [RetryKinds -> Nat] \cup {None}
      BY <2>1 DEF RecordExecution, SessionTypeOK
  <2> QED BY <2>2, WriteTypes DEF RecordExecution, SessionTypeOK, stageVars, factVars, deliveryVars, endVars
<1>3. MemoryInv'
  <2>1. UNCHANGED <<operations, active, internalRetries, cacheStats, transcriptHit, notices, phases, proof>>
      BY DEF RecordExecution, stageVars, factVars, deliveryVars
  <2>2. \A o \in Ops : operations[o].state # "active"
      BY DEF RecordExecution, StageQuiet, MemoryInv
  <2>3. \A k \in RetryKinds :
           /\ counts[k] >= internalRetries[k]
           /\ transcriptHit => counts[k] = 0 /\ internalRetries[k] = 0
      BY DEF RecordExecution
  <2>4. CASE UNCHANGED <<execution, retryCounts>>
      BY <2>1, <2>4 DEF MemoryInv
  <2>5. CASE /\ execution' = counts
             /\ retryCounts' = [k \in RetryKinds |-> retryCounts[k] + (counts[k] - internalRetries[k])]
    <3>1. "transport" \in RetryKinds /\ counts["transport"] \in Nat /\ internalRetries["transport"] \in Nat
          /\ retryCounts["transport"] \in Nat /\ notices["retried"] \in Nat
        BY DiagnosticsAssumption DEF RetryKinds, NoticeKinds, Counts, SessionTypeOK
    <3>2. counts["transport"] >= internalRetries["transport"] /\ retryCounts'["transport"] =
             retryCounts["transport"] + (counts["transport"] - internalRetries["transport"])
        BY <2>3, <2>5, <3>1
    <3>3. notices["retried"] <= retryCounts'["transport"]
        BY <3>1, <3>2 DEF MemoryInv
    <3>4. \A k \in RetryKinds :
             /\ execution'[k] >= internalRetries'[k]
             /\ transcriptHit' => internalRetries'[k] = 0 /\ execution'[k] = 0
        BY <2>1, <2>3, <2>5
    <3> QED BY <2>1, <2>2, <3>3, <3>4 DEF MemoryInv
  <2> QED BY <2>4, <2>5 DEF RecordExecution
<1>4. ASSUME Accepted(e) PROVE Faithful'
  <2>1. Faithful /\ log.terminal = None /\ DOMAIN log = LogFields /\ ~Raises(e)
      BY <1>4 DEF RecordExecution, Room, Open, PackageInv, Accepted, Raises
  <2>2. /\ execution' = counts
        /\ retryCounts' = [k \in RetryKinds |-> retryCounts[k] + (counts[k] - internalRetries[k])]
      BY <2>1 DEF RecordExecution
  <2> HIDE DEF e
  <2>3. Ordered(log, Line(e)) /\ Possible(log, Line(e))
      BY <1>1, <2>1 DEF Ordered, Possible, Faithful, FaithfulStages, FaithfulWork, FaithfulFacts,
          FaithfulDelivery, RecordExecution, Working, InStage, SameOperation, Running, Aggregated,
          Aggregating, MemoryInv, SessionTypeOK, StageQuiet
  <2>4. Gathered(log, Line(e)) = [log EXCEPT !.execution = counts]
      BY <1>1, <2>1 DEF Gathered, Faithful, FaithfulStages, FaithfulWork, FaithfulFacts,
          FaithfulDelivery
  <2>5. /\ log'.lines = sequence' /\ log'.ordered /\ log'.possible
        /\ Agree(log', Gathered(log, Line(e)))
      BY <1>1, <1>4, <2>3, AcceptedLine DEF RecordExecution, Room, Open, Codes, Phased
  <2>6. FaithfulStages'
      BY <2>1, <2>2, <2>4, <2>5 DEF RecordExecution, Agree, LogFields, stageVars, workVars,
          factVars, deliveryVars, endVars, Faithful, FaithfulStages
  <2>7. FaithfulWork'
    <3>1. log'.ops = operations' /\ log'.internal = internalRetries' /\ log'.execution = counts
          /\ log'.retries = log.retries
        BY <2>1, <2>2, <2>4, <2>5 DEF RecordExecution, Agree, LogFields, Faithful, FaithfulWork
    <3>2. retryCounts = log.retries
      <4>1. retryCounts = [k \in RetryKinds |-> log.retries[k]]
          BY <2>1 DEF RecordExecution, Retries, Faithful, FaithfulWork
      <4> QED BY <2>1, <4>1 DEF Faithful, FaithfulWork
    <3>3. counts # None
        BY NoneAssumption, DiagnosticsAssumption DEF Counts
    <3>4. Retries(log') = retryCounts'
        BY <2>1, <2>2, <3>1, <3>2, <3>3 DEF Retries, RecordExecution, Faithful, FaithfulWork
    <3> QED BY <2>1, <2>2, <3>1, <3>4 DEF FaithfulWork, Faithful
  <2>8. FaithfulFacts'
      BY <2>1, <2>2, <2>4, <2>5 DEF RecordExecution, Agree, LogFields, stageVars, workVars,
          factVars, deliveryVars, endVars, Faithful, FaithfulFacts
  <2>9. FaithfulDelivery'
      BY <2>1, <2>2, <2>4, <2>5 DEF RecordExecution, Agree, LogFields, stageVars, workVars,
          factVars, deliveryVars, endVars, Faithful, FaithfulDelivery
  <2> QED BY <2>5, <2>6, <2>7, <2>8, <2>9 DEF Faithful
<1> QED BY <1>1, <1>2, <1>3, <1>4, WriteKeepsPackage DEF RecordExecution, Room, Open, Codes, Phased

(* There are no more notices than facts they are about.                     *)
LEMMA RecordNoticeInv ==
    ASSUME SessionInv, NEW notice \in NoticeKinds, RecordNotice(notice)
    PROVE  SessionInv'
<1> USE DEF SessionInv
<1> DEFINE e == [code |-> "notice.recorded", seq |-> 0, stage |-> active, notice |-> notice]
<1>1. /\ Line(e).code = "notice.recorded" /\ Line(e).seq = sequence + 1
      /\ Line(e).stage = active /\ Line(e).notice = notice
    BY DEF Line
<1>2. SessionTypeOK'
    BY WriteTypes DEF RecordNotice, SessionTypeOK, stageVars, workVars, factVars, deliveryVars,
        endVars
<1>3. MemoryInv'
  <2>1. UNCHANGED <<operations, active, execution, internalRetries, retryCounts, cacheStats, transcriptHit,
                    phases, proof>>
      BY DEF RecordNotice, stageVars, workVars, deliveryVars
  <2>2. /\ notices["retried"] \in Nat /\ retryCounts["transport"] \in Nat
        /\ notices["recovered"] \in Nat /\ cacheStats["corrupt"] \in Nat
      BY DEF SessionTypeOK, NoticeKinds, RetryKinds, CacheOutcomes
  <2>3. notices'["retried"] <= retryCounts["transport"] /\ notices'["recovered"] <= cacheStats["corrupt"]
    <3>1. CASE UNCHANGED notices
        BY <3>1 DEF MemoryInv
    <3>2. CASE notices' = [notices EXCEPT ![notice] = @ + 1]
        BY <2>2, <3>2 DEF MemoryInv, RecordNotice, NoticeKinds, SessionTypeOK
    <3> QED BY <3>1, <3>2 DEF RecordNotice
  <2> QED BY <2>1, <2>3 DEF MemoryInv
<1>4. ASSUME Accepted(e) PROVE Faithful'
  <2>1. Faithful /\ log.terminal = None /\ DOMAIN log = LogFields /\ ~Raises(e)
      BY <1>4 DEF RecordNotice, Room, Open, PackageInv, Accepted, Raises
  <2>2. notices' = [notices EXCEPT ![notice] = @ + 1]
      BY <2>1 DEF RecordNotice
  <2> HIDE DEF e
  <2>3. Ordered(log, Line(e)) /\ Possible(log, Line(e))
      BY <1>1, <2>1 DEF Ordered, Possible, Faithful, FaithfulStages, FaithfulWork, FaithfulFacts,
          FaithfulDelivery, RecordNotice
  <2>4. Gathered(log, Line(e)) = [log EXCEPT !.notices[notice] = @ + 1]
      BY <1>1, <2>1 DEF Gathered, Faithful, FaithfulStages, FaithfulWork, FaithfulFacts,
          FaithfulDelivery
  <2>5. /\ log'.lines = sequence' /\ log'.ordered /\ log'.possible
        /\ Agree(log', Gathered(log, Line(e)))
      BY <1>1, <1>4, <2>3, AcceptedLine DEF RecordNotice, Room, Open, Codes, Phased
  <2>6. FaithfulStages'
      BY <2>1, <2>2, <2>4, <2>5 DEF RecordNotice, Agree, LogFields, stageVars, workVars, factVars,
          deliveryVars, endVars, Faithful, FaithfulStages
  <2>7. FaithfulWork'
      BY <2>1, <2>2, <2>4, <2>5 DEF RecordNotice, Agree, LogFields, stageVars, workVars, factVars,
          deliveryVars, endVars, Faithful, FaithfulWork, Retries
  <2>8. FaithfulFacts'
      BY <2>1, <2>2, <2>4, <2>5 DEF RecordNotice, Agree, LogFields, stageVars, workVars, factVars,
          deliveryVars, endVars, Faithful, FaithfulFacts
  <2>9. FaithfulDelivery'
      BY <2>1, <2>2, <2>4, <2>5 DEF RecordNotice, Agree, LogFields, stageVars, workVars, factVars,
          deliveryVars, endVars, Faithful, FaithfulDelivery
  <2> QED BY <2>5, <2>6, <2>7, <2>8, <2>9 DEF Faithful
<1> QED BY <1>1, <1>2, <1>3, <1>4, WriteKeepsPackage DEF RecordNotice, Room, Open, Codes, Phased

(* An interruption is taken even after the commit.                          *)
LEMMA RecordInterruptionInv ==
    ASSUME SessionInv, RecordInterruption
    PROVE  SessionInv'
<1> USE DEF SessionInv
<1> DEFINE e == [code |-> "interruption.requested", seq |-> 0, stage |-> active]
<1>1. /\ Line(e).code = "interruption.requested" /\ Line(e).seq = sequence + 1
      /\ Line(e).stage = active
    BY DEF Line
<1>2. SessionTypeOK'
    BY WriteTypes DEF RecordInterruption, SessionTypeOK, stageVars, workVars, factVars,
        deliveryVars, endVars
<1>3. MemoryInv'
    BY DEF RecordInterruption, MemoryInv, SessionTypeOK, stageVars, workVars, factVars,
        deliveryVars, endVars
<1>4. ASSUME Accepted(e) PROVE Faithful'
  <2>1. Faithful /\ log.terminal = None /\ DOMAIN log = LogFields /\ ~Raises(e)
      BY <1>4 DEF RecordInterruption, Room, Open, PackageInv, Accepted, Raises
  <2>2. interruption' = TRUE
      BY <2>1 DEF RecordInterruption
  <2> HIDE DEF e
  <2>3. Ordered(log, Line(e)) /\ Possible(log, Line(e))
      BY <1>1, <2>1 DEF Ordered, Possible, Faithful, FaithfulStages, FaithfulWork, FaithfulFacts,
          FaithfulDelivery, RecordInterruption
  <2>4. Gathered(log, Line(e)) = [log EXCEPT !.interrupted = TRUE]
      BY <1>1, <2>1 DEF Gathered, Faithful, FaithfulStages, FaithfulWork, FaithfulFacts,
          FaithfulDelivery
  <2>5. /\ log'.lines = sequence' /\ log'.ordered /\ log'.possible
        /\ Agree(log', Gathered(log, Line(e)))
      BY <1>1, <1>4, <2>3, AcceptedLine DEF RecordInterruption, Room, Open, Codes, Phased
  <2>6. FaithfulStages'
      BY <2>1, <2>2, <2>4, <2>5 DEF RecordInterruption, Agree, LogFields, stageVars, workVars,
          factVars, deliveryVars, endVars, Faithful, FaithfulStages
  <2>7. FaithfulWork'
      BY <2>1, <2>2, <2>4, <2>5 DEF RecordInterruption, Agree, LogFields, stageVars, workVars,
          factVars, deliveryVars, endVars, Faithful, FaithfulWork, Retries
  <2>8. FaithfulFacts'
      BY <2>1, <2>2, <2>4, <2>5 DEF RecordInterruption, Agree, LogFields, stageVars, workVars,
          factVars, deliveryVars, endVars, Faithful, FaithfulFacts
  <2>9. FaithfulDelivery'
      BY <2>1, <2>2, <2>4, <2>5 DEF RecordInterruption, Agree, LogFields, stageVars, workVars,
          factVars, deliveryVars, endVars, Faithful, FaithfulDelivery
  <2> QED BY <2>5, <2>6, <2>7, <2>8, <2>9 DEF Faithful
<1> QED BY <1>1, <1>2, <1>3, <1>4, WriteKeepsPackage DEF RecordInterruption, Room, Open, Codes,
    Phased

(* A provider is selected once, or found unused.                            *)
LEMMA RecordServiceInv ==
    ASSUME SessionInv, NEW next \in {"selected", "unused"}, RecordService(next)
    PROVE  SessionInv'
<1> USE DEF SessionInv
<1> DEFINE e == [code |-> IF next = "selected" THEN "service.selected" ELSE "service.unused",
                 seq |-> 0, stage |-> active]
<1>1. /\ Line(e).code \in {"service.selected", "service.unused"} /\ Line(e).seq = sequence + 1
      /\ Line(e).code = "service.selected" <=> next = "selected"
      /\ Line(e).stage = active
  <2>1. Line(e).code = e.code /\ Line(e).stage = active /\ Line(e).seq = sequence + 1
      BY DEF Line
  <2>2. e.code = IF next = "selected" THEN "service.selected" ELSE "service.unused"
      OBVIOUS
  <2> QED BY <2>1, <2>2
<1>2. SessionTypeOK'
    BY WriteTypes DEF RecordService, SessionTypeOK, stageVars, workVars, factVars, deliveryVars,
        endVars
<1>3. MemoryInv'
    BY DEF RecordService, MemoryInv, SessionTypeOK, stageVars, workVars, factVars, deliveryVars,
        endVars
<1>4. ASSUME Accepted(e) PROVE Faithful'
  <2>1. Faithful /\ log.terminal = None /\ DOMAIN log = LogFields /\ ~Raises(e)
      BY <1>4 DEF RecordService, Room, Open, PackageInv, Accepted, Raises
  <2>2. service' = next
      BY <2>1 DEF RecordService
  <2> HIDE DEF e
  <2>3. Ordered(log, Line(e)) /\ Possible(log, Line(e))
      BY <1>1, <2>1 DEF Ordered, Possible, Faithful, FaithfulStages, FaithfulWork, FaithfulFacts,
          FaithfulDelivery, RecordService
  <2>4. Gathered(log, Line(e)) = IF next = "selected" THEN [log EXCEPT !.selected = TRUE]
                                ELSE [log EXCEPT !.unused = TRUE]
      BY <1>1, <2>1 DEF Gathered, Faithful, FaithfulStages, FaithfulWork, FaithfulFacts,
          FaithfulDelivery
  <2>5. /\ log'.lines = sequence' /\ log'.ordered /\ log'.possible
        /\ Agree(log', Gathered(log, Line(e)))
      BY <1>1, <1>4, <2>3, AcceptedLine DEF RecordService, Room, Open, Codes, Phased
  <2>6. FaithfulStages'
      BY <2>1, <2>2, <2>4, <2>5 DEF RecordService, Agree, LogFields, stageVars, workVars, factVars,
          deliveryVars, endVars, Faithful, FaithfulStages
  <2>7. FaithfulWork'
      BY <2>1, <2>2, <2>4, <2>5 DEF RecordService, Agree, LogFields, stageVars, workVars, factVars,
          deliveryVars, endVars, Faithful, FaithfulWork, Retries
  <2>8. FaithfulFacts'
      BY <2>1, <2>2, <2>4, <2>5 DEF RecordService, Agree, LogFields, stageVars, workVars, factVars,
          deliveryVars, endVars, Faithful, FaithfulFacts
  <2>9. FaithfulDelivery'
      BY <2>1, <2>2, <2>4, <2>5 DEF RecordService, Agree, LogFields, stageVars, workVars, factVars,
          deliveryVars, endVars, Faithful, FaithfulDelivery
  <2> QED BY <2>5, <2>6, <2>7, <2>8, <2>9 DEF Faithful
<1> QED BY <1>1, <1>2, <1>3, <1>4, WriteKeepsPackage DEF RecordService, Room, Open, Codes, Phased

(* A request that ends makes its provider contacted.                        *)
LEMMA RecordRequestInv ==
    ASSUME SessionInv, NEW o \in Ops, RecordRequest(o)
    PROVE  SessionInv'
<1> USE DEF SessionInv
<1> DEFINE e == [code |-> "request.completed", seq |-> 0, stage |-> active, op |-> o,
                 parent |-> operations[o].parent]
<1>1. /\ Line(e).code = "request.completed" /\ Line(e).seq = sequence + 1
      /\ Line(e).stage = active /\ Line(e).op = o /\ Line(e).parent = operations[o].parent
    BY DEF Line
<1>2. SessionTypeOK'
    BY WriteTypes DEF RecordRequest, SessionTypeOK, stageVars, workVars, factVars, deliveryVars,
        endVars
<1>3. MemoryInv'
    BY DEF RecordRequest, MemoryInv, SessionTypeOK, stageVars, workVars, factVars, deliveryVars,
        endVars
<1>4. ASSUME Accepted(e) PROVE Faithful'
  <2>1. Faithful /\ log.terminal = None /\ DOMAIN log = LogFields /\ ~Raises(e)
      BY <1>4 DEF RecordRequest, Room, Open, PackageInv, Accepted, Raises
  <2>2. service' = "contacted"
      BY <2>1 DEF RecordRequest
  <2> HIDE DEF e
  <2>3. Ordered(log, Line(e)) /\ Possible(log, Line(e))
      BY <1>1, <2>1 DEF Ordered, Possible, Faithful, FaithfulStages, FaithfulWork, FaithfulFacts,
          FaithfulDelivery, RecordRequest, Working, InStage, SameOperation, Running, Aggregated,
          Aggregating, MemoryInv, SessionTypeOK
  <2>4. Gathered(log, Line(e)) = [log EXCEPT !.contacted = TRUE]
      BY <1>1, <2>1 DEF Gathered, Faithful, FaithfulStages, FaithfulWork, FaithfulFacts,
          FaithfulDelivery
  <2>5. /\ log'.lines = sequence' /\ log'.ordered /\ log'.possible
        /\ Agree(log', Gathered(log, Line(e)))
      BY <1>1, <1>4, <2>3, AcceptedLine DEF RecordRequest, Room, Open, Codes, Phased
  <2>6. FaithfulStages'
      BY <2>1, <2>2, <2>4, <2>5 DEF RecordRequest, Agree, LogFields, stageVars, workVars, factVars,
          deliveryVars, endVars, Faithful, FaithfulStages
  <2>7. FaithfulWork'
      BY <2>1, <2>2, <2>4, <2>5 DEF RecordRequest, Agree, LogFields, stageVars, workVars, factVars,
          deliveryVars, endVars, Faithful, FaithfulWork, Retries
  <2>8. FaithfulFacts'
      BY <2>1, <2>2, <2>4, <2>5 DEF RecordRequest, Agree, LogFields, stageVars, workVars, factVars,
          deliveryVars, endVars, Faithful, FaithfulFacts
  <2>9. FaithfulDelivery'
      BY <2>1, <2>2, <2>4, <2>5 DEF RecordRequest, Agree, LogFields, stageVars, workVars, factVars,
          deliveryVars, endVars, Faithful, FaithfulDelivery
  <2> QED BY <2>5, <2>6, <2>7, <2>8, <2>9 DEF Faithful
<1> QED BY <1>1, <1>2, <1>3, <1>4, WriteKeepsPackage DEF RecordRequest, Room, Open, Codes, Phased

(* An error is told by the position of its line.                            *)
LEMMA RecordFailureInv ==
    ASSUME SessionInv, RecordFailure
    PROVE  SessionInv'
<1> USE DEF SessionInv
<1> DEFINE e == [code |-> "error.recorded", seq |-> 0, stage |-> active]
<1>1. /\ Line(e).code = "error.recorded" /\ Line(e).seq = sequence + 1
      /\ Line(e).stage = active
    BY DEF Line
<1>2. SessionTypeOK'
    BY WriteTypes DEF RecordFailure, SessionTypeOK, stageVars, workVars, factVars, deliveryVars,
        endVars, Errors
<1>3. MemoryInv'
    BY DEF RecordFailure, MemoryInv, SessionTypeOK, stageVars, workVars, factVars, deliveryVars,
        endVars
<1>4. ASSUME Accepted(e) PROVE Faithful'
  <2>1. Faithful /\ log.terminal = None /\ DOMAIN log = LogFields /\ ~Raises(e)
      BY <1>4 DEF RecordFailure, Room, Open, PackageInv, Accepted, Raises
  <2>2. errors' = errors \cup {[seq |-> sequence + 1, stage |-> active]}
      BY <2>1 DEF RecordFailure
  <2> HIDE DEF e
  <2>3. Ordered(log, Line(e)) /\ Possible(log, Line(e))
      BY <1>1, <2>1 DEF Ordered, Possible, Faithful, FaithfulStages, FaithfulWork, FaithfulFacts,
          FaithfulDelivery, RecordFailure
  <2>4. Gathered(log, Line(e)) = [log EXCEPT !.errors = @ \cup {[seq |-> sequence + 1, stage |-> active]}]
      BY <1>1, <2>1 DEF Gathered, Faithful, FaithfulStages, FaithfulWork, FaithfulFacts,
          FaithfulDelivery
  <2>5. /\ log'.lines = sequence' /\ log'.ordered /\ log'.possible
        /\ Agree(log', Gathered(log, Line(e)))
      BY <1>1, <1>4, <2>3, AcceptedLine DEF RecordFailure, Room, Open, Codes, Phased
  <2>6. FaithfulStages'
      BY <2>1, <2>2, <2>4, <2>5 DEF RecordFailure, Agree, LogFields, stageVars, workVars, factVars,
          deliveryVars, endVars, Faithful, FaithfulStages
  <2>7. FaithfulWork'
      BY <2>1, <2>2, <2>4, <2>5 DEF RecordFailure, Agree, LogFields, stageVars, workVars, factVars,
          deliveryVars, endVars, Faithful, FaithfulWork, Retries
  <2>8. FaithfulFacts'
      BY <2>1, <2>2, <2>4, <2>5 DEF RecordFailure, Agree, LogFields, stageVars, workVars, factVars,
          deliveryVars, endVars, Faithful, FaithfulFacts
  <2>9. FaithfulDelivery'
      BY <2>1, <2>2, <2>4, <2>5 DEF RecordFailure, Agree, LogFields, stageVars, workVars, factVars,
          deliveryVars, endVars, Faithful, FaithfulDelivery
  <2> QED BY <2>5, <2>6, <2>7, <2>8, <2>9 DEF Faithful
<1> QED BY <1>1, <1>2, <1>3, <1>4, WriteKeepsPackage DEF RecordFailure, Room, Open, Codes, Phased

(* The three phases of a delivery, up to the commit that is the proof.      *)
LEMMA RecordDeliveryInv ==
    ASSUME SessionInv, NEW phase \in {"build", "verification", "publication"}, NEW state, RecordDelivery(phase, state)
    PROVE  SessionInv'
<1> USE DEF SessionInv
<1> DEFINE e == [code |-> "delivery.changed", seq |-> 0, stage |-> active, phase |-> phase, state |-> state]
<1>1. /\ Line(e).code = "delivery.changed" /\ Line(e).seq = sequence + 1
      /\ Line(e).stage = active /\ Line(e).phase = phase /\ Line(e).state = state
    BY DEF Line
<1>2. SessionTypeOK'
  <2>1. DOMAIN phases = {"build", "verification", "publication"}
      BY DEF SessionTypeOK, FinalStates
  <2>2. /\ DOMAIN phases' = DOMAIN phases
        /\ \A p \in DOMAIN phases : phases'[p] = IF p = phase THEN state ELSE phases[p]
      BY <2>1 DEF RecordDelivery
  <2>3. state \in {"in_progress"} \cup FinalStates[phase]
      BY DEF RecordDelivery, Advances
  <2>4. \A p \in DOMAIN FinalStates : phases'[p] \in {"not_started", "in_progress"} \cup FinalStates[p]
      BY <2>2, <2>3 DEF SessionTypeOK
  <2>5. proof' \in BOOLEAN
      BY Zenon DEF RecordDelivery
  <2> QED BY <2>2, <2>4, <2>5, WriteTypes DEF RecordDelivery, SessionTypeOK, stageVars, workVars, factVars, endVars
<1>3. MemoryInv'
  <2>1. phases'.publication = "committed" => proof'
    <3>1. DOMAIN phases = {"build", "verification", "publication"}
        BY DEF SessionTypeOK, FinalStates
    <3>2. phases'.publication = IF phase = "publication" THEN state ELSE phases.publication
        BY <3>1 DEF RecordDelivery
    <3>3. proof' <=> state = "committed"
        BY DEF RecordDelivery
    <3> QED BY <3>2, <3>3 DEF RecordDelivery, MemoryInv
  <2> QED BY <2>1 DEF RecordDelivery, MemoryInv, stageVars, workVars, factVars
<1>4. ASSUME Accepted(e) PROVE Faithful'
  <2>1. Faithful /\ log.terminal = None /\ DOMAIN log = LogFields /\ ~Raises(e)
      BY <1>4 DEF RecordDelivery, Open, PackageInv, Accepted, Raises
  <2>2. DOMAIN phases = {"build", "verification", "publication"}
        /\ phases' = [phases EXCEPT ![phase] = state]
      BY <2>1 DEF RecordDelivery, SessionTypeOK, FinalStates
  <2> HIDE DEF e
  <2>3. Ordered(log, Line(e)) /\ Possible(log, Line(e))
      BY <1>1, <2>1 DEF Ordered, Possible, Faithful, FaithfulStages, FaithfulWork, FaithfulFacts,
          FaithfulDelivery, RecordDelivery, Advances, Follows, FinalStates
  <2>4. Gathered(log, Line(e)) = [log EXCEPT ![phase] = state]
      BY <1>1, <2>1 DEF Gathered, Faithful, FaithfulStages, FaithfulWork, FaithfulFacts,
          FaithfulDelivery
  <2>5. /\ log'.lines = sequence' /\ log'.ordered /\ log'.possible
        /\ Agree(log', Gathered(log, Line(e)))
      BY <1>1, <1>4, <2>3, AcceptedLine DEF RecordDelivery, Open, Codes, Phased, FinalStates
  <2>6. FaithfulStages'
      BY <2>1, <2>2, <2>4, <2>5 DEF RecordDelivery, Agree, LogFields, stageVars, workVars,
          factVars, deliveryVars, endVars, Faithful, FaithfulStages
  <2>7. FaithfulWork'
      BY <2>1, <2>2, <2>4, <2>5 DEF RecordDelivery, Agree, LogFields, stageVars, workVars,
          factVars, deliveryVars, endVars, Faithful, FaithfulWork, Retries
  <2>8. FaithfulFacts'
      BY <2>1, <2>2, <2>4, <2>5 DEF RecordDelivery, Agree, LogFields, stageVars, workVars,
          factVars, deliveryVars, endVars, Faithful, FaithfulFacts
  <2>9. FaithfulDelivery'
      BY <2>1, <2>2, <2>4, <2>5 DEF RecordDelivery, Agree, LogFields, stageVars, workVars,
          factVars, deliveryVars, endVars, Faithful, FaithfulDelivery
  <2> QED BY <2>5, <2>6, <2>7, <2>8, <2>9 DEF Faithful
<1> QED BY <1>1, <1>2, <1>3, <1>4, WriteKeepsPackage DEF RecordDelivery, Open, Codes, Phased

(* An artifact is created while the delivery is built.                      *)
LEMMA CreateArtifactInv ==
    ASSUME SessionInv, NEW p \in Paths, CreateArtifact(p)
    PROVE  SessionInv'
<1> USE DEF SessionInv
<1> DEFINE e == [code |-> "artifact.created", seq |-> 0, stage |-> active, path |-> p]
<1>1. /\ Line(e).code = "artifact.created" /\ Line(e).seq = sequence + 1
      /\ Line(e).stage = active /\ Line(e).path = p
    BY DEF Line
<1>2. SessionTypeOK'
    BY WriteTypes DEF CreateArtifact, SessionTypeOK, stageVars, workVars, factVars, deliveryVars,
        endVars
<1>3. MemoryInv'
    BY DEF CreateArtifact, MemoryInv, SessionTypeOK, stageVars, workVars, factVars, deliveryVars,
        endVars
<1>4. ASSUME Accepted(e) PROVE Faithful'
  <2>1. Faithful /\ log.terminal = None /\ DOMAIN log = LogFields /\ ~Raises(e)
      BY <1>4 DEF CreateArtifact, Open, PackageInv, Accepted, Raises
  <2>2. created' = created \cup {p}
      BY <2>1 DEF CreateArtifact
  <2> HIDE DEF e
  <2>3. Ordered(log, Line(e)) /\ Possible(log, Line(e))
      BY <1>1, <2>1 DEF Ordered, Possible, Faithful, FaithfulStages, FaithfulWork, FaithfulFacts,
          FaithfulDelivery, CreateArtifact
  <2>4. Gathered(log, Line(e)) = [log EXCEPT !.created = @ \cup {p}]
      BY <1>1, <2>1 DEF Gathered, Faithful, FaithfulStages, FaithfulWork, FaithfulFacts,
          FaithfulDelivery
  <2>5. /\ log'.lines = sequence' /\ log'.ordered /\ log'.possible
        /\ Agree(log', Gathered(log, Line(e)))
      BY <1>1, <1>4, <2>3, AcceptedLine DEF CreateArtifact, Open, Codes, Phased
  <2>6. FaithfulStages'
      BY <2>1, <2>2, <2>4, <2>5 DEF CreateArtifact, Agree, LogFields, stageVars, workVars,
          factVars, deliveryVars, endVars, Faithful, FaithfulStages
  <2>7. FaithfulWork'
      BY <2>1, <2>2, <2>4, <2>5 DEF CreateArtifact, Agree, LogFields, stageVars, workVars,
          factVars, deliveryVars, endVars, Faithful, FaithfulWork, Retries
  <2>8. FaithfulFacts'
      BY <2>1, <2>2, <2>4, <2>5 DEF CreateArtifact, Agree, LogFields, stageVars, workVars,
          factVars, deliveryVars, endVars, Faithful, FaithfulFacts
  <2>9. FaithfulDelivery'
      BY <2>1, <2>2, <2>4, <2>5 DEF CreateArtifact, Agree, LogFields, stageVars, workVars,
          factVars, deliveryVars, endVars, Faithful, FaithfulDelivery
  <2> QED BY <2>5, <2>6, <2>7, <2>8, <2>9 DEF Faithful
<1> QED BY <1>1, <1>2, <1>3, <1>4, WriteKeepsPackage DEF CreateArtifact, Open, Codes, Phased

(* And verified once, after it was created.                                 *)
LEMMA VerifyArtifactInv ==
    ASSUME SessionInv, NEW p \in Paths, VerifyArtifact(p)
    PROVE  SessionInv'
<1> USE DEF SessionInv
<1> DEFINE e == [code |-> "artifact.verified", seq |-> 0, stage |-> active, path |-> p]
<1>1. /\ Line(e).code = "artifact.verified" /\ Line(e).seq = sequence + 1
      /\ Line(e).stage = active /\ Line(e).path = p
    BY DEF Line
<1>2. SessionTypeOK'
    BY WriteTypes DEF VerifyArtifact, SessionTypeOK, stageVars, workVars, factVars, deliveryVars,
        endVars
<1>3. MemoryInv'
    BY DEF VerifyArtifact, MemoryInv, SessionTypeOK, stageVars, workVars, factVars, deliveryVars,
        endVars
<1>4. ASSUME Accepted(e) PROVE Faithful'
  <2>1. Faithful /\ log.terminal = None /\ DOMAIN log = LogFields /\ ~Raises(e)
      BY <1>4 DEF VerifyArtifact, Open, PackageInv, Accepted, Raises
  <2>2. verified' = verified \cup {p}
      BY <2>1 DEF VerifyArtifact
  <2> HIDE DEF e
  <2>3. Ordered(log, Line(e)) /\ Possible(log, Line(e))
      BY <1>1, <2>1 DEF Ordered, Possible, Faithful, FaithfulStages, FaithfulWork, FaithfulFacts,
          FaithfulDelivery, VerifyArtifact
  <2>4. Gathered(log, Line(e)) = [log EXCEPT !.verified = @ \cup {p}]
      BY <1>1, <2>1 DEF Gathered, Faithful, FaithfulStages, FaithfulWork, FaithfulFacts,
          FaithfulDelivery
  <2>5. /\ log'.lines = sequence' /\ log'.ordered /\ log'.possible
        /\ Agree(log', Gathered(log, Line(e)))
      BY <1>1, <1>4, <2>3, AcceptedLine DEF VerifyArtifact, Open, Codes, Phased
  <2>6. FaithfulStages'
      BY <2>1, <2>2, <2>4, <2>5 DEF VerifyArtifact, Agree, LogFields, stageVars, workVars,
          factVars, deliveryVars, endVars, Faithful, FaithfulStages
  <2>7. FaithfulWork'
      BY <2>1, <2>2, <2>4, <2>5 DEF VerifyArtifact, Agree, LogFields, stageVars, workVars,
          factVars, deliveryVars, endVars, Faithful, FaithfulWork, Retries
  <2>8. FaithfulFacts'
      BY <2>1, <2>2, <2>4, <2>5 DEF VerifyArtifact, Agree, LogFields, stageVars, workVars,
          factVars, deliveryVars, endVars, Faithful, FaithfulFacts
  <2>9. FaithfulDelivery'
      BY <2>1, <2>2, <2>4, <2>5 DEF VerifyArtifact, Agree, LogFields, stageVars, workVars,
          factVars, deliveryVars, endVars, Faithful, FaithfulDelivery
  <2> QED BY <2>5, <2>6, <2>7, <2>8, <2>9 DEF Faithful
<1> QED BY <1>1, <1>2, <1>3, <1>4, WriteKeepsPackage DEF VerifyArtifact, Open, Codes, Phased

-----------------------------------------------------------------------------
(* The end of the run                                                       *)

(* What a completion may name.                                              *)
LEMMA CompletionNames ==
    ASSUME SessionTypeOK, NEW c \in Completions
    PROVE  /\ c \in CompletionType /\ c.associated \subseteq errors
           /\ c.outcome \in {"failed", "interrupted", "succeeded"}
           /\ c.outcome = "failed" => c.primary \in errors /\ c.primary # None
           /\ c.outcome # "failed" => c.primary = None
           /\ c.outcome = "succeeded" => c.associated = {}
           /\ TerminalStage(c) \in Stages \cup {None}
<1>1. errors \subseteq Errors /\ entered \in Stages \cup {None}
    BY DEF SessionTypeOK
<1>2. c.primary # None => c.primary \in errors
    BY DEF Completions
<1>3. TerminalStage(c) \in Stages \cup {None}
    BY <1>1, <1>2 DEF TerminalStage, Errors
<1>4. c \in CompletionType /\ c.associated \subseteq errors /\ c.outcome \in {"failed", "interrupted", "succeeded"}
    BY <1>1 DEF Completions, CompletionType, RunOutcomes, StageOutcomes
<1> QED BY <1>1, <1>3, <1>4, NoneAssumption DEF Completions

(* The last line, written or not, fits all before it.                       *)
LEMMA FinishRunInv ==
    ASSUME SessionInv, NEW c \in Completions, FinishRun(c)
    PROVE  SessionInv'
<1> USE DEF SessionInv
<1> DEFINE e == [code |-> "run.completed", seq |-> 0, stage |-> TerminalStage(c), outcome |-> c.outcome]
<1>1. /\ Line(e).code = "run.completed" /\ Line(e).seq = sequence + 1
      /\ Line(e).stage = TerminalStage(c) /\ Line(e).outcome = c.outcome
      /\ Line(e) \in Terminals
  <2>1. Line(e) = [code |-> "run.completed", seq |-> sequence + 1, stage |-> TerminalStage(c),
                   outcome |-> c.outcome]
      BY DEF Line
  <2> QED BY <2>1, CompletionNames DEF Terminals, SessionTypeOK, CompletionType
<1>2. /\ ~finished /\ active = None /\ ValidOutcome(c) /\ finished'
      /\ proof' <=> proof \/ c.outcome = "succeeded"
      /\ UNCHANGED <<stageVars, workVars, factVars, deliveryVars, errors, runJson>>
    BY DEF FinishRun
<1>3. /\ log.terminal = None /\ formed = None /\ runJson = None /\ result = "none"
      /\ ~incomplete => ~torn /\ Faithful
      /\ DOMAIN log = LogFields /\ log.readable
    BY <1>2 DEF PackageInv
<1>4. phases.publication = "committed" => c.outcome = "succeeded" /\ proof
    BY <1>2, CompletionNames DEF ValidOutcome, MemoryInv
<1>5. MemoryInv'
    BY <1>2 DEF MemoryInv, stageVars, workVars, factVars, deliveryVars
<1>6. incomplete \/ (Ordered(log, Line(e)) /\ Possible(log, Line(e)))
  <2> HIDE DEF e
  <2>1. ~incomplete => Running(log) = {} /\ log.active = None /\ log.last = entered
      BY <1>2, <1>3 DEF MemoryInv, Running, Faithful, FaithfulStages, FaithfulWork
  <2>2. c.outcome # "failed" => TerminalStage(c) = entered
      BY CompletionNames DEF TerminalStage
  <2> QED BY <1>1, <1>3, <2>1, <2>2 DEF Ordered, Possible
<1> DEFINE read == Read(log, Line(e), torn)
<1>7. ~incomplete =>
         /\ DOMAIN read = LogFields /\ read.readable /\ read.ordered /\ read.possible
         /\ read.lines = sequence + 1 /\ read.terminal = Line(e)
         /\ \A f \in LogFields \ {"lines", "readable", "ordered", "possible", "terminal"} : read[f] = log[f]
  <2> HIDE DEF e
  <2> SUFFICES ASSUME ~incomplete
               PROVE  /\ DOMAIN read = LogFields /\ read.readable /\ read.ordered /\ read.possible
                      /\ read.lines = sequence + 1 /\ read.terminal = Line(e)
                      /\ \A f \in LogFields \ {"lines", "readable", "ordered", "possible", "terminal"} :
                            read[f] = log[f]
      OBVIOUS
  <2>1. Gathered(log, Line(e)) = [log EXCEPT !.terminal = Line(e)]
      BY <1>1 DEF Gathered
  <2>2. Line(e).code \in Codes /\ Phased(Line(e))
      BY <1>1 DEF Codes, Phased
  <2>3. Agree(read, Gathered(log, Line(e)))
      BY <1>3, <2>2, ReadFields
  <2>4. DOMAIN read = LogFields /\ read.readable /\ read.ordered /\ read.possible /\ read.lines = sequence + 1
      BY <1>1, <1>3, <1>6, <2>2, ReadFields DEF Faithful
  <2>5. read.terminal = Line(e)
      BY <1>3, <2>1, <2>3 DEF Agree, LogFields
  <2>6. \A f \in LogFields \ {"lines", "readable", "ordered", "possible", "terminal"} : read[f] = log[f]
      BY <1>3, <2>1, <2>3 DEF Agree, LogFields
  <2> QED BY <2>4, <2>5, <2>6
<1>8. CASE /\ ~incomplete
           /\ log' = read /\ sequence' = sequence + 1
           /\ formed' = c
           /\ UNCHANGED <<incomplete, torn, result>>
  <2> HIDE DEF e
  <2>1. Faithful'
    <3>1. log'.lines = sequence' /\ log'.ordered /\ log'.possible
        BY <1>7, <1>8
    <3>2. FaithfulStages'
        BY <1>2, <1>3, <1>7, <1>8 DEF Faithful, FaithfulStages, LogFields, stageVars
    <3>3. FaithfulWork'
        BY <1>2, <1>3, <1>7, <1>8 DEF Faithful, FaithfulWork, LogFields, workVars, Retries
    <3>4. FaithfulFacts'
        BY <1>2, <1>3, <1>7, <1>8 DEF Faithful, FaithfulFacts, LogFields, factVars
    <3>5. FaithfulDelivery'
        BY <1>2, <1>3, <1>7, <1>8 DEF Faithful, FaithfulDelivery, LogFields, deliveryVars
    <3> QED BY <3>1, <3>2, <3>3, <3>4, <3>5 DEF Faithful
  <2>2. FormedInv'
    <3>1. formed' \in Completions' /\ ValidOutcome(formed)'
        BY <1>2, <1>8 DEF Completions, ValidOutcome, DeliveryStates, factVars, deliveryVars
    <3>2. TerminalStage(formed)' = TerminalStage(c)
        BY <1>2, <1>8 DEF TerminalStage, stageVars
    <3> QED BY <1>1, <1>2, <1>3, <1>7, <1>8, <2>1, <3>1, <3>2 DEF FormedInv
  <2>3. PackageInv'
      BY <1>1, <1>2, <1>3, <1>4, <1>7, <1>8 DEF PackageInv, deliveryVars
  <2>4. proof' \in BOOLEAN
      BY Zenon DEF FinishRun
  <2>5. sequence' \in Nat \ {0} /\ formed' \in CompletionType
      BY <1>8, CompletionNames DEF SessionTypeOK
  <2>6. SessionTypeOK'
      BY <1>2, <1>8, <2>4, <2>5 DEF SessionTypeOK, stageVars, workVars, factVars, deliveryVars
  <2> QED BY <1>5, <2>2, <2>3, <2>6
<1>9. CASE /\ ~incomplete /\ Residue(e)
           /\ incomplete' = proof'
           /\ result' = IF proof' THEN "incomplete" ELSE "raised"
           /\ UNCHANGED <<sequence, formed>>
  <2>1. log' = log \/ log' = read
      BY <1>9 DEF Residue
  <2>2. torn' \in BOOLEAN
      BY <1>9 DEF Residue, SessionTypeOK
  <2> HIDE DEF e
  <2>3. DOMAIN log' = LogFields /\ log'.readable
      BY <1>3, <1>7, <1>9, <2>1
  <2>4. log'.terminal # None => log'.ordered /\ log'.terminal.outcome = c.outcome
      BY <1>1, <1>3, <1>7, <1>9, <2>1
  <2>5. PackageInv'
      BY <1>2, <1>3, <1>4, <1>9, <2>3, <2>4 DEF PackageInv, deliveryVars
  <2>6. FormedInv'
      BY <1>3, <1>9 DEF FormedInv
  <2>7. proof' \in BOOLEAN
      BY Zenon DEF FinishRun
  <2>8. SessionTypeOK'
      BY <1>2, <1>9, <2>2, <2>7 DEF SessionTypeOK, stageVars, workVars, factVars, deliveryVars
  <2> QED BY <1>5, <2>5, <2>6, <2>8
<1>10. CASE /\ incomplete
            /\ result' = "incomplete"
            /\ UNCHANGED <<sequence, log, torn, incomplete, formed>>
  <2>1. PackageInv' /\ FormedInv'
      BY <1>2, <1>3, <1>10 DEF PackageInv, FormedInv
  <2>2. proof' \in BOOLEAN
      BY Zenon DEF FinishRun
  <2>3. SessionTypeOK'
      BY <1>2, <1>10, <2>2 DEF SessionTypeOK, stageVars, workVars, factVars, deliveryVars
  <2> QED BY <1>5, <2>1, <2>3
<1> QED BY <1>8, <1>9, <1>10 DEF FinishRun

(* What the session sums up is what the reader computes from the lines.     *)
LEMMA ManifestMatches ==
    ASSUME SessionInv, formed # None, ~Unaccounted
    PROVE  Matches(log, Manifest(formed)) /\ Manifest(formed) # None
<1> USE DEF SessionInv
<1>1. /\ Faithful /\ formed \in Completions /\ ValidOutcome(formed)
      /\ log.terminal.outcome = formed.outcome /\ log.terminal.stage = TerminalStage(formed)
    BY DEF FormedInv
<1> DEFINE m == Manifest(formed)
<1>2. /\ m.outcome = formed.outcome /\ m.eventCount = sequence
      /\ m.primary = formed.primary /\ m.associated = formed.associated
      /\ m.stages = outcomes /\ m.retries = retryCounts /\ m.cache = cacheStats /\ m.notices = notices
      /\ m.operations = Cardinality({o \in Ops : operations[o].state = "completed"})
      /\ m.service = <<service # "none", service = "contacted">>
      /\ m.delivery = IF formed.outcome = "succeeded" THEN <<"completed", "passed", "committed">>
                      ELSE DeliveryStates
      /\ m.artifacts = <<Cardinality(created), Cardinality(verified)>>
    BY DEF Manifest
<1>3. m \in Manifests
  <2>1. formed \in CompletionType
      BY <1>1, CompletionNames
  <2>2. \A phase \in {"build", "verification", "publication"} : phases[phase] \in DeliveryStateType
      BY DEF SessionTypeOK, DeliveryStateType, FinalStates
  <2>3. {"completed", "passed", "committed"} \subseteq DeliveryStateType
      BY DEF DeliveryStateType, FinalStates
  <2>4. m.delivery \in DeliveryStateType \X DeliveryStateType \X DeliveryStateType
      BY <1>2, <2>2, <2>3 DEF DeliveryStates
  <2>5. m.operations \in {Cardinality(S) : S \in SUBSET Ops}
      BY <1>2
  <2>6. m.artifacts \in {Cardinality(S) : S \in SUBSET Paths} \X {Cardinality(S) : S \in SUBSET Paths}
    <3>1. created \in SUBSET Paths /\ verified \in SUBSET Paths
        BY DEF SessionTypeOK
    <3> QED BY <1>2, <3>1
  <2>7. m.service \in BOOLEAN \X BOOLEAN
    <3>1. (service # "none") \in BOOLEAN /\ (service = "contacted") \in BOOLEAN
        BY Zenon
    <3>2. \A a, b \in BOOLEAN : <<a, b>> \in BOOLEAN \X BOOLEAN
        OBVIOUS
    <3> QED BY <1>2, <3>1, <3>2, Zenon
  <2>8. m = [outcome |-> m.outcome, eventCount |-> m.eventCount, primary |-> m.primary,
             associated |-> m.associated, stages |-> m.stages, operations |-> m.operations,
             retries |-> m.retries, cache |-> m.cache, notices |-> m.notices, service |-> m.service,
             delivery |-> m.delivery, artifacts |-> m.artifacts]
      BY DEF Manifest
  <2>9. /\ m.outcome \in RunOutcomes /\ m.eventCount \in Nat /\ m.primary \in Errors \cup {None}
        /\ m.associated \in SUBSET Errors /\ m.stages \in [Stages -> StageOutcomes \cup {"not_started"}]
        /\ m.retries \in [RetryKinds -> Nat] /\ m.cache \in [CacheOutcomes -> Nat]
        /\ m.notices \in [NoticeKinds -> Nat]
      BY <1>2, <2>1 DEF SessionTypeOK, CompletionType
  <2> HIDE DEF m
  <2> QED BY <2>4, <2>5, <2>6, <2>7, <2>8, <2>9 DEF Manifests
<1> HIDE DEF m
<1>4. Consistent(log)
  <2>1. \A k \in RetryKinds :
           /\ log.hit => log.internal[k] = 0 /\ (log.execution # None => log.execution[k] = 0)
           /\ log.execution # None => log.execution[k] >= log.internal[k]
      BY <1>1 DEF MemoryInv, Faithful, FaithfulWork, FaithfulFacts
  <2>2. log.notices["retried"] <= Retries(log)["transport"] /\ log.notices["recovered"] <= log.cache["corrupt"]
      BY <1>1 DEF MemoryInv, Faithful, FaithfulWork, FaithfulFacts
  <2>3. log.selected <=> log.unused \/ log.contacted
      BY <1>1 DEF Faithful, FaithfulFacts, Unaccounted, SessionTypeOK
  <2> QED BY <2>1, <2>2, <2>3 DEF Consistent
<1>5. DeliveryFits(log, m.outcome)
    BY <1>1, <1>2, CompletionNames DEF DeliveryFits, Faithful, FaithfulDelivery, ValidOutcome, DeliveryStates, Phases
<1>6. ErrorsFit(log, m)
    BY <1>1, <1>2, CompletionNames DEF ErrorsFit, Faithful, FaithfulFacts, ValidOutcome, TerminalStage
<1>7. m.operations = Completed(log)
    BY <1>1, <1>2 DEF Completed, Faithful, FaithfulWork
<1>8. m.service = <<log.selected, log.contacted>>
    BY <1>1, <1>2, Zenon DEF Faithful, FaithfulFacts
<1>9. m.delivery = Delivery(m.outcome, log.build, log.verification, log.publication)
    BY <1>1, <1>2 DEF Delivery, Phases, DeliveryStates, Faithful, FaithfulDelivery
<1>10. Matches(log, m)
    BY <1>1, <1>2, <1>4, <1>5, <1>6, <1>7, <1>8, <1>9
       DEF Matches, Faithful, FaithfulStages, FaithfulWork, FaithfulFacts, FaithfulDelivery
<1> QED BY <1>3, <1>10, NoneAssumption DEF m

(* run.json, whole or not at all.                                           *)
LEMMA PublishManifestInv ==
    ASSUME SessionInv, PublishManifest
    PROVE  SessionInv'
<1> USE DEF SessionInv
<1>1. /\ formed # None /\ formed' = None
      /\ UNCHANGED <<stageVars, workVars, factVars, deliveryVars, errors, proof, writeVars>>
    BY DEF PublishManifest
<1>2. /\ finished /\ ~torn /\ log.terminal # None /\ runJson = None /\ result = "none"
      /\ ValidOutcome(formed) /\ formed \in Completions
    BY <1>1, NoneAssumption DEF FormedInv
<1>3. phases.publication = "committed" => formed.outcome = "succeeded"
    BY <1>2, CompletionNames DEF ValidOutcome
<1>4. MemoryInv' /\ FormedInv'
    BY <1>1 DEF MemoryInv, FormedInv, stageVars, workVars, factVars, deliveryVars
<1>5. /\ result' \in {"persisted", "incomplete", "raised"}
      /\ result' = "persisted" => runJson' # None
      /\ runJson' # None => Matches(log, runJson')
      /\ result' = "raised" /\ phases.publication = "committed" => Unaccounted
    BY <1>1, <1>2, <1>3, ManifestMatches DEF PublishManifest
<1>6. SessionTypeOK'
    BY <1>1, <1>5 DEF SessionTypeOK, stageVars, workVars, factVars, deliveryVars, writeVars
<1>7. PackageInv'
    BY <1>1, <1>2, <1>5 DEF PackageInv, Unaccounted, factVars, deliveryVars, writeVars
<1> QED BY <1>4, <1>6, <1>7

(* A snapshot that fails writes nothing.                                    *)
LEMMA SnapshotFailsInv ==
    ASSUME SessionInv, SnapshotFails
    PROVE  SessionInv'
<1> USE DEF SessionInv
<1>1. ~finished /\ finished' /\ finished' \in BOOLEAN
      /\ UNCHANGED <<stageVars, workVars, factVars, deliveryVars, errors, proof, endVars, sequence,
                     incomplete, log, torn>>
    BY DEF SnapshotFails, Open
<1>2. MemoryInv' /\ SessionTypeOK'
    BY <1>1 DEF MemoryInv, SessionTypeOK, stageVars, workVars, factVars, deliveryVars, endVars
<1> QED BY <1>1, <1>2 DEF PackageInv, FormedInv, endVars, deliveryVars

-----------------------------------------------------------------------------
(* The session: its invariant holds, and what follows from it               *)

(* A session that has just begun.                                           *)
LEMMA SessionInitInv == SessionInit => SessionInv
<1> SUFFICES ASSUME SessionInit PROVE SessionInv
    OBVIOUS
<1>1. SessionTypeOK
  <2>1. operations \in [Ops -> [state : {"unknown", "active", "completed"}, stage : Stages \cup {None},
                               parent : Ops \cup {None}, kind : OperationKinds \cup {None},
                               attempts : Nat]]
      BY DEF SessionInit, NoOperation
  <2>2. /\ DOMAIN phases = DOMAIN FinalStates
        /\ \A phase \in DOMAIN FinalStates : phases[phase] = "not_started"
      BY DEF SessionInit, FinalStates
  <2>3. /\ transcriptHit \in BOOLEAN /\ interruption \in BOOLEAN /\ proof \in BOOLEAN
        /\ incomplete \in BOOLEAN /\ finished \in BOOLEAN /\ torn \in BOOLEAN
      BY DEF SessionInit
  <2>4. /\ outcomes \in [Stages -> StageOutcomes \cup {"not_started"}]
        /\ retryCounts \in [RetryKinds -> Nat] /\ internalRetries \in [RetryKinds -> Nat]
        /\ cacheStats \in [CacheOutcomes -> Nat] /\ notices \in [NoticeKinds -> Nat]
      BY DEF SessionInit
  <2> QED BY <2>1, <2>2, <2>3, <2>4 DEF SessionInit, SessionTypeOK
<1>2. MemoryInv
    BY DEF SessionInit, MemoryInv, NoOperation, NoticeKinds, RetryKinds, CacheOutcomes
<1>3. /\ DOMAIN log = LogFields /\ log.readable /\ log.terminal = None
      /\ log.lines = 1 /\ log.ordered /\ log.possible
    BY DEF SessionInit, Initialized, LogFields
<1>4. FaithfulStages /\ FaithfulFacts /\ FaithfulDelivery
    BY DEF SessionInit, Initialized, FaithfulStages, FaithfulFacts, FaithfulDelivery
<1>5. FaithfulWork
    BY DEF SessionInit, Initialized, FaithfulWork, Retries, NoOperation
<1>6. PackageInv /\ FormedInv
    BY <1>3, <1>4, <1>5 DEF SessionInit, PackageInv, FormedInv, Faithful
<1> QED BY <1>1, <1>2, <1>6 DEF SessionInv

(* No call, failure or end breaks the invariant.                            *)
LEMMA SessionNextInv == SessionInv /\ [SessionNext]_sessionVars => SessionInv'
<1> SUFFICES ASSUME SessionInv, [SessionNext]_sessionVars PROVE SessionInv'
    OBVIOUS
<1>1. CASE UNCHANGED sessionVars
  <2>1. SessionTypeOK' /\ MemoryInv'
      BY <1>1 DEF SessionInv, SessionTypeOK, MemoryInv, sessionVars, stageVars, workVars, factVars, deliveryVars,
          endVars, writeVars
  <2>2. Faithful' <=> Faithful
      BY <1>1 DEF Faithful, FaithfulStages, FaithfulWork, FaithfulFacts, FaithfulDelivery, sessionVars,
          stageVars, workVars, factVars, deliveryVars, endVars, writeVars
  <2>3. (formed \in Completions /\ ValidOutcome(formed))' <=> formed \in Completions /\ ValidOutcome(formed)
      BY <1>1 DEF Completions, ValidOutcome, DeliveryStates, sessionVars, factVars, deliveryVars, endVars
  <2>4. PackageInv' /\ FormedInv'
      BY <1>1, <2>2, <2>3 DEF SessionInv, PackageInv, FormedInv, Unaccounted, TerminalStage, sessionVars,
          stageVars, factVars, deliveryVars, endVars, writeVars
  <2> QED BY <2>1, <2>4 DEF SessionInv
<1>2. CASE SessionNext
  <2>1. DOMAIN phases = {"build", "verification", "publication"}
      BY DEF SessionInv, SessionTypeOK, FinalStates
  <2> QED BY <1>2, <2>1, StartStageInv, CloseStageInv, StartOperationInv, CompleteOperationInv,
          ScheduleRetryInv, RecordCacheInv, RecordExecutionInv, RecordNoticeInv, RecordInterruptionInv,
          RecordServiceInv, RecordRequestInv, RecordFailureInv, RecordDeliveryInv, CreateArtifactInv,
          VerifyArtifactInv, FinishRunInv, PublishManifestInv, SnapshotFailsInv
       DEF SessionNext
<1> QED BY <1>1, <1>2

(* The memory of the session keeps its types (diagnostics/_session.py).     *)
THEOREM SessionTypeCorrect == SessionSpec => []SessionTypeOK
<1>1. SessionInv => SessionTypeOK
    BY DEF SessionInv
<1> QED BY <1>1, SessionInitInv, SessionNextInv, PTL DEF SessionSpec

(* Whatever the callers do, in whatever order, whichever write fails and    *)
(* wherever the process dies, what is on disk is accepted as complete or as *)
(* incomplete, never refused as contradictory.                              *)
THEOREM SessionNeverCorrupt == SessionSpec => []NeverCorrupt
<1>1. SessionInv => NeverCorrupt
    BY DEF SessionInv, PackageInv, NeverCorrupt, Verdict
<1> QED BY <1>1, SessionInitInv, SessionNextInv, PTL DEF SessionSpec

(* finish() answers persisted only for a package the reader finds complete. *)
THEOREM SessionPersistedIsComplete == SessionSpec => []PersistedIsComplete
<1>1. SessionInv => PersistedIsComplete
    BY DEF SessionInv, PackageInv, PersistedIsComplete, Verdict
<1> QED BY <1>1, SessionInitInv, SessionNextInv, PTL DEF SessionSpec

(* No line and no run.json denies a committed delivery, and finish() raises *)
(* after a commit only over a provider left unaccounted for.                *)
THEOREM SessionCommitNeverDenied == SessionSpec => []CommitNeverDenied
<1>1. SessionInv => CommitNeverDenied
    BY DEF SessionInv, PackageInv, CommitNeverDenied, Matches
<1> QED BY <1>1, SessionInitInv, SessionNextInv, PTL DEF SessionSpec

-----------------------------------------------------------------------------
(* The workspace: its inductive invariant                                   *)

Before == {"idle", "ended", "create", "open", "existing"}
Creating == {"rename", "sync", "flock", "unmake", "move", "restore"}
Filling == {"fill", "unfill"}
Owning == WorkingSteps \cup Filling \cup {"check"}

\* Every identity in use was born; the program's directories and the others differ.
BirthInv ==
    /\ ours \cap theirs = {} /\ foreign \subseteq theirs
    /\ aside \cup (({name} \cup {dir[p] : p \in Procs} \cup {taken[p] : p \in Procs}) \ {Nil})
           \subseteq ours \cup theirs
    /\ \A r \in Unborn : layout[r] = 0 /\ r \notin stray \cup secured

\* Who holds a creation journal made the directory it opened, alone.
JournalInv ==
    /\ \A p \in made : dir[p] \in ours /\ step[p] \in Creating \cup Filling \cup {"check", "rmdir"}
    /\ \A p, q \in made : dir[p] = dir[q] => p = q
    /\ \A p \in Procs :
        /\ step[p] \notin Before => dir[p] \in Roots
        /\ step[p] \in Creating => p \in made
        /\ step[p] = "rmdir" => taken[p] \in ours
        /\ step[p] = "restore" => taken[p] \in Roots

\* The lock of a directory belongs to the one process that may change it.
LockInv ==
    /\ \A p \in Procs : step[p] \in Owning => holder[dir[p]] = p
    /\ NobodyStuck
    /\ \A p \in Procs : step[p] = "rmdir" /\ p \notin made => \A r \in Roots : holder[r] # p

\* Only an empty directory is filled, and one adopted has got its mode.
FillInv ==
    /\ \A p \in Procs : step[p] \in Filling => dir[p] \notin foreign
    /\ \A p \in Procs \ made : step[p] = "fill" => dir[p] \in secured

RunInv ==
    /\ RunsAlone
    /\ \A p \in Procs : step[p] = "prepare" => tmp[dir[p]] = {}

\* A directory whose creator has still to finish or to undo it.
InWork(r) ==
    \E p \in Procs :
        \/ p \in made /\ dir[p] = r /\ step[p] # "rmdir"
        \/ step[p] = "rmdir" /\ taken[p] = r

\* As long as every failure was undone, whatever is not as it should be has a
\* process that will see to it.
AsideTraced ==
    \A r \in aside : \E p \in Procs :
        \/ p \in made /\ step[p] = "rename" /\ dir[p] = r
        \/ step[p] \in {"rmdir", "restore"} /\ taken[p] = r

TmpTraced ==
    \A r \in Roots : \A x \in tmp[r] :
        x \in Procs /\ step[x] \in {"running", "sweep"} /\ dir[x] = r

TheirsTraced ==
    /\ \A r \in theirs :
        \/ AcceptedLayout(r)
        \/ layout[r] = 0 /\ r \notin secured
        \/ \E p \in restores : dir[p] = r /\ step[p] \in Filling
    /\ \A p \in Procs : step[p] \in Filling /\ dir[p] \in theirs => p \in restores

\* An adopted directory that is not whole yet still has its creator.
OursTraced ==
    /\ \A r \in ours : AcceptedLayout(r) \/ r \in gone \/ InWork(r)
    /\ \A p \in Procs : step[p] \in Filling /\ dir[p] \in ours => dir[p] \in gone \/ InWork(dir[p])

\* Between its last check and its removal nothing displaces a directory.
PlaceTraced == stray = {} /\ \A p \in Procs : step[p] = "move" => name = dir[p]

TraceInv ==
    ~dirty =>
        /\ PlaceTraced /\ AsideTraced /\ TmpTraced /\ TheirsTraced /\ OursTraced

LayoutInv ==
    /\ LayoutTypeOK /\ BirthInv /\ JournalInv /\ LockInv /\ FillInv /\ OthersUntouched /\ RunInv /\ TraceInv

-----------------------------------------------------------------------------
(* A directory is born once, and the constants are what they are.           *)
LEMMA FreshUnborn ==
    ASSUME Unborn # {}
    PROVE  Fresh \in Roots /\ Fresh \notin ours \cup theirs
BY DEF Fresh, Unborn

(* What a call that ends or succeeds leaves of its process has its types.    *)
LEMMA EndTypes ==
    ASSUME LayoutTypeOK, NEW p \in Procs, End(p) \/ Opened(p)
    PROVE  /\ step' \in [Procs -> LayoutSteps]
           /\ holder' \in [Roots -> Procs \cup {Nil}]
           /\ dir' \in [Procs -> Roots \cup {Nil}] /\ taken' \in [Procs -> Roots \cup {Nil}]
           /\ made' \subseteq Procs /\ restores' \subseteq Procs
BY DEF LayoutTypeOK, LayoutSteps, End, Opened, To, Release

(* Every step keeps the types.                                              *)
LEMMA NextLayoutTypeOK == LayoutAssumption /\ LayoutInv /\ [LayoutNext]_layoutVars => LayoutTypeOK'
<1> SUFFICES ASSUME LayoutAssumption, LayoutTypeOK, JournalInv, [LayoutNext]_layoutVars PROVE LayoutTypeOK'
    BY DEF LayoutInv
<1> USE DEF LayoutAssumption, LayoutTypeOK, LayoutSteps
<1> USE DEF To, Proceed, Take, Release, End, Opened, path, content, local, budget
<1>1. CASE UNCHANGED layoutVars
    BY <1>1 DEF layoutVars
<1>2. CASE Replace
    BY <1>2, FreshUnborn DEF Replace
<1>3. ASSUME NEW p \in Procs, Start(p) PROVE LayoutTypeOK'
    BY <1>3 DEF Start
<1>4. ASSUME NEW p \in Procs, Kill(p) PROVE LayoutTypeOK'
  <2>1. dirty' \in BOOLEAN
    BY <1>4 DEF Kill
  <2>2. stray' \subseteq Roots
    BY <1>4 DEF Kill, JournalInv, Before
  <2>3. tmp' \in [Roots -> SUBSET (Procs \cup {Reserved})]
    BY <1>4 DEF Kill
  <2>4. End(p)
    BY <1>4 DEF Kill
  <2> QED BY <1>4, <2>1, <2>2, <2>3, <2>4, EndTypes DEF Kill
<1>5. ASSUME NEW p \in Procs, OpenPath(p) PROVE LayoutTypeOK'
    BY <1>5 DEF OpenPath
<1>6. ASSUME NEW p \in Procs, OpenExisting(p) PROVE LayoutTypeOK'
    BY <1>6 DEF OpenExisting
<1>7. ASSUME NEW p \in Procs, Create(p) PROVE LayoutTypeOK'
    BY <1>7, FreshUnborn DEF Create
<1>8. ASSUME NEW p \in Procs, Rename(p) PROVE LayoutTypeOK'
    BY <1>8 DEF Rename
<1>9. ASSUME NEW p \in Procs, Sync(p) PROVE LayoutTypeOK'
    BY <1>9 DEF Sync
<1>10. ASSUME NEW p \in Procs, Flock(p) PROVE LayoutTypeOK'
    BY <1>10 DEF Flock
<1>11. ASSUME NEW p \in Procs, Adopt(p) PROVE LayoutTypeOK'
  <2>1. dir[p] \in Roots
    BY <1>11 DEF Adopt, JournalInv, Before
  <2>2. secured' \subseteq Roots /\ restores' \subseteq Procs
    BY <1>11, <2>1 DEF Adopt
  <2> QED BY <1>11, <2>2 DEF Adopt
<1>12. ASSUME NEW p \in Procs, Check(p) PROVE LayoutTypeOK'
    BY <1>12 DEF Check, AcceptedLayout
<1>13. ASSUME NEW p \in Procs, Fill(p) PROVE LayoutTypeOK'
  <2>1. dir[p] \in Roots
    BY <1>13 DEF Fill, JournalInv, Before
  <2>2. layout' \in [Roots -> 0..Size]
    BY <1>13, <2>1 DEF Fill
  <2> QED BY <1>13, <2>2 DEF Fill
<1>14. ASSUME NEW p \in Procs, FillEnds(p) PROVE LayoutTypeOK'
    BY <1>14 DEF FillEnds
<1>15. ASSUME NEW p \in Procs, Unfill(p) PROVE LayoutTypeOK'
  <2>1. dir[p] \in Roots
    BY <1>15 DEF Unfill, JournalInv, Before
  <2>2. layout' \in [Roots -> 0..Size]
    BY <1>15, <2>1 DEF Unfill
  <2> QED BY <1>15, <2>2 DEF Unfill
<1>16. ASSUME NEW p \in Procs, UnfillEnds(p) PROVE LayoutTypeOK'
  <2>1. dirty' \in BOOLEAN
    BY <1>16 DEF UnfillEnds
  <2>2. stray' \subseteq Roots /\ secured' \subseteq Roots
    BY <1>16 DEF UnfillEnds, RestoreMode, JournalInv, Before
  <2>3. CASE p \in made
    BY <1>16, <2>1, <2>2, <2>3 DEF UnfillEnds
  <2>4. CASE p \notin made
    BY <1>16, <2>1, <2>2, <2>4, EndTypes DEF UnfillEnds
  <2> QED BY <2>3, <2>4
<1>17. ASSUME NEW p \in Procs, Unmake(p) PROVE LayoutTypeOK'
  <2>1. dirty' \in BOOLEAN
    BY <1>17 DEF Unmake
  <2> QED BY <1>17, <2>1 DEF Unmake
<1>18. ASSUME NEW p \in Procs, Move(p) PROVE LayoutTypeOK'
  <2>1. dirty' \in BOOLEAN
    BY <1>18 DEF Move
  <2> QED BY <1>18, <2>1 DEF Move, AfterMove
<1>19. ASSUME NEW p \in Procs, MoveBack(p) PROVE LayoutTypeOK'
    BY <1>19 DEF MoveBack
<1>20. ASSUME NEW p \in Procs, Rmdir(p) PROVE LayoutTypeOK'
  <2>1. dirty' \in BOOLEAN
    BY <1>20 DEF Rmdir
  <2>2. gone' \subseteq Roots /\ aside' \subseteq Roots
    BY <1>20 DEF Rmdir, JournalInv
  <2>3. CASE End(p)
    BY <1>20, <2>1, <2>2, <2>3, EndTypes DEF Rmdir
  <2>4. CASE Proceed(p, "open")
    BY <1>20, <2>1, <2>2, <2>4 DEF Rmdir
  <2> QED BY <1>20, <2>3, <2>4 DEF Rmdir
<1>21. ASSUME NEW p \in Procs, Inspect(p) PROVE LayoutTypeOK'
    BY <1>21 DEF Inspect
<1>22. ASSUME NEW p \in Procs, Share(p) PROVE LayoutTypeOK'
    BY <1>22 DEF Share
<1>23. ASSUME NEW p \in Procs, Acquire(p) PROVE LayoutTypeOK'
    BY <1>23 DEF Acquire, Acquirable
<1>24. ASSUME NEW p \in Procs, RemoveStale(p) PROVE LayoutTypeOK'
  <2>1. dirty' \in BOOLEAN
    BY <1>24 DEF RemoveStale
  <2> QED BY <1>24, <2>1 DEF RemoveStale
<1>25. ASSUME NEW p \in Procs, Cleaned(p) PROVE LayoutTypeOK'
    BY <1>25 DEF Cleaned
<1>26. ASSUME NEW p \in Procs, Prepare(p) PROVE LayoutTypeOK'
  <2>1. dirty' \in BOOLEAN
    BY <1>26 DEF Prepare
  <2> QED BY <1>26, <2>1 DEF Prepare
<1>27. ASSUME NEW p \in Procs, PrepareDiagnosis(p) PROVE LayoutTypeOK'
    BY <1>27 DEF PrepareDiagnosis
<1>28. ASSUME NEW p \in Procs, FinishWork(p) PROVE LayoutTypeOK'
    BY <1>28 DEF FinishWork
<1>29. ASSUME NEW p \in Procs, Sweep(p) PROVE LayoutTypeOK'
  <2>1. dirty' \in BOOLEAN
    BY <1>29 DEF Sweep
  <2> QED BY <1>29, <2>1 DEF Sweep
<1> QED BY <1>1, <1>2, <1>3, <1>4, <1>5, <1>6, <1>7, <1>8, <1>9, <1>10, <1>11, <1>12, <1>13, <1>14,
    <1>15, <1>16, <1>17, <1>18, <1>19, <1>20, <1>21, <1>22, <1>23, <1>24, <1>25, <1>26, <1>27,
    <1>28, <1>29 DEF LayoutNext, ProcessStep

(* No identity is used before its directory is born.                        *)
LEMMA NextBirthInv == LayoutAssumption /\ LayoutInv /\ [LayoutNext]_layoutVars => BirthInv'
<1> SUFFICES ASSUME LayoutAssumption, LayoutTypeOK, BirthInv, OthersUntouched, JournalInv, [LayoutNext]_layoutVars PROVE BirthInv'
    BY DEF LayoutInv
<1> USE DEF LayoutAssumption, LayoutTypeOK, BirthInv, Unborn
<1> USE DEF To, Proceed, Take, Release, End, Opened, path, content, local, budget
<1>1. CASE UNCHANGED layoutVars
    BY <1>1 DEF layoutVars
<1>2. CASE Replace
    BY <1>2, FreshUnborn DEF Replace
<1>3. ASSUME NEW p \in Procs, Start(p) PROVE BirthInv'
    BY <1>3 DEF Start
<1>4. ASSUME NEW p \in Procs, Kill(p) PROVE BirthInv'
    BY <1>4 DEF Kill
<1>5. ASSUME NEW p \in Procs, OpenPath(p) PROVE BirthInv'
    BY <1>5 DEF OpenPath
<1>6. ASSUME NEW p \in Procs, OpenExisting(p) PROVE BirthInv'
    BY <1>6 DEF OpenExisting
<1>7. ASSUME NEW p \in Procs, Create(p) PROVE BirthInv'
    BY <1>7, FreshUnborn DEF Create
<1>8. ASSUME NEW p \in Procs, Rename(p) PROVE BirthInv'
    BY <1>8 DEF Rename
<1>9. ASSUME NEW p \in Procs, Sync(p) PROVE BirthInv'
    BY <1>9 DEF Sync
<1>10. ASSUME NEW p \in Procs, Flock(p) PROVE BirthInv'
    BY <1>10 DEF Flock
<1>11. ASSUME NEW p \in Procs, Adopt(p) PROVE BirthInv'
    BY <1>11 DEF Adopt
<1>12. ASSUME NEW p \in Procs, Check(p) PROVE BirthInv'
    BY <1>12 DEF Check
<1>13. ASSUME NEW p \in Procs, Fill(p) PROVE BirthInv'
    BY <1>13 DEF Fill
<1>14. ASSUME NEW p \in Procs, FillEnds(p) PROVE BirthInv'
    BY <1>14 DEF FillEnds
<1>15. ASSUME NEW p \in Procs, Unfill(p) PROVE BirthInv'
    BY <1>15 DEF Unfill
<1>16. ASSUME NEW p \in Procs, UnfillEnds(p) PROVE BirthInv'
    BY <1>16 DEF UnfillEnds, RestoreMode
<1>17. ASSUME NEW p \in Procs, Unmake(p) PROVE BirthInv'
    BY <1>17 DEF Unmake
<1>18. ASSUME NEW p \in Procs, Move(p) PROVE BirthInv'
    BY <1>18 DEF Move, AfterMove
<1>19. ASSUME NEW p \in Procs, MoveBack(p) PROVE BirthInv'
    BY <1>19 DEF MoveBack
<1>20. ASSUME NEW p \in Procs, Rmdir(p) PROVE BirthInv'
    BY <1>20 DEF Rmdir
<1>21. ASSUME NEW p \in Procs, Inspect(p) PROVE BirthInv'
    BY <1>21 DEF Inspect
<1>22. ASSUME NEW p \in Procs, Share(p) PROVE BirthInv'
    BY <1>22 DEF Share
<1>23. ASSUME NEW p \in Procs, Acquire(p) PROVE BirthInv'
    BY <1>23 DEF Acquire, Acquirable
<1>24. ASSUME NEW p \in Procs, RemoveStale(p) PROVE BirthInv'
    BY <1>24 DEF RemoveStale
<1>25. ASSUME NEW p \in Procs, Cleaned(p) PROVE BirthInv'
    BY <1>25 DEF Cleaned
<1>26. ASSUME NEW p \in Procs, Prepare(p) PROVE BirthInv'
    BY <1>26 DEF Prepare
<1>27. ASSUME NEW p \in Procs, PrepareDiagnosis(p) PROVE BirthInv'
    BY <1>27 DEF PrepareDiagnosis
<1>28. ASSUME NEW p \in Procs, FinishWork(p) PROVE BirthInv'
    BY <1>28 DEF FinishWork
<1>29. ASSUME NEW p \in Procs, Sweep(p) PROVE BirthInv'
    BY <1>29 DEF Sweep
<1> QED BY <1>1, <1>2, <1>3, <1>4, <1>5, <1>6, <1>7, <1>8, <1>9, <1>10, <1>11, <1>12, <1>13, <1>14,
    <1>15, <1>16, <1>17, <1>18, <1>19, <1>20, <1>21, <1>22, <1>23, <1>24, <1>25, <1>26, <1>27,
    <1>28, <1>29 DEF LayoutNext, ProcessStep

(* A creation journal is one process's, and it holds what that process made.*)
LEMMA NextJournalInv == LayoutAssumption /\ LayoutInv /\ [LayoutNext]_layoutVars => JournalInv'
<1> SUFFICES ASSUME LayoutAssumption, LayoutTypeOK, BirthInv, JournalInv, [LayoutNext]_layoutVars PROVE JournalInv'
    BY DEF LayoutInv
<1> USE DEF LayoutAssumption, LayoutTypeOK, JournalInv, Before, Creating, Filling
<1> USE DEF To, Proceed, Take, Release, End, Opened, path, content, local, budget
<1>1. CASE UNCHANGED layoutVars
    BY <1>1 DEF layoutVars
<1>2. CASE Replace
    BY <1>2, FreshUnborn DEF Replace
<1>3. ASSUME NEW p \in Procs, Start(p) PROVE JournalInv'
    BY <1>3 DEF Start
<1>4. ASSUME NEW p \in Procs, Kill(p) PROVE JournalInv'
    BY <1>4 DEF Kill
<1>5. ASSUME NEW p \in Procs, OpenPath(p) PROVE JournalInv'
    BY <1>5 DEF OpenPath
<1>6. ASSUME NEW p \in Procs, OpenExisting(p) PROVE JournalInv'
    BY <1>6 DEF OpenExisting
<1>7. ASSUME NEW p \in Procs, Create(p) PROVE JournalInv'
    BY <1>7, FreshUnborn DEF Create, BirthInv
<1>8. ASSUME NEW p \in Procs, Rename(p) PROVE JournalInv'
    BY <1>8 DEF Rename
<1>9. ASSUME NEW p \in Procs, Sync(p) PROVE JournalInv'
    BY <1>9 DEF Sync
<1>10. ASSUME NEW p \in Procs, Flock(p) PROVE JournalInv'
    BY <1>10 DEF Flock
<1>11. ASSUME NEW p \in Procs, Adopt(p) PROVE JournalInv'
    BY <1>11 DEF Adopt
<1>12. ASSUME NEW p \in Procs, Check(p) PROVE JournalInv'
    BY <1>12 DEF Check
<1>13. ASSUME NEW p \in Procs, Fill(p) PROVE JournalInv'
    BY <1>13 DEF Fill
<1>14. ASSUME NEW p \in Procs, FillEnds(p) PROVE JournalInv'
    BY <1>14 DEF FillEnds
<1>15. ASSUME NEW p \in Procs, Unfill(p) PROVE JournalInv'
    BY <1>15 DEF Unfill
<1>16. ASSUME NEW p \in Procs, UnfillEnds(p) PROVE JournalInv'
    BY <1>16 DEF UnfillEnds, RestoreMode
<1>17. ASSUME NEW p \in Procs, Unmake(p) PROVE JournalInv'
    BY <1>17 DEF Unmake
<1>18. ASSUME NEW p \in Procs, Move(p) PROVE JournalInv'
    BY <1>18 DEF Move, AfterMove
<1>19. ASSUME NEW p \in Procs, MoveBack(p) PROVE JournalInv'
    BY <1>19 DEF MoveBack
<1>20. ASSUME NEW p \in Procs, Rmdir(p) PROVE JournalInv'
    BY <1>20 DEF Rmdir
<1>21. ASSUME NEW p \in Procs, Inspect(p) PROVE JournalInv'
    BY <1>21 DEF Inspect
<1>22. ASSUME NEW p \in Procs, Share(p) PROVE JournalInv'
    BY <1>22 DEF Share
<1>23. ASSUME NEW p \in Procs, Acquire(p) PROVE JournalInv'
    BY <1>23 DEF Acquire, Acquirable
<1>24. ASSUME NEW p \in Procs, RemoveStale(p) PROVE JournalInv'
    BY <1>24 DEF RemoveStale
<1>25. ASSUME NEW p \in Procs, Cleaned(p) PROVE JournalInv'
    BY <1>25 DEF Cleaned
<1>26. ASSUME NEW p \in Procs, Prepare(p) PROVE JournalInv'
    BY <1>26 DEF Prepare
<1>27. ASSUME NEW p \in Procs, PrepareDiagnosis(p) PROVE JournalInv'
    BY <1>27 DEF PrepareDiagnosis
<1>28. ASSUME NEW p \in Procs, FinishWork(p) PROVE JournalInv'
    BY <1>28 DEF FinishWork
<1>29. ASSUME NEW p \in Procs, Sweep(p) PROVE JournalInv'
    BY <1>29 DEF Sweep
<1> QED BY <1>1, <1>2, <1>3, <1>4, <1>5, <1>6, <1>7, <1>8, <1>9, <1>10, <1>11, <1>12, <1>13, <1>14,
    <1>15, <1>16, <1>17, <1>18, <1>19, <1>20, <1>21, <1>22, <1>23, <1>24, <1>25, <1>26, <1>27,
    <1>28, <1>29 DEF LayoutNext, ProcessStep

(* A process that ends or has opened holds no lock, and takes none from others. *)
LEMMA EndLocks ==
    ASSUME LayoutAssumption, LayoutTypeOK, JournalInv, LockInv, NEW p \in Procs, End(p) \/ Opened(p)
    PROVE  LockInv'
<1> USE DEF LayoutAssumption, LayoutTypeOK, Owning, WorkingSteps, Filling, Locking, End, Opened, To, Release
<1>1. ASSUME NEW q \in Procs, step'[q] \in Owning PROVE holder'[dir'[q]] = q
    BY <1>1 DEF JournalInv, LockInv, Before
<1>2. ASSUME NEW q \in Procs, NEW r \in Roots, holder'[r] = q
      PROVE  q # p /\ holder[r] = q
    BY <1>2
<1>3. NobodyStuck'
    BY <1>2 DEF LockInv, NobodyStuck
<1>4. ASSUME NEW q \in Procs, step'[q] = "rmdir" /\ q \notin made' PROVE \A r \in Roots : holder'[r] # q
    BY <1>2, <1>4 DEF LockInv
<1> QED BY <1>1, <1>3, <1>4 DEF LockInv

(* A step that leaves the locks alone keeps what they mean.                 *)
LEMMA GotoLocks ==
    ASSUME LayoutTypeOK, LockInv, NEW p \in Procs, NEW s \in LayoutSteps, To(p, s), UNCHANGED <<holder, dir>>,
           made' \ {p} = made \ {p},
           s \in Owning => holder[dir[p]] = p,
           s \in Locking \/ (\A r \in Roots : holder[r] # p),
           s # "rmdir" \/ p \in made' \/ (\A r \in Roots : holder[r] # p)
    PROVE  LockInv'
<1> USE DEF LayoutTypeOK, Locking, To
<1>1. ASSUME NEW q \in Procs, step'[q] \in Owning PROVE holder'[dir'[q]] = q
    BY <1>1 DEF LockInv
<1>2. NobodyStuck'
    BY DEF LockInv, NobodyStuck
<1>3. ASSUME NEW q \in Procs, step'[q] = "rmdir" /\ q \notin made' PROVE \A r \in Roots : holder'[r] # q
    BY <1>3 DEF LockInv
<1> QED BY <1>1, <1>2, <1>3 DEF LockInv

(* A lock is taken from nobody, by a process that is going to work.          *)
LEMMA TakeLocks ==
    ASSUME LayoutAssumption, LayoutTypeOK, JournalInv, LockInv, NEW p \in Procs,
           NEW s \in Owning, Take(p), To(p, s), dir[p] \in Roots,
           UNCHANGED <<dir, made>>
    PROVE  LockInv'
<1> USE DEF LayoutAssumption, LayoutTypeOK, Owning, WorkingSteps, Filling, Locking, To, Take, LayoutSteps
<1>1. ASSUME NEW q \in Procs, step'[q] \in Owning PROVE holder'[dir'[q]] = q
    BY <1>1 DEF LockInv, JournalInv, Before
<1>2. NobodyStuck'
    BY DEF LockInv, NobodyStuck
<1>3. ASSUME NEW q \in Procs, step'[q] = "rmdir" /\ q \notin made' PROVE \A r \in Roots : holder'[r] # q
    BY <1>3 DEF LockInv
<1> QED BY <1>1, <1>2, <1>3 DEF LockInv

(* Whoever changes a directory holds its lock.                              *)
LEMMA NextLockInv == LayoutAssumption /\ LayoutInv /\ [LayoutNext]_layoutVars => LockInv'
<1> SUFFICES ASSUME LayoutAssumption, LayoutTypeOK, JournalInv, LockInv, [LayoutNext]_layoutVars PROVE LockInv'
    BY DEF LayoutInv
<1> USE DEF Proceed, local
<1>0. LockInv /\ UNCHANGED <<holder, step, dir, made>> => LockInv'
    BY DEF LockInv, NobodyStuck
<1>1. CASE UNCHANGED layoutVars
    BY <1>0, <1>1 DEF layoutVars
<1>2. CASE Replace
    BY <1>0, <1>2 DEF Replace
<1>3. ASSUME NEW p \in Procs, Start(p) PROVE LockInv'
    BY <1>3 DEF Start, LayoutAssumption, LayoutTypeOK, LockInv, NobodyStuck, Locking, Owning, WorkingSteps,
        Filling, To, LayoutSteps, JournalInv, Before, Creating
<1>4. ASSUME NEW p \in Procs, Kill(p) PROVE LockInv'
    BY <1>4, EndLocks DEF Kill
<1>5. ASSUME NEW p \in Procs, OpenPath(p) PROVE LockInv'
    BY <1>5 DEF OpenPath, LayoutAssumption, LayoutTypeOK, LockInv, NobodyStuck, Locking, Owning, WorkingSteps,
        Filling, To, LayoutSteps, End, Opened, Release, Take, JournalInv, Before, Creating
<1>6. ASSUME NEW p \in Procs, OpenExisting(p) PROVE LockInv'
    BY <1>6 DEF OpenExisting, LayoutAssumption, LayoutTypeOK, LockInv, NobodyStuck, Locking, Owning,
        WorkingSteps, Filling, To, LayoutSteps, End, Opened, Release, Take, JournalInv, Before, Creating
<1>7. ASSUME NEW p \in Procs, Create(p) PROVE LockInv'
    BY <1>7, FreshUnborn DEF Create, LayoutAssumption, LayoutTypeOK, LockInv, NobodyStuck, Locking,
        Owning, WorkingSteps, Filling, To, LayoutSteps, End, Opened, Release, Take, JournalInv, Before,
        Creating
<1>8. ASSUME NEW p \in Procs, Rename(p) PROVE LockInv'
    BY <1>8 DEF Rename, LayoutAssumption, LayoutTypeOK, LockInv, NobodyStuck, Locking, Owning,
        WorkingSteps, Filling, To, LayoutSteps, JournalInv, Before, Creating
<1>9. ASSUME NEW p \in Procs, Sync(p) PROVE LockInv'
    BY <1>9 DEF Sync, LayoutAssumption, LayoutTypeOK, LockInv, NobodyStuck, Locking, Owning, WorkingSteps,
        Filling, To, LayoutSteps, JournalInv, Before, Creating
<1>10. ASSUME NEW p \in Procs, Flock(p) PROVE LockInv'
  <2>1. dir[p] \in Roots /\ p \in made
    BY <1>10 DEF Flock, JournalInv, Before, Creating
  <2>2. CASE Proceed(p, "unmake")
    BY <2>1, <2>2, GotoLocks DEF Owning, WorkingSteps, Filling, Locking, LayoutSteps
  <2>3. ASSUME NEW s \in {"fill", "check"}, Take(p), To(p, s), UNCHANGED local PROVE LockInv'
    BY <2>1, <2>3, TakeLocks DEF Owning, Filling
  <2> QED BY <1>10, <2>2, <2>3 DEF Flock
<1>11. ASSUME NEW p \in Procs, Adopt(p) PROVE LockInv'
  <2>1. dir[p] \in Roots
    BY <1>11 DEF Adopt, JournalInv, Before
  <2>2. CASE Take(p) /\ UNCHANGED <<dir, made>>
    BY <1>11, <2>1, <2>2, EndLocks, TakeLocks DEF Adopt, Owning, Filling
  <2> QED BY <1>11, <2>2, EndLocks DEF Adopt
<1>12. ASSUME NEW p \in Procs, Check(p) PROVE LockInv'
  <2>1. CASE Proceed(p, "unmake") /\ p \in made
    BY <2>1, GotoLocks DEF Owning, WorkingSteps, Filling, Locking, LayoutSteps
  <2> QED BY <1>12, <2>1, EndLocks DEF Check
<1>13. ASSUME NEW p \in Procs, Fill(p) PROVE LockInv'
    BY <1>0, <1>13 DEF Fill
<1>14. ASSUME NEW p \in Procs, FillEnds(p) PROVE LockInv'
  <2>1. holder[dir[p]] = p
    BY <1>14 DEF FillEnds, LockInv, Owning, Filling
  <2>2. ASSUME NEW s \in {"check", "unfill"}, Proceed(p, s) PROVE LockInv'
    BY <2>1, <2>2, GotoLocks DEF Owning, WorkingSteps, Filling, Locking, LayoutSteps
  <2> QED BY <1>14, <2>2, EndLocks DEF FillEnds
<1>15. ASSUME NEW p \in Procs, Unfill(p) PROVE LockInv'
    BY <1>0, <1>15 DEF Unfill
<1>16. ASSUME NEW p \in Procs, UnfillEnds(p) PROVE LockInv'
  <2>1. CASE Proceed(p, "unmake")
    BY <2>1, GotoLocks DEF Owning, WorkingSteps, Filling, Locking, LayoutSteps
  <2> QED BY <1>16, <2>1, EndLocks DEF UnfillEnds
<1>17. ASSUME NEW p \in Procs, Unmake(p) PROVE LockInv'
  <2>1. CASE Proceed(p, "move")
    BY <2>1, GotoLocks DEF Owning, WorkingSteps, Filling, Locking, LayoutSteps
  <2> QED BY <1>17, <2>1, EndLocks DEF Unmake
<1>18. ASSUME NEW p \in Procs, Move(p) PROVE LockInv'
  <2>1. p \in made
    BY <1>18 DEF Move, JournalInv, Creating
  <2>2. ASSUME NEW s \in {"rmdir", "restore"}, To(p, s), UNCHANGED <<holder, dir, made>> PROVE LockInv'
    BY <2>1, <2>2, GotoLocks DEF Owning, WorkingSteps, Filling, Locking, LayoutSteps
  <2> QED BY <1>18, <2>2, EndLocks DEF Move, AfterMove
<1>19. ASSUME NEW p \in Procs, MoveBack(p) PROVE LockInv'
    BY <1>19, EndLocks DEF MoveBack
<1>20. ASSUME NEW p \in Procs, Rmdir(p) PROVE LockInv'
  <2>1. CASE Proceed(p, "open") /\ p \notin made
    BY <1>20, <2>1, GotoLocks DEF Rmdir, LockInv, Owning, WorkingSteps, Filling, LayoutSteps
  <2> QED BY <1>20, <2>1, EndLocks DEF Rmdir
<1>21. ASSUME NEW p \in Procs, Inspect(p) PROVE LockInv'
    BY <1>21 DEF Inspect, LayoutAssumption, LayoutTypeOK, LockInv, NobodyStuck, Locking, Owning,
        WorkingSteps, Filling, To, LayoutSteps, End, Opened, Release, Take, JournalInv, Before, Creating
<1>22. ASSUME NEW p \in Procs, Share(p) PROVE LockInv'
    BY <1>22 DEF Share, LayoutAssumption, LayoutTypeOK, LockInv, NobodyStuck, Locking, Owning,
        WorkingSteps, Filling, To, LayoutSteps, End, Opened, Release, Take, JournalInv, Before, Creating
<1>23. ASSUME NEW p \in Procs, Acquire(p) PROVE LockInv'
  <2>1. dir[p] \in Roots
    BY <1>23 DEF Acquire, JournalInv, Before
  <2>2. ASSUME NEW s \in {"clean", "maintaining"}, Take(p), To(p, s), UNCHANGED local PROVE LockInv'
    BY <2>1, <2>2, TakeLocks DEF Owning, WorkingSteps
  <2> QED BY <1>23, <2>2, EndLocks DEF Acquire, Acquirable
<1>24. ASSUME NEW p \in Procs, RemoveStale(p) PROVE LockInv'
    BY <1>0, <1>24, EndLocks DEF RemoveStale
<1>25. ASSUME NEW p \in Procs, Cleaned(p) PROVE LockInv'
    BY <1>25 DEF Cleaned, LayoutAssumption, LayoutTypeOK, LockInv, NobodyStuck, Locking, Owning,
        WorkingSteps, Filling, To, LayoutSteps, JournalInv, Before, Creating
<1>26. ASSUME NEW p \in Procs, Prepare(p) PROVE LockInv'
  <2>1. CASE Proceed(p, "running")
    BY <1>26, <2>1, GotoLocks DEF Prepare, LockInv, Owning, WorkingSteps, Locking, LayoutSteps
  <2> QED BY <1>26, <2>1, EndLocks DEF Prepare
<1>27. ASSUME NEW p \in Procs, PrepareDiagnosis(p) PROVE LockInv'
  <2>1. CASE Proceed(p, "recording")
    BY <1>27, <2>1, GotoLocks DEF PrepareDiagnosis, LockInv, Owning, WorkingSteps, Locking, LayoutSteps
  <2> QED BY <1>27, <2>1, EndLocks DEF PrepareDiagnosis
<1>28. ASSUME NEW p \in Procs, FinishWork(p) PROVE LockInv'
  <2>1. CASE Proceed(p, "sweep")
    BY <1>28, <2>1, GotoLocks DEF FinishWork, LockInv, Owning, WorkingSteps, Locking, LayoutSteps
  <2> QED BY <1>28, <2>1, EndLocks DEF FinishWork
<1>29. ASSUME NEW p \in Procs, Sweep(p) PROVE LockInv'
    BY <1>29, EndLocks DEF Sweep
<1> QED BY <1>1, <1>2, <1>3, <1>4, <1>5, <1>6, <1>7, <1>8, <1>9, <1>10, <1>11, <1>12, <1>13, <1>14,
    <1>15, <1>16, <1>17, <1>18, <1>19, <1>20, <1>21, <1>22, <1>23, <1>24, <1>25, <1>26, <1>27,
    <1>28, <1>29 DEF LayoutNext, ProcessStep

(* Foreign directories are not filled; adopted ones get their mode.         *)
LEMMA NextFillInv == LayoutAssumption /\ LayoutInv /\ [LayoutNext]_layoutVars => FillInv'
<1> SUFFICES ASSUME LayoutAssumption, LayoutTypeOK, BirthInv, JournalInv, LockInv, FillInv, [LayoutNext]_layoutVars PROVE FillInv'
    BY DEF LayoutInv
<1> USE DEF LayoutAssumption, LayoutTypeOK, FillInv, Filling
<1> USE DEF To, Proceed, Take, Release, End, Opened, path, content, local, budget
<1>1. CASE UNCHANGED layoutVars
    BY <1>1 DEF layoutVars
<1>2. CASE Replace
    BY <1>2, FreshUnborn DEF Replace, BirthInv, JournalInv, Before
<1>3. ASSUME NEW p \in Procs, Start(p) PROVE FillInv'
    BY <1>3 DEF Start
<1>4. ASSUME NEW p \in Procs, Kill(p) PROVE FillInv'
    BY <1>4 DEF Kill
<1>5. ASSUME NEW p \in Procs, OpenPath(p) PROVE FillInv'
    BY <1>5 DEF OpenPath
<1>6. ASSUME NEW p \in Procs, OpenExisting(p) PROVE FillInv'
    BY <1>6 DEF OpenExisting
<1>7. ASSUME NEW p \in Procs, Create(p) PROVE FillInv'
    BY <1>7, FreshUnborn DEF Create
<1>8. ASSUME NEW p \in Procs, Rename(p) PROVE FillInv'
    BY <1>8 DEF Rename
<1>9. ASSUME NEW p \in Procs, Sync(p) PROVE FillInv'
    BY <1>9 DEF Sync
<1>10. ASSUME NEW p \in Procs, Flock(p) PROVE FillInv'
    BY <1>10 DEF Flock, Empty, JournalInv, Creating
<1>11. ASSUME NEW p \in Procs, Adopt(p) PROVE FillInv'
    BY <1>11 DEF Adopt, Empty, JournalInv, Before
<1>12. ASSUME NEW p \in Procs, Check(p) PROVE FillInv'
    BY <1>12 DEF Check
<1>13. ASSUME NEW p \in Procs, Fill(p) PROVE FillInv'
    BY <1>13 DEF Fill
<1>14. ASSUME NEW p \in Procs, FillEnds(p) PROVE FillInv'
    BY <1>14 DEF FillEnds
<1>15. ASSUME NEW p \in Procs, Unfill(p) PROVE FillInv'
    BY <1>15 DEF Unfill
<1>16. ASSUME NEW p \in Procs, UnfillEnds(p) PROVE FillInv'
  <2>1. holder[dir[p]] = p
    BY <1>16 DEF UnfillEnds, LockInv, Owning
  <2>2. ASSUME NEW q \in Procs \ made', step'[q] = "fill" PROVE dir'[q] \in secured'
    <3>1. q # p /\ step[q] = "fill" /\ q \notin made /\ dir'[q] = dir[q]
      BY <1>16, <2>2 DEF UnfillEnds
    <3>2. holder[dir[q]] = q
      BY <3>1 DEF LockInv, Owning
    <3> QED BY <1>16, <2>1, <3>1, <3>2 DEF UnfillEnds, RestoreMode
  <2>3. ASSUME NEW q \in Procs, step'[q] \in Filling PROVE dir'[q] \notin foreign'
    BY <1>16, <2>3 DEF UnfillEnds
  <2> QED BY <2>2, <2>3
<1>17. ASSUME NEW p \in Procs, Unmake(p) PROVE FillInv'
    BY <1>17 DEF Unmake
<1>18. ASSUME NEW p \in Procs, Move(p) PROVE FillInv'
    BY <1>18 DEF Move, AfterMove
<1>19. ASSUME NEW p \in Procs, MoveBack(p) PROVE FillInv'
    BY <1>19 DEF MoveBack
<1>20. ASSUME NEW p \in Procs, Rmdir(p) PROVE FillInv'
    BY <1>20 DEF Rmdir
<1>21. ASSUME NEW p \in Procs, Inspect(p) PROVE FillInv'
    BY <1>21 DEF Inspect
<1>22. ASSUME NEW p \in Procs, Share(p) PROVE FillInv'
    BY <1>22 DEF Share
<1>23. ASSUME NEW p \in Procs, Acquire(p) PROVE FillInv'
    BY <1>23 DEF Acquire, Acquirable
<1>24. ASSUME NEW p \in Procs, RemoveStale(p) PROVE FillInv'
    BY <1>24 DEF RemoveStale
<1>25. ASSUME NEW p \in Procs, Cleaned(p) PROVE FillInv'
    BY <1>25 DEF Cleaned
<1>26. ASSUME NEW p \in Procs, Prepare(p) PROVE FillInv'
    BY <1>26 DEF Prepare
<1>27. ASSUME NEW p \in Procs, PrepareDiagnosis(p) PROVE FillInv'
    BY <1>27 DEF PrepareDiagnosis
<1>28. ASSUME NEW p \in Procs, FinishWork(p) PROVE FillInv'
    BY <1>28 DEF FinishWork
<1>29. ASSUME NEW p \in Procs, Sweep(p) PROVE FillInv'
    BY <1>29 DEF Sweep
<1> QED BY <1>1, <1>2, <1>3, <1>4, <1>5, <1>6, <1>7, <1>8, <1>9, <1>10, <1>11, <1>12, <1>13, <1>14,
    <1>15, <1>16, <1>17, <1>18, <1>19, <1>20, <1>21, <1>22, <1>23, <1>24, <1>25, <1>26, <1>27,
    <1>28, <1>29 DEF LayoutNext, ProcessStep

(* What is removed was made by the program and is empty; foreign files stay.*)
LEMMA NextOthersUntouched == LayoutAssumption /\ LayoutInv /\ [LayoutNext]_layoutVars => OthersUntouched'
<1> SUFFICES ASSUME LayoutAssumption, LayoutTypeOK, BirthInv, JournalInv, LockInv, FillInv, OthersUntouched,
                    [LayoutNext]_layoutVars
             PROVE  OthersUntouched'
    BY DEF LayoutInv
<1> USE DEF LayoutAssumption, LayoutTypeOK, OthersUntouched, Empty, BirthInv, FillInv, Filling
<1> USE DEF To, Proceed, Take, Release, End, Opened, path, content, local, budget
<1>1. CASE UNCHANGED layoutVars
    BY <1>1 DEF layoutVars
<1>2. CASE Replace
    BY <1>2, FreshUnborn DEF Replace, Unborn
<1>3. ASSUME NEW p \in Procs, Start(p) PROVE OthersUntouched'
    BY <1>3 DEF Start
<1>4. ASSUME NEW p \in Procs, Kill(p) PROVE OthersUntouched'
    BY <1>4 DEF Kill, JournalInv, Before
<1>5. ASSUME NEW p \in Procs, OpenPath(p) PROVE OthersUntouched'
    BY <1>5 DEF OpenPath
<1>6. ASSUME NEW p \in Procs, OpenExisting(p) PROVE OthersUntouched'
    BY <1>6 DEF OpenExisting
<1>7. ASSUME NEW p \in Procs, Create(p) PROVE OthersUntouched'
    BY <1>7, FreshUnborn DEF Create
<1>8. ASSUME NEW p \in Procs, Rename(p) PROVE OthersUntouched'
    BY <1>8 DEF Rename
<1>9. ASSUME NEW p \in Procs, Sync(p) PROVE OthersUntouched'
    BY <1>9 DEF Sync
<1>10. ASSUME NEW p \in Procs, Flock(p) PROVE OthersUntouched'
    BY <1>10 DEF Flock
<1>11. ASSUME NEW p \in Procs, Adopt(p) PROVE OthersUntouched'
    BY <1>11 DEF Adopt
<1>12. ASSUME NEW p \in Procs, Check(p) PROVE OthersUntouched'
    BY <1>12 DEF Check
<1>13. ASSUME NEW p \in Procs, Fill(p) PROVE OthersUntouched'
    BY <1>13 DEF Fill, JournalInv, Before
<1>14. ASSUME NEW p \in Procs, FillEnds(p) PROVE OthersUntouched'
    BY <1>14 DEF FillEnds
<1>15. ASSUME NEW p \in Procs, Unfill(p) PROVE OthersUntouched'
    BY <1>15 DEF Unfill, JournalInv, Before
<1>16. ASSUME NEW p \in Procs, UnfillEnds(p) PROVE OthersUntouched'
    BY <1>16 DEF UnfillEnds, RestoreMode, JournalInv, Before
<1>17. ASSUME NEW p \in Procs, Unmake(p) PROVE OthersUntouched'
    BY <1>17 DEF Unmake
<1>18. ASSUME NEW p \in Procs, Move(p) PROVE OthersUntouched'
    BY <1>18 DEF Move, AfterMove
<1>19. ASSUME NEW p \in Procs, MoveBack(p) PROVE OthersUntouched'
    BY <1>19 DEF MoveBack
<1>20. ASSUME NEW p \in Procs, Rmdir(p) PROVE OthersUntouched'
    BY <1>20 DEF Rmdir, JournalInv
<1>21. ASSUME NEW p \in Procs, Inspect(p) PROVE OthersUntouched'
    BY <1>21 DEF Inspect
<1>22. ASSUME NEW p \in Procs, Share(p) PROVE OthersUntouched'
    BY <1>22 DEF Share
<1>23. ASSUME NEW p \in Procs, Acquire(p) PROVE OthersUntouched'
    BY <1>23 DEF Acquire, Acquirable
<1>24. ASSUME NEW p \in Procs, RemoveStale(p) PROVE OthersUntouched'
    BY <1>24 DEF RemoveStale
<1>25. ASSUME NEW p \in Procs, Cleaned(p) PROVE OthersUntouched'
    BY <1>25 DEF Cleaned
<1>26. ASSUME NEW p \in Procs, Prepare(p) PROVE OthersUntouched'
    BY <1>26 DEF Prepare
<1>27. ASSUME NEW p \in Procs, PrepareDiagnosis(p) PROVE OthersUntouched'
    BY <1>27 DEF PrepareDiagnosis
<1>28. ASSUME NEW p \in Procs, FinishWork(p) PROVE OthersUntouched'
    BY <1>28 DEF FinishWork
<1>29. ASSUME NEW p \in Procs, Sweep(p) PROVE OthersUntouched'
    BY <1>29 DEF Sweep
<1> QED BY <1>1, <1>2, <1>3, <1>4, <1>5, <1>6, <1>7, <1>8, <1>9, <1>10, <1>11, <1>12, <1>13, <1>14,
    <1>15, <1>16, <1>17, <1>18, <1>19, <1>20, <1>21, <1>22, <1>23, <1>24, <1>25, <1>26, <1>27,
    <1>28, <1>29 DEF LayoutNext, ProcessStep

(* Nobody but the holder of its lock changes an acquired workspace.         *)
LEMMA NextRunInv == LayoutAssumption /\ LayoutInv /\ [LayoutNext]_layoutVars => RunInv'
<1> SUFFICES ASSUME LayoutAssumption, LayoutTypeOK, BirthInv, JournalInv, LockInv, RunInv, [LayoutNext]_layoutVars PROVE RunInv'
    BY DEF LayoutInv
<1> USE DEF LayoutAssumption, LayoutTypeOK, RunInv, RunsAlone, WorkingSteps, AcceptedLayout, Complete
<1> USE DEF To, Proceed, Take, Release, End, Opened, path, content, local, budget
<1>1. CASE UNCHANGED layoutVars
    BY <1>1 DEF layoutVars
<1>2. CASE Replace
  <2>1. \A q \in Procs : step[q] \in WorkingSteps => dir[q] # Fresh
    BY <1>2, FreshUnborn DEF Replace, BirthInv, JournalInv, Before
  <2> QED BY <1>2, <2>1 DEF Replace
<1>3. ASSUME NEW p \in Procs, Start(p) PROVE RunInv'
    BY <1>3 DEF Start
<1>4. ASSUME NEW p \in Procs, Kill(p) PROVE RunInv'
  <2>1. step[p] \in Owning => \A q \in Procs \ {p} : step[q] \in WorkingSteps => dir[q] # dir[p]
    BY DEF LockInv, Owning
  <2>2. \A q \in Procs \ {p} : step'[q] = step[q] /\ dir'[q] = dir[q]
    BY <1>4 DEF Kill
  <2>3. step'[p] = "ended"
    BY <1>4 DEF Kill
  <2>4. \A q \in Procs \ {p} : step[q] \in WorkingSteps =>
          layout'[dir[q]] = layout[dir[q]] /\ (dir[q] \in stray' <=> dir[q] \in stray) /\ tmp'[dir[q]] = tmp[dir[q]]
    BY <1>4, <2>1 DEF Kill, Owning, Filling, JournalInv, Before
  <2> QED BY <1>4, <2>2, <2>3, <2>4 DEF Kill
<1>5. ASSUME NEW p \in Procs, OpenPath(p) PROVE RunInv'
    BY <1>5 DEF OpenPath
<1>6. ASSUME NEW p \in Procs, OpenExisting(p) PROVE RunInv'
    BY <1>6 DEF OpenExisting
<1>7. ASSUME NEW p \in Procs, Create(p) PROVE RunInv'
    BY <1>7, FreshUnborn DEF Create
<1>8. ASSUME NEW p \in Procs, Rename(p) PROVE RunInv'
    BY <1>8 DEF Rename
<1>9. ASSUME NEW p \in Procs, Sync(p) PROVE RunInv'
    BY <1>9 DEF Sync
<1>10. ASSUME NEW p \in Procs, Flock(p) PROVE RunInv'
    BY <1>10 DEF Flock
<1>11. ASSUME NEW p \in Procs, Adopt(p) PROVE RunInv'
    BY <1>11 DEF Adopt
<1>12. ASSUME NEW p \in Procs, Check(p) PROVE RunInv'
    BY <1>12 DEF Check
<1>13. ASSUME NEW p \in Procs, Fill(p) PROVE RunInv'
    BY <1>13 DEF Fill
<1>14. ASSUME NEW p \in Procs, FillEnds(p) PROVE RunInv'
    BY <1>14 DEF FillEnds
<1>15. ASSUME NEW p \in Procs, Unfill(p) PROVE RunInv'
  <2>1. holder[dir[p]] = p
    BY <1>15 DEF Unfill, LockInv, Owning, Filling
  <2>2. \A q \in Procs \ {p} : step[q] \in WorkingSteps => dir[q] # dir[p]
    BY <2>1 DEF LockInv, Owning
  <2>3. \A q \in Procs \ {p} : step'[q] = step[q] /\ dir'[q] = dir[q]
    BY <1>15 DEF Unfill
  <2> QED BY <1>15, <2>2, <2>3 DEF Unfill, JournalInv, Before
<1>16. ASSUME NEW p \in Procs, UnfillEnds(p) PROVE RunInv'
  <2>1. holder[dir[p]] = p
    BY <1>16 DEF UnfillEnds, LockInv, Owning, Filling
  <2>2. \A q \in Procs \ {p} : step[q] \in WorkingSteps => dir[q] # dir[p]
    BY <2>1 DEF LockInv, Owning
  <2>3. \A q \in Procs \ {p} : step'[q] = step[q] /\ dir'[q] = dir[q]
    BY <1>16 DEF UnfillEnds
  <2> QED BY <1>16, <2>2, <2>3 DEF UnfillEnds, RestoreMode, JournalInv, Before
<1>17. ASSUME NEW p \in Procs, Unmake(p) PROVE RunInv'
    BY <1>17 DEF Unmake
<1>18. ASSUME NEW p \in Procs, Move(p) PROVE RunInv'
    BY <1>18 DEF Move, AfterMove
<1>19. ASSUME NEW p \in Procs, MoveBack(p) PROVE RunInv'
    BY <1>19 DEF MoveBack
<1>20. ASSUME NEW p \in Procs, Rmdir(p) PROVE RunInv'
    BY <1>20 DEF Rmdir
<1>21. ASSUME NEW p \in Procs, Inspect(p) PROVE RunInv'
    BY <1>21 DEF Inspect
<1>22. ASSUME NEW p \in Procs, Share(p) PROVE RunInv'
    BY <1>22 DEF Share
<1>23. ASSUME NEW p \in Procs, Acquire(p) PROVE RunInv'
    BY <1>23 DEF Acquire, Acquirable
<1>24. ASSUME NEW p \in Procs, RemoveStale(p) PROVE RunInv'
  <2>1. holder[dir[p]] = p
    BY <1>24 DEF RemoveStale, LockInv, Owning, Filling
  <2>2. \A q \in Procs \ {p} : step[q] \in WorkingSteps => dir[q] # dir[p]
    BY <2>1 DEF LockInv, Owning
  <2>3. \A q \in Procs \ {p} : step'[q] = step[q] /\ dir'[q] = dir[q]
    BY <1>24 DEF RemoveStale
  <2> QED BY <1>24, <2>2, <2>3 DEF RemoveStale, JournalInv, Before
<1>25. ASSUME NEW p \in Procs, Cleaned(p) PROVE RunInv'
    BY <1>25 DEF Cleaned
<1>26. ASSUME NEW p \in Procs, Prepare(p) PROVE RunInv'
  <2>1. holder[dir[p]] = p
    BY <1>26 DEF Prepare, LockInv, Owning, Filling
  <2>2. \A q \in Procs \ {p} : step[q] \in WorkingSteps => dir[q] # dir[p]
    BY <2>1 DEF LockInv, Owning
  <2>3. \A q \in Procs \ {p} : step'[q] = step[q] /\ dir'[q] = dir[q]
    BY <1>26 DEF Prepare
  <2> QED BY <1>26, <2>2, <2>3 DEF Prepare, JournalInv, Before
<1>27. ASSUME NEW p \in Procs, PrepareDiagnosis(p) PROVE RunInv'
    BY <1>27 DEF PrepareDiagnosis
<1>28. ASSUME NEW p \in Procs, FinishWork(p) PROVE RunInv'
    BY <1>28 DEF FinishWork
<1>29. ASSUME NEW p \in Procs, Sweep(p) PROVE RunInv'
  <2>1. holder[dir[p]] = p
    BY <1>29 DEF Sweep, LockInv, Owning, Filling
  <2>2. \A q \in Procs \ {p} : step[q] \in WorkingSteps => dir[q] # dir[p]
    BY <2>1 DEF LockInv, Owning
  <2>3. \A q \in Procs \ {p} : step'[q] = step[q] /\ dir'[q] = dir[q]
    BY <1>29 DEF Sweep
  <2> QED BY <1>29, <2>2, <2>3 DEF Sweep, JournalInv, Before
<1> QED BY <1>1, <1>2, <1>3, <1>4, <1>5, <1>6, <1>7, <1>8, <1>9, <1>10, <1>11, <1>12, <1>13, <1>14,
    <1>15, <1>16, <1>17, <1>18, <1>19, <1>20, <1>21, <1>22, <1>23, <1>24, <1>25, <1>26, <1>27,
    <1>28, <1>29 DEF LayoutNext, ProcessStep

(* Nothing displaces a directory between its last check and its removal.    *)
LEMMA NextPlace ==
    ASSUME LayoutAssumption, LayoutInv, LayoutNext, ~dirty, ~dirty'
    PROVE  PlaceTraced'
<1> USE DEF LayoutAssumption, LayoutInv, LayoutTypeOK, TraceInv, PlaceTraced, JournalInv, Creating
<1> USE DEF To, Proceed, Take, Release, End, Opened, path, content, local, budget
<1>1. CASE Replace
    BY <1>1 DEF Replace
<1>2. ASSUME NEW p \in Procs, Start(p) PROVE PlaceTraced'
    BY <1>2 DEF Start
<1>3. ASSUME NEW p \in Procs, Kill(p) PROVE PlaceTraced'
    BY <1>3 DEF Kill
<1>4. ASSUME NEW p \in Procs, OpenPath(p) PROVE PlaceTraced'
    BY <1>4 DEF OpenPath
<1>5. ASSUME NEW p \in Procs, OpenExisting(p) PROVE PlaceTraced'
    BY <1>5 DEF OpenExisting
<1>6. ASSUME NEW p \in Procs, Create(p) PROVE PlaceTraced'
    BY <1>6 DEF Create
<1>7. ASSUME NEW p \in Procs, Rename(p) PROVE PlaceTraced'
    BY <1>7 DEF Rename
<1>8. ASSUME NEW p \in Procs, Sync(p) PROVE PlaceTraced'
    BY <1>8 DEF Sync
<1>9. ASSUME NEW p \in Procs, Flock(p) PROVE PlaceTraced'
    BY <1>9 DEF Flock
<1>10. ASSUME NEW p \in Procs, Adopt(p) PROVE PlaceTraced'
    BY <1>10 DEF Adopt
<1>11. ASSUME NEW p \in Procs, Check(p) PROVE PlaceTraced'
    BY <1>11 DEF Check
<1>12. ASSUME NEW p \in Procs, Fill(p) PROVE PlaceTraced'
    BY <1>12 DEF Fill
<1>13. ASSUME NEW p \in Procs, FillEnds(p) PROVE PlaceTraced'
    BY <1>13 DEF FillEnds
<1>14. ASSUME NEW p \in Procs, Unfill(p) PROVE PlaceTraced'
    BY <1>14 DEF Unfill
<1>15. ASSUME NEW p \in Procs, UnfillEnds(p) PROVE PlaceTraced'
    BY <1>15 DEF UnfillEnds, RestoreMode
<1>16. ASSUME NEW p \in Procs, Unmake(p) PROVE PlaceTraced'
    BY <1>16 DEF Unmake
<1>17. ASSUME NEW p \in Procs, Move(p) PROVE PlaceTraced'
    BY <1>17 DEF Move, AfterMove
<1>18. ASSUME NEW p \in Procs, MoveBack(p) PROVE PlaceTraced'
    BY <1>18 DEF MoveBack
<1>19. ASSUME NEW p \in Procs, Rmdir(p) PROVE PlaceTraced'
    BY <1>19 DEF Rmdir
<1>20. ASSUME NEW p \in Procs, Inspect(p) PROVE PlaceTraced'
    BY <1>20 DEF Inspect
<1>21. ASSUME NEW p \in Procs, Share(p) PROVE PlaceTraced'
    BY <1>21 DEF Share
<1>22. ASSUME NEW p \in Procs, Acquire(p) PROVE PlaceTraced'
    BY <1>22 DEF Acquire, Acquirable
<1>23. ASSUME NEW p \in Procs, RemoveStale(p) PROVE PlaceTraced'
    BY <1>23 DEF RemoveStale
<1>24. ASSUME NEW p \in Procs, Cleaned(p) PROVE PlaceTraced'
    BY <1>24 DEF Cleaned
<1>25. ASSUME NEW p \in Procs, Prepare(p) PROVE PlaceTraced'
    BY <1>25 DEF Prepare
<1>26. ASSUME NEW p \in Procs, PrepareDiagnosis(p) PROVE PlaceTraced'
    BY <1>26 DEF PrepareDiagnosis
<1>27. ASSUME NEW p \in Procs, FinishWork(p) PROVE PlaceTraced'
    BY <1>27 DEF FinishWork
<1>28. ASSUME NEW p \in Procs, Sweep(p) PROVE PlaceTraced'
    BY <1>28 DEF Sweep
<1> QED BY <1>1, <1>2, <1>3, <1>4, <1>5, <1>6, <1>7, <1>8, <1>9, <1>10, <1>11, <1>12, <1>13, <1>14,
    <1>15, <1>16, <1>17, <1>18, <1>19, <1>20, <1>21, <1>22, <1>23, <1>24, <1>25, <1>26, <1>27, <1>28
    DEF LayoutNext, ProcessStep

(* What is put aside will be removed or put back.                           *)
LEMMA NextAsideTraced ==
    ASSUME LayoutAssumption, LayoutInv, LayoutNext, ~dirty, ~dirty'
    PROVE AsideTraced'
<1> USE DEF LayoutAssumption, LayoutInv, LayoutTypeOK, TraceInv, JournalInv, Creating, AsideTraced
<1> USE DEF To, Proceed, Take, Release, End, Opened, path, content, local, budget
<1>1. CASE Replace
    BY <1>1 DEF Replace
<1>2. ASSUME NEW p \in Procs, Start(p) PROVE AsideTraced'
    BY <1>2 DEF Start
<1>3. ASSUME NEW p \in Procs, Kill(p) PROVE AsideTraced'
    BY <1>3 DEF Kill
<1>4. ASSUME NEW p \in Procs, OpenPath(p) PROVE AsideTraced'
    BY <1>4 DEF OpenPath
<1>5. ASSUME NEW p \in Procs, OpenExisting(p) PROVE AsideTraced'
    BY <1>5 DEF OpenExisting
<1>6. ASSUME NEW p \in Procs, Create(p) PROVE AsideTraced'
    BY <1>6, FreshUnborn DEF Create
<1>7. ASSUME NEW p \in Procs, Rename(p) PROVE AsideTraced'
    BY <1>7 DEF Rename
<1>8. ASSUME NEW p \in Procs, Sync(p) PROVE AsideTraced'
    BY <1>8 DEF Sync
<1>9. ASSUME NEW p \in Procs, Flock(p) PROVE AsideTraced'
    BY <1>9 DEF Flock
<1>10. ASSUME NEW p \in Procs, Adopt(p) PROVE AsideTraced'
    BY <1>10 DEF Adopt
<1>11. ASSUME NEW p \in Procs, Check(p) PROVE AsideTraced'
    BY <1>11 DEF Check
<1>12. ASSUME NEW p \in Procs, Fill(p) PROVE AsideTraced'
    BY <1>12 DEF Fill
<1>13. ASSUME NEW p \in Procs, FillEnds(p) PROVE AsideTraced'
    BY <1>13 DEF FillEnds
<1>14. ASSUME NEW p \in Procs, Unfill(p) PROVE AsideTraced'
    BY <1>14 DEF Unfill
<1>15. ASSUME NEW p \in Procs, UnfillEnds(p) PROVE AsideTraced'
    BY <1>15 DEF UnfillEnds, RestoreMode
<1>16. ASSUME NEW p \in Procs, Unmake(p) PROVE AsideTraced'
    BY <1>16 DEF Unmake
<1>17. ASSUME NEW p \in Procs, Move(p) PROVE AsideTraced'
    BY <1>17 DEF Move, AfterMove
<1>18. ASSUME NEW p \in Procs, MoveBack(p) PROVE AsideTraced'
    BY <1>18 DEF MoveBack
<1>19. ASSUME NEW p \in Procs, Rmdir(p) PROVE AsideTraced'
    BY <1>19 DEF Rmdir
<1>20. ASSUME NEW p \in Procs, Inspect(p) PROVE AsideTraced'
    BY <1>20 DEF Inspect
<1>21. ASSUME NEW p \in Procs, Share(p) PROVE AsideTraced'
    BY <1>21 DEF Share
<1>22. ASSUME NEW p \in Procs, Acquire(p) PROVE AsideTraced'
    BY <1>22 DEF Acquire, Acquirable
<1>23. ASSUME NEW p \in Procs, RemoveStale(p) PROVE AsideTraced'
    BY <1>23 DEF RemoveStale
<1>24. ASSUME NEW p \in Procs, Cleaned(p) PROVE AsideTraced'
    BY <1>24 DEF Cleaned
<1>25. ASSUME NEW p \in Procs, Prepare(p) PROVE AsideTraced'
    BY <1>25 DEF Prepare
<1>26. ASSUME NEW p \in Procs, PrepareDiagnosis(p) PROVE AsideTraced'
    BY <1>26 DEF PrepareDiagnosis
<1>27. ASSUME NEW p \in Procs, FinishWork(p) PROVE AsideTraced'
    BY <1>27 DEF FinishWork
<1>28. ASSUME NEW p \in Procs, Sweep(p) PROVE AsideTraced'
    BY <1>28 DEF Sweep
<1> QED BY <1>1, <1>2, <1>3, <1>4, <1>5, <1>6, <1>7, <1>8, <1>9, <1>10, <1>11, <1>12, <1>13, <1>14,
    <1>15, <1>16, <1>17, <1>18, <1>19, <1>20, <1>21, <1>22, <1>23, <1>24, <1>25, <1>26, <1>27, <1>28
    DEF LayoutNext, ProcessStep

(* A temporary file has a run that will remove it.                          *)
LEMMA NextTmpTraced ==
    ASSUME LayoutAssumption, LayoutInv, LayoutNext, ~dirty, ~dirty'
    PROVE TmpTraced'
<1> USE DEF LayoutAssumption, LayoutInv, LayoutTypeOK, TraceInv, RunInv, RunsAlone, TmpTraced
<1> USE DEF To, Proceed, Take, Release, End, Opened, path, content, local, budget
<1>1. CASE Replace
    BY <1>1 DEF Replace
<1>2. ASSUME NEW p \in Procs, Start(p) PROVE TmpTraced'
    BY <1>2 DEF Start
<1>3. ASSUME NEW p \in Procs, Kill(p) PROVE TmpTraced'
    BY <1>3 DEF Kill
<1>4. ASSUME NEW p \in Procs, OpenPath(p) PROVE TmpTraced'
    BY <1>4 DEF OpenPath
<1>5. ASSUME NEW p \in Procs, OpenExisting(p) PROVE TmpTraced'
    BY <1>5 DEF OpenExisting
<1>6. ASSUME NEW p \in Procs, Create(p) PROVE TmpTraced'
    BY <1>6 DEF Create
<1>7. ASSUME NEW p \in Procs, Rename(p) PROVE TmpTraced'
    BY <1>7 DEF Rename
<1>8. ASSUME NEW p \in Procs, Sync(p) PROVE TmpTraced'
    BY <1>8 DEF Sync
<1>9. ASSUME NEW p \in Procs, Flock(p) PROVE TmpTraced'
    BY <1>9 DEF Flock
<1>10. ASSUME NEW p \in Procs, Adopt(p) PROVE TmpTraced'
    BY <1>10 DEF Adopt
<1>11. ASSUME NEW p \in Procs, Check(p) PROVE TmpTraced'
    BY <1>11 DEF Check
<1>12. ASSUME NEW p \in Procs, Fill(p) PROVE TmpTraced'
    BY <1>12 DEF Fill
<1>13. ASSUME NEW p \in Procs, FillEnds(p) PROVE TmpTraced'
    BY <1>13 DEF FillEnds
<1>14. ASSUME NEW p \in Procs, Unfill(p) PROVE TmpTraced'
    BY <1>14 DEF Unfill
<1>15. ASSUME NEW p \in Procs, UnfillEnds(p) PROVE TmpTraced'
    BY <1>15 DEF UnfillEnds, RestoreMode
<1>16. ASSUME NEW p \in Procs, Unmake(p) PROVE TmpTraced'
    BY <1>16 DEF Unmake
<1>17. ASSUME NEW p \in Procs, Move(p) PROVE TmpTraced'
    BY <1>17 DEF Move, AfterMove
<1>18. ASSUME NEW p \in Procs, MoveBack(p) PROVE TmpTraced'
    BY <1>18 DEF MoveBack
<1>19. ASSUME NEW p \in Procs, Rmdir(p) PROVE TmpTraced'
    BY <1>19 DEF Rmdir
<1>20. ASSUME NEW p \in Procs, Inspect(p) PROVE TmpTraced'
    BY <1>20 DEF Inspect
<1>21. ASSUME NEW p \in Procs, Share(p) PROVE TmpTraced'
    BY <1>21 DEF Share
<1>22. ASSUME NEW p \in Procs, Acquire(p) PROVE TmpTraced'
    BY <1>22 DEF Acquire, Acquirable
<1>23. ASSUME NEW p \in Procs, RemoveStale(p) PROVE TmpTraced'
  <2>1. \A r \in Roots : tmp'[r] \subseteq tmp[r]
    <3>1. CASE dirty' = (dirty \/ tmp' # tmp)
      <4>1. tmp' = tmp
        BY <3>1
      <4> QED BY <4>1
    <3>2. CASE UNCHANGED <<holder, step, local, dirty>>
      BY <1>23, <3>2 DEF RemoveStale
    <3> QED BY <1>23, <3>1, <3>2 DEF RemoveStale
  <2>2. \A x \in Procs : step[x] \in {"running", "sweep"} => step'[x] = step[x] /\ dir'[x] = dir[x]
    BY <1>23 DEF RemoveStale
  <2> QED BY <2>1, <2>2
<1>24. ASSUME NEW p \in Procs, Cleaned(p) PROVE TmpTraced'
    BY <1>24 DEF Cleaned
<1>25. ASSUME NEW p \in Procs, Prepare(p) PROVE TmpTraced'
    BY <1>25 DEF Prepare
<1>26. ASSUME NEW p \in Procs, PrepareDiagnosis(p) PROVE TmpTraced'
    BY <1>26 DEF PrepareDiagnosis
<1>27. ASSUME NEW p \in Procs, FinishWork(p) PROVE TmpTraced'
    BY <1>27 DEF FinishWork
<1>28. ASSUME NEW p \in Procs, Sweep(p) PROVE TmpTraced'
    BY <1>28 DEF Sweep
<1> QED BY <1>1, <1>2, <1>3, <1>4, <1>5, <1>6, <1>7, <1>8, <1>9, <1>10, <1>11, <1>12, <1>13, <1>14,
    <1>15, <1>16, <1>17, <1>18, <1>19, <1>20, <1>21, <1>22, <1>23, <1>24, <1>25, <1>26, <1>27, <1>28
    DEF LayoutNext, ProcessStep

(* A directory of others is whole, untouched, or being filled.              *)
LEMMA NextTheirsTraced ==
    ASSUME LayoutAssumption, LayoutInv, LayoutNext, ~dirty, ~dirty'
    PROVE TheirsTraced'
<1> USE DEF LayoutAssumption, LayoutInv, LayoutTypeOK, TraceInv, PlaceTraced, BirthInv, JournalInv, LockInv, FillInv,
    TheirsTraced, AcceptedLayout, Complete, Filling
<1> USE DEF To, Proceed, Take, Release, End, Opened, path, content, local, budget
<1>1. CASE Replace
    BY <1>1 DEF Replace
<1>2. ASSUME NEW p \in Procs, Start(p) PROVE TheirsTraced'
    BY <1>2 DEF Start
<1>3. ASSUME NEW p \in Procs, Kill(p) PROVE TheirsTraced'
    BY <1>3 DEF Kill
<1>4. ASSUME NEW p \in Procs, OpenPath(p) PROVE TheirsTraced'
    BY <1>4 DEF OpenPath
<1>5. ASSUME NEW p \in Procs, OpenExisting(p) PROVE TheirsTraced'
    BY <1>5 DEF OpenExisting
<1>6. ASSUME NEW p \in Procs, Create(p) PROVE TheirsTraced'
    BY <1>6, FreshUnborn DEF Create
<1>7. ASSUME NEW p \in Procs, Rename(p) PROVE TheirsTraced'
    BY <1>7 DEF Rename
<1>8. ASSUME NEW p \in Procs, Sync(p) PROVE TheirsTraced'
    BY <1>8 DEF Sync
<1>9. ASSUME NEW p \in Procs, Flock(p) PROVE TheirsTraced'
    BY <1>9 DEF Flock, Creating
<1>10. ASSUME NEW p \in Procs, Adopt(p) PROVE TheirsTraced'
    BY <1>10 DEF Adopt, Empty, Owning, Before
<1>11. ASSUME NEW p \in Procs, Check(p) PROVE TheirsTraced'
    BY <1>11 DEF Check
<1>12. ASSUME NEW p \in Procs, Fill(p) PROVE TheirsTraced'
    BY <1>12 DEF Fill, Before, Owning
<1>13. ASSUME NEW p \in Procs, FillEnds(p) PROVE TheirsTraced'
    BY <1>13 DEF FillEnds
<1>14. ASSUME NEW p \in Procs, Unfill(p) PROVE TheirsTraced'
    BY <1>14 DEF Unfill, Before, Owning
<1>15. ASSUME NEW p \in Procs, UnfillEnds(p) PROVE TheirsTraced'
    BY <1>15 DEF UnfillEnds, RestoreMode, Owning
<1>16. ASSUME NEW p \in Procs, Unmake(p) PROVE TheirsTraced'
    BY <1>16 DEF Unmake
<1>17. ASSUME NEW p \in Procs, Move(p) PROVE TheirsTraced'
    BY <1>17 DEF Move, AfterMove
<1>18. ASSUME NEW p \in Procs, MoveBack(p) PROVE TheirsTraced'
    BY <1>18 DEF MoveBack
<1>19. ASSUME NEW p \in Procs, Rmdir(p) PROVE TheirsTraced'
    BY <1>19 DEF Rmdir
<1>20. ASSUME NEW p \in Procs, Inspect(p) PROVE TheirsTraced'
    BY <1>20 DEF Inspect
<1>21. ASSUME NEW p \in Procs, Share(p) PROVE TheirsTraced'
    BY <1>21 DEF Share
<1>22. ASSUME NEW p \in Procs, Acquire(p) PROVE TheirsTraced'
    BY <1>22 DEF Acquire, Acquirable
<1>23. ASSUME NEW p \in Procs, RemoveStale(p) PROVE TheirsTraced'
    BY <1>23 DEF RemoveStale
<1>24. ASSUME NEW p \in Procs, Cleaned(p) PROVE TheirsTraced'
    BY <1>24 DEF Cleaned
<1>25. ASSUME NEW p \in Procs, Prepare(p) PROVE TheirsTraced'
    BY <1>25 DEF Prepare
<1>26. ASSUME NEW p \in Procs, PrepareDiagnosis(p) PROVE TheirsTraced'
    BY <1>26 DEF PrepareDiagnosis
<1>27. ASSUME NEW p \in Procs, FinishWork(p) PROVE TheirsTraced'
    BY <1>27 DEF FinishWork
<1>28. ASSUME NEW p \in Procs, Sweep(p) PROVE TheirsTraced'
    BY <1>28 DEF Sweep
<1> QED BY <1>1, <1>2, <1>3, <1>4, <1>5, <1>6, <1>7, <1>8, <1>9, <1>10, <1>11, <1>12, <1>13, <1>14,
    <1>15, <1>16, <1>17, <1>18, <1>19, <1>20, <1>21, <1>22, <1>23, <1>24, <1>25, <1>26, <1>27, <1>28
    DEF LayoutNext, ProcessStep

(* A step of a process that has no directory to finish.                     *)
LEMMA OursStay ==
    ASSUME OursTraced, NEW p \in Procs, p \notin made, step[p] # "rmdir",
           \A q \in Procs \ {p} : /\ step'[q] = step[q] /\ dir'[q] = dir[q] /\ taken'[q] = taken[q]
                                  /\ q \in made => q \in made',
           UNCHANGED <<ours, layout, stray, foreign, gone>>, secured \subseteq secured',
           step'[p] \in Filling => step[p] \in Filling /\ dir'[p] = dir[p]
    PROVE  OursTraced'
<1>1. ASSUME NEW r, InWork(r) PROVE InWork(r)'
    BY <1>1 DEF InWork
<1>2. ASSUME NEW r \in ours PROVE (AcceptedLayout(r) \/ r \in gone \/ InWork(r))'
    BY <1>1 DEF OursTraced, AcceptedLayout, Complete
<1>3. ASSUME NEW q \in Procs, step'[q] \in Filling, dir'[q] \in ours'
      PROVE  (dir[q] \in gone \/ InWork(dir[q]))'
  <2>1. step[q] \in Filling /\ dir'[q] = dir[q]
      BY <1>3
  <2>2. CASE dir[q] \in gone
      BY <2>1, <2>2
  <2>3. CASE InWork(dir[q])
      BY <1>1, <2>1, <2>3 DEF InWork
  <2> QED BY <1>3, <2>1, <2>2, <2>3 DEF OursTraced
<1> QED BY <1>2, <1>3 DEF OursTraced

(* A directory of the program is whole, gone, or its creator's work.        *)
LEMMA NextOursTraced ==
    ASSUME LayoutAssumption, LayoutInv, LayoutNext, ~dirty, ~dirty'
    PROVE OursTraced'
<1> USE DEF LayoutAssumption, LayoutInv, LayoutTypeOK, TraceInv, JournalInv
<1> USE DEF To, Proceed, Take, Release, End, Opened, path, content, local, budget
<1>1. CASE Replace
    BY <1>1 DEF Replace, BirthInv, LockInv, FillInv, OursTraced, InWork, AcceptedLayout, Complete, Filling
<1>2. ASSUME NEW p \in Procs, Start(p) PROVE OursTraced'
    BY <1>2 DEF Start, BirthInv, LockInv, FillInv, OursTraced, InWork, AcceptedLayout, Complete, Filling
<1>3. ASSUME NEW p \in Procs, Kill(p) PROVE OursTraced'
    BY <1>3 DEF Kill, BirthInv, LockInv, FillInv, OursTraced, InWork, AcceptedLayout, Complete, Filling
<1>4. ASSUME NEW p \in Procs, OpenPath(p) PROVE OursTraced'
  <2>1. p \notin made /\ step[p] # "rmdir" /\ step'[p] \notin Filling
    BY <1>4 DEF OpenPath, Creating, Filling
  <2>2. /\ UNCHANGED <<ours, layout, stray, foreign, gone, secured>>
        /\ \A q \in Procs \ {p} : /\ step'[q] = step[q] /\ dir'[q] = dir[q] /\ taken'[q] = taken[q]
                                  /\ q \in made => q \in made'
    BY <1>4 DEF OpenPath
  <2> QED BY <2>1, <2>2, OursStay
<1>5. ASSUME NEW p \in Procs, OpenExisting(p) PROVE OursTraced'
  <2>1. p \notin made /\ step[p] # "rmdir" /\ step'[p] \notin Filling
    BY <1>5 DEF OpenExisting, Creating, Filling
  <2>2. /\ UNCHANGED <<ours, layout, stray, foreign, gone, secured>>
        /\ \A q \in Procs \ {p} : /\ step'[q] = step[q] /\ dir'[q] = dir[q] /\ taken'[q] = taken[q]
                                  /\ q \in made => q \in made'
    BY <1>5 DEF OpenExisting
  <2> QED BY <2>1, <2>2, OursStay
<1>6. ASSUME NEW p \in Procs, Create(p) PROVE OursTraced'
  <2>1. p \notin made /\ step[p] # "rmdir" /\ step'[p] \notin Filling
    BY <1>6 DEF Create, Creating, Filling
  <2>2. CASE End(p) /\ UNCHANGED <<path, secured>>
    <3>1. /\ UNCHANGED <<ours, layout, stray, foreign, gone, secured>>
          /\ \A q \in Procs \ {p} : /\ step'[q] = step[q] /\ dir'[q] = dir[q] /\ taken'[q] = taken[q]
                                    /\ q \in made => q \in made'
      BY <1>6, <2>2 DEF Create
    <3> QED BY <2>1, <3>1, OursStay
  <2>3. CASE ~(End(p) /\ UNCHANGED <<path, secured>>)
    <3>1. /\ ours' = ours \cup {Fresh} /\ secured \subseteq secured'
          /\ UNCHANGED <<layout, stray, foreign, gone, taken>>
          /\ step' = [step EXCEPT ![p] = "rename"] /\ dir' = [dir EXCEPT ![p] = Fresh] /\ made' = made \cup {p}
      BY <1>6, <2>3 DEF Create
    <3>2. \A r \in ours : InWork(r) => InWork(r)'
      BY <2>1, <3>1 DEF InWork
    <3>3. \A r \in ours : AcceptedLayout(r) => AcceptedLayout(r)'
      BY <3>1 DEF AcceptedLayout, Complete
    <3>4. p \in made' /\ dir'[p] = Fresh /\ step'[p] = "rename"
      BY <3>1
    <3>5. \A q \in Procs : step'[q] \in Filling => /\ q # p /\ step[q] \in Filling
                                               /\ dir'[q] = dir[q] /\ dir[q] # Fresh
      BY <1>6, <2>1, <3>1, FreshUnborn DEF Create, BirthInv, Filling, Before
    <3>6. ASSUME NEW r \in ours' PROVE (AcceptedLayout(r) \/ r \in gone \/ InWork(r))'
      <4>1. CASE r = Fresh
        BY <3>4, <4>1 DEF InWork
      <4>2. CASE r \in ours
        BY <3>1, <3>2, <3>3, <4>2 DEF OursTraced
      <4> QED BY <3>1, <3>6, <4>1, <4>2
    <3>7. ASSUME NEW q \in Procs, step'[q] \in Filling, dir'[q] \in ours'
          PROVE  (dir[q] \in gone \/ InWork(dir[q]))'
      <4>1. dir[q] \in ours /\ dir'[q] = dir[q] /\ step[q] \in Filling
        BY <3>1, <3>5, <3>7
      <4>2. dir[q] \in gone \/ InWork(dir[q])
        BY <4>1 DEF OursTraced
      <4>3. InWork(dir[q]) => InWork(dir[q])'
        BY <3>2, <4>1 DEF InWork
      <4> QED BY <3>1, <4>1, <4>2, <4>3
    <3> QED BY <3>6, <3>7 DEF OursTraced
  <2> QED BY <2>2, <2>3
<1>7. ASSUME NEW p \in Procs, Rename(p) PROVE OursTraced'
    BY <1>7 DEF Rename, BirthInv, LockInv, FillInv, OursTraced, InWork, AcceptedLayout, Complete, Filling
<1>8. ASSUME NEW p \in Procs, Sync(p) PROVE OursTraced'
    BY <1>8 DEF Sync, BirthInv, LockInv, FillInv, OursTraced, InWork, AcceptedLayout, Complete, Filling
<1>9. ASSUME NEW p \in Procs, Flock(p) PROVE OursTraced'
    BY <1>9 DEF Flock, Creating, BirthInv, LockInv, FillInv, OursTraced, InWork, AcceptedLayout,
        Complete, Filling
<1>10. ASSUME NEW p \in Procs, Adopt(p) PROVE OursTraced'
  <2>1. /\ UNCHANGED <<ours, layout, stray, foreign, gone>> /\ secured \subseteq secured'
        /\ \A q \in Procs \ {p} : /\ step'[q] = step[q] /\ dir'[q] = dir[q] /\ taken'[q] = taken[q]
                                  /\ q \in made => q \in made'
    BY <1>10 DEF Adopt
  <2>2. p \notin made /\ step[p] # "rmdir" /\ dir[p] \in Roots
    BY <1>10 DEF Adopt, Creating, Filling, Before
  <2>3. CASE step'[p] \notin Filling
    BY <2>1, <2>2, <2>3, OursStay
  <2>4. CASE step'[p] \in Filling
    <3>1. Empty(dir[p]) /\ dir' = dir
      BY <1>10, <2>4 DEF Adopt, Filling
    <3>2. ~AcceptedLayout(dir[p])
      BY <3>1 DEF Empty, AcceptedLayout, Complete
    <3>3. \A r \in ours : InWork(r) => InWork(r)'
      BY <2>1, <2>2 DEF InWork
    <3>4. \A r \in ours : AcceptedLayout(r) => AcceptedLayout(r)'
      BY <2>1 DEF AcceptedLayout, Complete
    <3> QED BY <2>1, <3>1, <3>2, <3>3, <3>4 DEF OursTraced
  <2> QED BY <2>3, <2>4
<1>11. ASSUME NEW p \in Procs, Check(p) PROVE OursTraced'
  <2>1. /\ UNCHANGED <<ours, layout, stray, foreign, gone, secured>>
        /\ \A q \in Procs \ {p} : /\ step'[q] = step[q] /\ dir'[q] = dir[q] /\ taken'[q] = taken[q]
                                  /\ q \in made => q \in made'
    BY <1>11 DEF Check
  <2>2. CASE p \notin made
    <3>1. step[p] # "rmdir" /\ step'[p] \notin Filling
      BY <1>11, <2>2 DEF Check, Filling
    <3> QED BY <2>1, <2>2, <3>1, OursStay
  <2>3. CASE p \in made /\ Proceed(p, "unmake")
    <3>1. \A r \in ours : InWork(r) => InWork(r)'
      BY <1>11, <2>1, <2>3 DEF Check, InWork
    <3>2. \A r \in ours : AcceptedLayout(r) => AcceptedLayout(r)'
      BY <2>1 DEF AcceptedLayout, Complete
    <3>3. \A q \in Procs : step'[q] \in Filling => step[q] \in Filling
      BY <2>3 DEF Filling
    <3>4. UNCHANGED dir
      BY <2>3
    <3> QED BY <2>1, <3>1, <3>2, <3>3, <3>4 DEF OursTraced
  <2>4. CASE p \in made /\ AcceptedLayout(dir[p])
    <3>1. AcceptedLayout(dir[p])' /\ dir[p] \in Roots /\ dir' = dir
      BY <1>11, <2>1, <2>4 DEF Check, AcceptedLayout, Complete, Before
    <3>2. \A q \in Procs : step'[q] \in Filling => q # p /\ dir[q] # dir[p]
      BY <1>11 DEF Check, LockInv, Owning, Filling
    <3>3. \A r \in ours : r # dir[p] /\ InWork(r) => InWork(r)'
      BY <1>11, <2>1 DEF Check, InWork
    <3>4. \A r \in ours : AcceptedLayout(r) => AcceptedLayout(r)'
      BY <2>1 DEF AcceptedLayout, Complete
    <3>5. \A q \in Procs \ {p} : step'[q] = step[q] /\ dir'[q] = dir[q]
      BY <2>1
    <3>6. ASSUME NEW q \in Procs, step'[q] \in Filling, dir'[q] \in ours'
          PROVE  (dir[q] \in gone \/ InWork(dir[q]))'
      <4>1. q # p /\ dir[q] # dir[p] /\ dir'[q] = dir[q] /\ dir[q] \in ours /\ step[q] \in Filling
        BY <2>1, <3>2, <3>5, <3>6
      <4>2. dir[q] \in gone \/ InWork(dir[q])
        BY <4>1 DEF OursTraced
      <4>3. InWork(dir[q]) => InWork(dir[q])'
        BY <3>3, <4>1 DEF InWork
      <4> QED BY <2>1, <4>1, <4>2, <4>3
    <3>7. ASSUME NEW r \in ours' PROVE (AcceptedLayout(r) \/ r \in gone \/ InWork(r))'
      <4>1. CASE r = dir[p]
        BY <3>1, <4>1 DEF AcceptedLayout, Complete
      <4>2. CASE r # dir[p]
        BY <2>1, <3>3, <3>4, <3>7, <4>2 DEF OursTraced
      <4> QED BY <4>1, <4>2
    <3> QED BY <2>1, <3>6, <3>7 DEF OursTraced
  <2> QED BY <1>11, <2>2, <2>3, <2>4 DEF Check
<1>12. ASSUME NEW p \in Procs, Fill(p) PROVE OursTraced'
    BY <1>12 DEF Fill, Before, Owning, BirthInv, LockInv, FillInv, OursTraced, InWork, AcceptedLayout,
        Complete, Filling
<1>13. ASSUME NEW p \in Procs, FillEnds(p) PROVE OursTraced'
    BY <1>13 DEF FillEnds, BirthInv, LockInv, FillInv, OursTraced, InWork, AcceptedLayout, Complete,
        Filling
<1>14. ASSUME NEW p \in Procs, Unfill(p) PROVE OursTraced'
    BY <1>14 DEF Unfill, Before, Owning, BirthInv, LockInv, FillInv, OursTraced, InWork,
        AcceptedLayout, Complete, Filling
<1>15. ASSUME NEW p \in Procs, UnfillEnds(p) PROVE OursTraced'
    BY <1>15 DEF UnfillEnds, RestoreMode, Owning, BirthInv, LockInv, FillInv, OursTraced,
        InWork, AcceptedLayout, Complete, Filling
<1>16. ASSUME NEW p \in Procs, Unmake(p) PROVE OursTraced'
    BY <1>16 DEF Unmake, BirthInv, LockInv, FillInv, OursTraced, InWork, AcceptedLayout, Complete, Filling
<1>17. ASSUME NEW p \in Procs, Move(p) PROVE OursTraced'
  <2>1. name = dir[p] /\ p \in made /\ dir[p] \in Roots
    BY <1>17 DEF Move, PlaceTraced, Creating, Before
  <2>2. ~End(p)
    BY <1>17, <2>1 DEF Move
  <2>3. /\ UNCHANGED <<ours, layout, stray, foreign, gone, secured, made, dir>>
        /\ step' = [step EXCEPT ![p] = "rmdir"] /\ taken' = [taken EXCEPT ![p] = dir[p]]
    BY <1>17, <2>1, <2>2 DEF Move, AfterMove
  <2>4. \A r \in ours : InWork(r) => InWork(r)'
    BY <1>17, <2>3 DEF Move, InWork
  <2>5. \A r \in ours : AcceptedLayout(r) => AcceptedLayout(r)'
    BY <2>3 DEF AcceptedLayout, Complete
  <2>6. \A q \in Procs : step'[q] \in Filling => step[q] \in Filling
    BY <2>3 DEF Filling
  <2> QED BY <2>3, <2>4, <2>5, <2>6 DEF OursTraced
<1>18. ASSUME NEW p \in Procs, MoveBack(p) PROVE OursTraced'
    BY <1>18 DEF MoveBack, BirthInv, LockInv, FillInv, OursTraced, InWork, AcceptedLayout, Complete,
        Filling
<1>19. ASSUME NEW p \in Procs, Rmdir(p) PROVE OursTraced'
    BY <1>19 DEF Rmdir, BirthInv, LockInv, FillInv, OursTraced, InWork, AcceptedLayout, Complete, Filling
<1>20. ASSUME NEW p \in Procs, Inspect(p) PROVE OursTraced'
  <2>1. p \notin made /\ step[p] # "rmdir" /\ step'[p] \notin Filling
    BY <1>20 DEF Inspect, Creating, Filling
  <2>2. /\ UNCHANGED <<ours, layout, stray, foreign, gone, secured>>
        /\ \A q \in Procs \ {p} : /\ step'[q] = step[q] /\ dir'[q] = dir[q] /\ taken'[q] = taken[q]
                                  /\ q \in made => q \in made'
    BY <1>20 DEF Inspect
  <2> QED BY <2>1, <2>2, OursStay
<1>21. ASSUME NEW p \in Procs, Share(p) PROVE OursTraced'
  <2>1. p \notin made /\ step[p] # "rmdir" /\ step'[p] \notin Filling
    BY <1>21 DEF Share, Creating, Filling
  <2>2. /\ UNCHANGED <<ours, layout, stray, foreign, gone, secured>>
        /\ \A q \in Procs \ {p} : /\ step'[q] = step[q] /\ dir'[q] = dir[q] /\ taken'[q] = taken[q]
                                  /\ q \in made => q \in made'
    BY <1>21 DEF Share
  <2> QED BY <2>1, <2>2, OursStay
<1>22. ASSUME NEW p \in Procs, Acquire(p) PROVE OursTraced'
  <2>1. p \notin made /\ step[p] # "rmdir" /\ step'[p] \notin Filling
    BY <1>22 DEF Acquire, Acquirable, Creating, Filling
  <2>2. /\ UNCHANGED <<ours, layout, stray, foreign, gone, secured>>
        /\ \A q \in Procs \ {p} : /\ step'[q] = step[q] /\ dir'[q] = dir[q] /\ taken'[q] = taken[q]
                                  /\ q \in made => q \in made'
    BY <1>22 DEF Acquire, Acquirable
  <2> QED BY <2>1, <2>2, OursStay
<1>23. ASSUME NEW p \in Procs, RemoveStale(p) PROVE OursTraced'
  <2>1. p \notin made /\ step[p] # "rmdir" /\ step'[p] \notin Filling
    BY <1>23 DEF RemoveStale, Creating, Filling
  <2>2. /\ UNCHANGED <<ours, layout, stray, foreign, gone, secured>>
        /\ \A q \in Procs \ {p} : /\ step'[q] = step[q] /\ dir'[q] = dir[q] /\ taken'[q] = taken[q]
                                  /\ q \in made => q \in made'
    BY <1>23 DEF RemoveStale
  <2> QED BY <2>1, <2>2, OursStay
<1>24. ASSUME NEW p \in Procs, Cleaned(p) PROVE OursTraced'
    BY <1>24 DEF Cleaned, BirthInv, LockInv, FillInv, OursTraced, InWork, AcceptedLayout, Complete,
        Filling
<1>25. ASSUME NEW p \in Procs, Prepare(p) PROVE OursTraced'
  <2>1. p \notin made /\ step[p] # "rmdir" /\ step'[p] \notin Filling
    BY <1>25 DEF Prepare, Creating, Filling
  <2>2. /\ UNCHANGED <<ours, layout, stray, foreign, gone, secured>>
        /\ \A q \in Procs \ {p} : /\ step'[q] = step[q] /\ dir'[q] = dir[q] /\ taken'[q] = taken[q]
                                  /\ q \in made => q \in made'
    BY <1>25 DEF Prepare
  <2> QED BY <2>1, <2>2, OursStay
<1>26. ASSUME NEW p \in Procs, PrepareDiagnosis(p) PROVE OursTraced'
  <2>1. p \notin made /\ step[p] # "rmdir" /\ step'[p] \notin Filling
    BY <1>26 DEF PrepareDiagnosis, Creating, Filling
  <2>2. /\ UNCHANGED <<ours, layout, stray, foreign, gone, secured>>
        /\ \A q \in Procs \ {p} : /\ step'[q] = step[q] /\ dir'[q] = dir[q] /\ taken'[q] = taken[q]
                                  /\ q \in made => q \in made'
    BY <1>26 DEF PrepareDiagnosis
  <2> QED BY <2>1, <2>2, OursStay
<1>27. ASSUME NEW p \in Procs, FinishWork(p) PROVE OursTraced'
  <2>1. p \notin made /\ step[p] # "rmdir" /\ step'[p] \notin Filling
    BY <1>27 DEF FinishWork, Creating, Filling
  <2>2. /\ UNCHANGED <<ours, layout, stray, foreign, gone, secured>>
        /\ \A q \in Procs \ {p} : /\ step'[q] = step[q] /\ dir'[q] = dir[q] /\ taken'[q] = taken[q]
                                  /\ q \in made => q \in made'
    BY <1>27 DEF FinishWork
  <2> QED BY <2>1, <2>2, OursStay
<1>28. ASSUME NEW p \in Procs, Sweep(p) PROVE OursTraced'
  <2>1. p \notin made /\ step[p] # "rmdir" /\ step'[p] \notin Filling
    BY <1>28 DEF Sweep, Creating, Filling
  <2>2. /\ UNCHANGED <<ours, layout, stray, foreign, gone, secured>>
        /\ \A q \in Procs \ {p} : /\ step'[q] = step[q] /\ dir'[q] = dir[q] /\ taken'[q] = taken[q]
                                  /\ q \in made => q \in made'
    BY <1>28 DEF Sweep
  <2> QED BY <2>1, <2>2, OursStay
<1> QED BY <1>1, <1>2, <1>3, <1>4, <1>5, <1>6, <1>7, <1>8, <1>9, <1>10, <1>11, <1>12, <1>13, <1>14,
    <1>15, <1>16, <1>17, <1>18, <1>19, <1>20, <1>21, <1>22, <1>23, <1>24, <1>25, <1>26, <1>27, <1>28
    DEF LayoutNext, ProcessStep

-----------------------------------------------------------------------------
(* The path leads to nothing, to a directory of others, or to a workspace.  *)
LEMMA InitLayoutInv == LayoutAssumption /\ LayoutInit => LayoutInv
<1> SUFFICES ASSUME LayoutAssumption, LayoutInit PROVE LayoutInv
    OBVIOUS
<1>1. Roots # {}
    BY FS_EmptySet DEF LayoutAssumption
<1>2. PICK r \in Roots : r = CHOOSE x \in Roots : TRUE
    BY <1>1
<1>3. /\ name \in {r, Nil} /\ theirs \subseteq {r} /\ foreign \subseteq theirs
      /\ layout \in [Roots -> 0..Size] /\ secured \subseteq {r}
      /\ name = r => theirs = {r}
      /\ \A x \in Roots : x # r => layout[x] = 0
      /\ \A x \in foreign : layout[x] = 0 /\ x \notin secured
      /\ \A x \in theirs : (layout[x] = 0 /\ x \notin secured) \/ (layout[x] = Size /\ x \in secured /\ x \notin foreign)
      /\ theirs = {} => secured = {} /\ \A x \in Roots : layout[x] = 0
  <2> DEFINE Nothing == [x \in Roots |-> 0]
  <2>1. CASE name = Nil /\ theirs = {} /\ foreign = {} /\ layout = Nothing /\ secured = {}
      BY <1>2, <2>1 DEF LayoutAssumption
  <2>2. CASE name = r /\ theirs = {r} /\ foreign \in SUBSET {r} /\ layout = Nothing /\ secured = {}
      BY <1>2, <2>2 DEF LayoutAssumption
  <2>3. CASE name = r /\ theirs = {r} /\ foreign = {} /\ layout = [Nothing EXCEPT ![r] = Size] /\ secured = {r}
      BY <1>2, <2>3 DEF LayoutAssumption
  <2> QED BY <1>2, <2>1, <2>2, <2>3 DEF LayoutInit
<1>4. LayoutTypeOK
    BY <1>2, <1>3 DEF LayoutInit, LayoutTypeOK, LayoutSteps
<1>5. BirthInv
    BY <1>2, <1>3 DEF LayoutInit, BirthInv, Unborn
<1>6. JournalInv /\ LockInv /\ FillInv /\ RunInv
    BY DEF LayoutInit, JournalInv, LockInv, FillInv, RunInv, RunsAlone, NobodyStuck, LayoutAssumption,
        Before,
        Creating, Filling, Owning, WorkingSteps
<1>7. OthersUntouched
    BY <1>3 DEF LayoutInit, OthersUntouched, Empty
<1>8. TraceInv
    BY <1>2, <1>3 DEF LayoutInit, TraceInv, PlaceTraced, AsideTraced, TmpTraced, TheirsTraced, OursTraced,
        AcceptedLayout, Complete, Filling
<1> QED BY <1>4, <1>5, <1>6, <1>7, <1>8 DEF LayoutInv

(* What a kill, a failed removal or an outsider may have left is not forgotten. *)
LEMMA DirtyStays == LayoutNext /\ dirty => dirty'
<1> USE DEF path, content, local, budget
<1>1. ASSUME NEW p \in Procs, Start(p) \/ Kill(p), dirty PROVE dirty'
    BY <1>1 DEF Start, Kill
<1>2. ASSUME NEW p \in Procs, ProcessStep(p), dirty PROVE dirty'
    BY <1>2 DEF ProcessStep, OpenPath, OpenExisting, Create, Rename, Sync, Flock, Adopt, Check, Fill,
        FillEnds, Unfill,
        UnfillEnds, Unmake, Move, MoveBack, Rmdir, Inspect, Share, Acquire, RemoveStale, Cleaned, Prepare,
        PrepareDiagnosis, FinishWork, Sweep
<1>3. ASSUME Replace PROVE dirty'
    BY <1>3 DEF Replace
<1> QED BY <1>1, <1>2, <1>3 DEF LayoutNext

(* Every step keeps the inductive invariant.                                *)
LEMMA NextLayoutInv == LayoutAssumption /\ LayoutInv /\ [LayoutNext]_layoutVars => LayoutInv'
<1> SUFFICES ASSUME LayoutAssumption, LayoutInv, [LayoutNext]_layoutVars PROVE LayoutInv'
    OBVIOUS
<1>1. LayoutTypeOK' /\ BirthInv' /\ JournalInv' /\ LockInv' /\ FillInv' /\ OthersUntouched' /\ RunInv'
    BY NextLayoutTypeOK, NextBirthInv, NextJournalInv, NextLockInv, NextFillInv, NextOthersUntouched,
        NextRunInv
<1>2. CASE LayoutNext
  <2>1. ASSUME ~dirty' PROVE ~dirty
      BY <1>2, <2>1, DirtyStays
  <2> QED BY <1>1, <1>2, <2>1, NextPlace, NextAsideTraced, NextTmpTraced, NextTheirsTraced,
      NextOursTraced
        DEF LayoutInv, TraceInv
<1>3. CASE UNCHANGED layoutVars
  <2>1. TraceInv'
      BY <1>3 DEF LayoutInv, TraceInv, PlaceTraced, AsideTraced, TmpTraced, TheirsTraced, OursTraced,
          InWork, AcceptedLayout,
          Complete, layoutVars, path, content, local, budget
  <2> QED BY <1>1, <2>1 DEF LayoutInv
<1> QED BY <1>2, <1>3

(* Once all processes have ended or opened, nobody is left to see to anything. *)
LEMMA LayoutInvSound == LayoutAssumption /\ LayoutInv => WorkspaceSound
<1> SUFFICES ASSUME LayoutAssumption, LayoutInv PROVE WorkspaceSound
    OBVIOUS
<1>1. LayoutTypeOK /\ OthersUntouched /\ RunsAlone /\ NobodyStuck
    BY DEF LayoutInv, RunInv, LockInv
<1>2. TracesUndone
  <2> SUFFICES ASSUME ~dirty, \A p \in Procs : step[p] \in {"idle", "ended", "opened"} PROVE
          /\ aside = {} /\ stray = {}
          /\ \A r \in Roots : tmp[r] = {}
          /\ \A r \in theirs : AcceptedLayout(r) \/ (layout[r] = 0 /\ r \notin secured)
          /\ \A r \in ours : AcceptedLayout(r) \/ r \in gone
      BY DEF TracesUndone
  <2>1. \A p \in Procs : p \notin made /\ step[p] # "rmdir" /\ step[p] # "restore" /\ step[p] \notin Filling
                         /\ step[p] \notin {"running", "sweep"}
      BY DEF LayoutInv, JournalInv, Creating, Filling
  <2>2. \A r \in Roots : ~InWork(r)
      BY <2>1 DEF InWork
  <2> QED BY <2>1, <2>2 DEF LayoutInv, LayoutTypeOK, TraceInv, PlaceTraced, AsideTraced, TmpTraced, TheirsTraced,
      OursTraced
<1> QED BY <1>1, <1>2 DEF WorkspaceSound

(* Opening, creating, undoing and cleaning a workspace touches nothing of   *)
(* others, lets a run work alone, undoes what failed and keeps nobody       *)
(* waiting for a lock that is not released (_workspace.py).                 *)
THEOREM LayoutSound == LayoutSpec => []WorkspaceSound
<1>1. LayoutInit => LayoutInv
    BY LayoutConstants, InitLayoutInv
<1>2. LayoutInv /\ [LayoutNext]_layoutVars => LayoutInv'
    BY LayoutConstants, NextLayoutInv
<1>3. LayoutInv => WorkspaceSound
    BY LayoutConstants, LayoutInvSound
<1> QED BY <1>1, <1>2, <1>3, PTL DEF LayoutSpec
=============================================================================
