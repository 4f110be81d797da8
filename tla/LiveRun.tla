------------------------------ MODULE LiveRun ------------------------------
(***************************************************************************)
(* The main thread of one live run (application/live.py: execute,          *)
(* _execute_acquired_run, _run_stage and the handlers they share) from the *)
(* acquired workspace to the outcome it returns: the stages, the           *)
(* publication and its commit state, the diagnostics it writes, the        *)
(* cleanup of its temporary files, and a signal at any moment.             *)
(*                                                                         *)
(* The publication transaction is one step here with the answers that      *)
(* PublicationTransaction gives, a commit whose last fsync fails included. *)
(* Work inside a stage, error codes and the contents of events are left    *)
(* out; what every write and every cleanup may do to the control flow is   *)
(* kept.  While the signals are masked (pc = "transaction") a signal stays *)
(* pending.                                                                *)
(***************************************************************************)
EXTENDS Naturals

CONSTANT Ordinary   \* how many stages precede the build of the delivery

ASSUME OrdinaryAssumption == Ordinary \in Nat \ {0}

VARIABLES
    pc,         \* where the main thread is
    stage,      \* the number of the current stage
    cancelled,  \* the root token is cancelled
    pending,    \* a signal waits for the mask to be lifted
    captured,   \* _CommitState.committed
    noted,      \* _CommitState.interruption_recorded
    diag,       \* RunDiagnostics: "open", "finished", "incomplete" after the commit
    manifest,   \* the state run.json carries on disk
    ending,     \* the DiagnosticCompletion being formed
    recovery,   \* its recovery_incomplete
    uncertain,  \* the failure is publication.rollback_failed
    outcome,    \* the projected LiveRunOutcome
    delivery,   \* what `delivery/` holds: "old", "new", "unknown" if left exchanged
    journal,    \* a publication journal lies in the temporary directory
    temporary   \* the run's temporary directory still has files

signals == <<cancelled, pending>>
commit == <<captured, noted>>
written == <<diag, manifest>>
completion == <<ending, recovery, uncertain>>
disk == <<delivery, journal, temporary>>
vars == <<pc, stage, signals, commit, written, completion, outcome, disk>>

-----------------------------------------------------------------------------
Publishing == Ordinary + 3      \* build and verification come just before

Ended == {"returned", "exited"}
Handling == {"failure", "interrupted", "cleanup", "terminal"}
PC == {"input", "input_record", "initialize", "enter", "check", "effect", "transaction",
       "after", "record", "committed", "complete", "closing", "finish", "fallback",
       "teardown", "restore"} \cup Handling \cup Ended

States == {"succeeded", "failed", "interrupted"}
NoOutcome == [state |-> "none", diagnosticsIncomplete |-> FALSE, recoveryIncomplete |-> FALSE]
Outcomes == [state : States, diagnosticsIncomplete : BOOLEAN, recoveryIncomplete : BOOLEAN]

TypeOK ==
    /\ pc \in PC
    /\ stage \in 0 .. Publishing
    /\ cancelled \in BOOLEAN /\ pending \in BOOLEAN
    /\ captured \in BOOLEAN /\ noted \in BOOLEAN
    /\ diag \in {"open", "finished", "incomplete"}
    /\ manifest \in States \cup {"none"}
    /\ ending \in States \cup {"none"}
    /\ recovery \in BOOLEAN /\ uncertain \in BOOLEAN
    /\ outcome \in Outcomes \cup {NoOutcome}
    /\ delivery \in {"old", "new", "unknown"}
    /\ journal \in BOOLEAN /\ temporary \in BOOLEAN

\* The workspace was acquired; or the source was missing or unreadable, and a
\* workspace for diagnostics only was.
Init ==
    /\ pc \in {"initialize", "input"}
    /\ stage = 0
    /\ cancelled \in BOOLEAN /\ pending = FALSE
    /\ captured = FALSE /\ noted = FALSE
    /\ diag = "open" /\ manifest = "none"
    /\ ending = "none" /\ recovery = FALSE /\ uncertain = FALSE
    /\ outcome = NoOutcome
    /\ delivery = "old" /\ journal = FALSE /\ temporary = TRUE

-----------------------------------------------------------------------------
(* Helpers                                                                  *)

Goto(p) == pc' = p

\* Events appended before the commit: a failed append finishes the diagnostics
\* and its DiagnosticsFailure leaves every handler of the stage.
Appends(next) ==
    \/ Goto(next) /\ diag' = diag
    \/ Goto("fallback") /\ diag' = "finished"

\* After the commit a failed append is only remembered.
AppendsAfterCommit == diag' \in {diag, "incomplete"}

\* _cleanup_run: refused while a journal lies there or the directories are not
\* those the lease was acquired with; it may fail anyway.
CleanupSucceeds == ~journal /\ delivery # "unknown" /\ temporary' = FALSE
CleanupFails == temporary' = temporary

\* Lifting the mask delivers the pending signal.
Unmask == cancelled' = (cancelled \/ pending) /\ pending' = FALSE

Project(state, diagnosticsIncomplete, recoveryIncomplete) ==
    /\ outcome' = [state |-> state, diagnosticsIncomplete |-> diagnosticsIncomplete,
                   recoveryIncomplete |-> recoveryIncomplete]
    /\ Goto("teardown")

-----------------------------------------------------------------------------
(* The stages: _run_stage                                                   *)

Initialize ==
    /\ pc = "initialize"
    /\ stage' = 1
    /\ Goto("enter") \/ Goto("fallback")
    /\ UNCHANGED <<signals, commit, written, completion, outcome, disk>>

EnterStage ==
    /\ pc = "enter"
    /\ Appends("check")
    /\ UNCHANGED <<stage, signals, commit, manifest, completion, outcome, disk>>

CheckBeforeEffect ==
    /\ pc = "check"
    /\ Goto(IF cancelled THEN "interrupted" ELSE "effect")
    /\ UNCHANGED <<stage, signals, commit, written, completion, outcome, disk>>

StageReturns ==
    /\ pc = "effect"
    /\ stage # Publishing
    /\ Goto("after")
    /\ UNCHANGED <<stage, signals, commit, written, completion, outcome, disk>>

\* A module raises: its own failure, the cancellation, or a diagnostics failure.
\* The publication's own checks before its commit callback may raise as well.
StageRaises ==
    /\ pc = "effect"
    /\ \/ Goto("failure") /\ diag' = diag
       \/ cancelled /\ Goto("interrupted") /\ diag' = diag
       \/ Goto("fallback") /\ diag' = "finished"
    /\ UNCHANGED <<stage, signals, commit, manifest, completion, outcome, disk>>

\* _capture_publication masks the signals and looks at the token once more.
Capture ==
    /\ pc = "effect"
    /\ stage = Publishing
    /\ captured' = ~cancelled
    /\ Goto(IF cancelled THEN "interrupted" ELSE "transaction")
    /\ UNCHANGED <<stage, signals, noted, written, completion, outcome, disk>>

\* Fault: the proof is discarded whatever the effect did.
PublishUncaptured ==
    /\ pc = "transaction"
    /\ delivery' = "new"
    /\ captured' = FALSE
    /\ Unmask
    /\ Goto("after")
    /\ UNCHANGED <<stage, noted, written, completion, outcome, journal, temporary>>

TransactionPublishes ==
    /\ pc = "transaction"
    /\ delivery' = "new"
    /\ Unmask
    /\ Goto("after")
    /\ UNCHANGED <<stage, commit, written, completion, outcome, journal, temporary>>

\* Fault: the proof captured before the effect survives the effect's failure.
TransactionFailsCaptured ==
    /\ pc = "transaction"
    /\ Unmask
    /\ Goto("failure")
    /\ UNCHANGED <<stage, commit, written, completion, outcome, disk>>

\* The transaction was rolled back, on a failure or on a pending signal; or its
\* rollback failed and leaves the directories exchanged or not, with a journal
\* or, when the commit's own unlink of it could not be synced, without one.
TransactionFails ==
    /\ pc = "transaction"
    /\ captured' = FALSE
    /\ Unmask
    /\ \/ Goto("failure") /\ UNCHANGED <<uncertain, delivery, journal>>
       \/ pending /\ Goto("interrupted") /\ UNCHANGED <<uncertain, delivery, journal>>
       \/ /\ Goto("failure")
          /\ uncertain' = TRUE
          /\ journal' \in BOOLEAN
          /\ delivery' \in {"old", "unknown"}
    /\ UNCHANGED <<stage, noted, written, ending, recovery, outcome, temporary>>

\* A committed publication is not revoked by a cancellation.
CheckAfterEffect ==
    /\ pc = "after"
    /\ Goto(IF cancelled /\ ~captured THEN "interrupted"
            ELSE IF stage = Publishing /\ ~captured THEN "failure" ELSE "record")
    /\ UNCHANGED <<stage, signals, commit, written, completion, outcome, disk>>

\* The delivery fact; PublicationState.COMMITTED hands the proof to the diagnostics.
RecordSuccess ==
    /\ pc = "record"
    /\ IF stage = Publishing THEN AppendsAfterCommit /\ Goto("committed")
                             ELSE Appends("complete")
    /\ UNCHANGED <<stage, signals, commit, manifest, completion, outcome, disk>>

NoteInterruption ==
    /\ pc = "committed"
    /\ IF cancelled THEN noted' = TRUE /\ AppendsAfterCommit ELSE UNCHANGED <<noted, diag>>
    /\ Goto("complete")
    /\ UNCHANGED <<stage, signals, captured, manifest, completion, outcome, disk>>

CompleteStage ==
    /\ pc = "complete"
    /\ IF stage = Publishing
       THEN AppendsAfterCommit /\ Goto("closing") /\ ending' = "succeeded" /\ stage' = stage
       ELSE Appends("enter") /\ stage' = stage + 1 /\ ending' = ending
    /\ UNCHANGED <<signals, commit, manifest, recovery, uncertain, outcome, disk>>

\* Once committed, a cleanup that fails is reported and ends the diagnostics there.
CleanupAfterCommit ==
    /\ pc = "closing"
    /\ \/ CleanupSucceeds /\ Goto("finish") /\ UNCHANGED outcome
       \/ CleanupFails /\ Project("succeeded", TRUE, TRUE)
    /\ UNCHANGED <<stage, signals, commit, written, completion, delivery, journal>>

-----------------------------------------------------------------------------
(* A stage that ends the run                                                *)

\* A signal that has arrived by now takes precedence over the failure.
HandleFailure ==
    /\ pc = "failure"
    /\ IF captured THEN Goto("fallback") /\ UNCHANGED <<diag, ending>>
       ELSE IF cancelled THEN Goto("interrupted") /\ UNCHANGED <<diag, ending>>
       ELSE Appends("cleanup") /\ ending' = "failed"
    /\ UNCHANGED <<stage, signals, commit, manifest, recovery, uncertain, outcome, disk>>

HandleInterruption ==
    /\ pc = "interrupted"
    /\ IF captured THEN Goto("fallback") /\ UNCHANGED <<diag, ending>>
       ELSE Appends("cleanup") /\ ending' = "interrupted"
    /\ UNCHANGED <<stage, signals, commit, manifest, recovery, uncertain, outcome, disk>>

\* The cleanup's failure is recorded as an associated error.
CleanupBeforeTerminal ==
    /\ pc = "cleanup"
    /\ \/ /\ CleanupSucceeds
          /\ recovery' = (ending = "failed" /\ uncertain)
          /\ Goto("terminal") /\ diag' = diag
       \/ CleanupFails /\ recovery' = TRUE /\ Appends("terminal")
    /\ UNCHANGED <<stage, signals, commit, manifest, ending, uncertain, outcome, delivery, journal>>

\* The terminal diagnostics hook, then the stage's end.
EndStage ==
    /\ pc = "terminal"
    /\ \/ Appends("finish") /\ UNCHANGED outcome
       \/ Project(ending, TRUE, recovery) /\ diag' \in {diag, "finished"}
    /\ UNCHANGED <<stage, signals, commit, manifest, completion, disk>>

\* Fault: the projection does not look at what finish() returned or raised.
FinishUnchecked ==
    /\ pc = "finish"
    /\ diag' = "finished"
    /\ manifest' \in {manifest, ending}
    /\ Project(ending, FALSE, recovery)
    /\ UNCHANGED <<stage, signals, commit, completion, disk>>

\* RunDiagnostics.finish: the last event, then run.json.  A publication of
\* run.json that fails may have made it visible.
Finish ==
    /\ pc = "finish"
    /\ \/ /\ diag = "incomplete"
          /\ Project(ending, TRUE, recovery)
          /\ UNCHANGED manifest
       \/ /\ diag = "open"
          /\ \/ manifest' = ending /\ Project(ending, FALSE, recovery)
             \/ manifest' \in {manifest, ending} /\ Project(ending, TRUE, recovery)
    /\ diag' = "finished"
    /\ UNCHANGED <<stage, signals, commit, completion, disk>>

\* Fault: a cleanup that fails while the run is falling back is forgotten.
FallbackForgets ==
    /\ pc = "fallback"
    /\ CleanupSucceeds \/ CleanupFails
    /\ Project(IF captured THEN "succeeded" ELSE "failed", TRUE, FALSE)
    /\ UNCHANGED <<stage, signals, commit, written, completion, delivery, journal>>

\* _fallback_outcome, and execute's own clause for a run without a commit state.
Fallback ==
    /\ pc = "fallback"
    /\ LET state == IF captured THEN "succeeded" ELSE "failed"
       IN  \/ CleanupSucceeds /\ Project(state, TRUE, FALSE)
           \/ CleanupFails /\ Project(state, TRUE, TRUE)
    /\ UNCHANGED <<stage, signals, commit, written, completion, delivery, journal>>

-----------------------------------------------------------------------------
(* _execute_workspace_input_failure: cleanup comes first, then the signal   *)

CleanUnusableInput ==
    /\ pc = "input"
    /\ \/ CleanupSucceeds /\ recovery' = FALSE /\ Goto("input_record") /\ diag' = diag
       \/ CleanupFails /\ recovery' = TRUE /\ Goto("input_record") /\ diag' = diag
       \/ CleanupFails /\ Appends("fallback") /\ recovery' = recovery
    /\ UNCHANGED <<stage, signals, commit, manifest, ending, uncertain, outcome, delivery, journal>>

RecordUnusableInput ==
    /\ pc = "input_record"
    /\ ending' = IF cancelled THEN "interrupted" ELSE "failed"
    /\ Appends("finish")
    /\ UNCHANGED <<stage, signals, commit, manifest, recovery, uncertain, outcome, disk>>

-----------------------------------------------------------------------------
(* The end of execute: complete_cleanup, close, restore, and the signal     *)
(* that nobody recorded                                                     *)

Unrecorded == captured /\ cancelled /\ ~noted

Teardown ==
    /\ pc = "teardown"
    /\ \E closed \in BOOLEAN :
          outcome' = [outcome EXCEPT
                        !.diagnosticsIncomplete = @ \/ Unrecorded \/ ~closed,
                        !.recoveryIncomplete = @ \/ ~closed]
    /\ Goto("restore")
    /\ UNCHANGED <<stage, signals, commit, written, completion, disk>>

\* Fault: the signal is looked for only before the handlers are restored.
RestoreWithoutRecheck ==
    /\ pc = "restore"
    /\ \E restored \in BOOLEAN :
          outcome' = [outcome EXCEPT
                        !.diagnosticsIncomplete = @ \/ ~restored,
                        !.recoveryIncomplete = @ \/ ~restored]
    /\ Goto("returned")
    /\ UNCHANGED <<stage, signals, commit, written, completion, disk>>

Restore ==
    /\ pc = "restore"
    /\ \E restored \in BOOLEAN :
          outcome' = [outcome EXCEPT
                        !.diagnosticsIncomplete = @ \/ Unrecorded \/ ~restored,
                        !.recoveryIncomplete = @ \/ ~restored]
    /\ Goto("returned")
    /\ UNCHANGED <<stage, signals, commit, written, completion, disk>>

-----------------------------------------------------------------------------
(* Signals                                                                  *)

Signal ==
    /\ pc \notin Ended
    /\ ~cancelled /\ ~pending
    /\ IF pc = "transaction" THEN pending' = TRUE /\ UNCHANGED cancelled
                             ELSE cancelled' = TRUE /\ UNCHANGED pending
    /\ UNCHANGED <<pc, stage, commit, written, completion, outcome, disk>>

\* A second signal, or the watchdog of the first one, ends the process; its
\* best-effort cleanup may have got through.
ForcedExit ==
    /\ pc \notin Ended
    /\ cancelled
    /\ CleanupSucceeds \/ CleanupFails
    /\ Goto("exited")
    /\ UNCHANGED <<stage, signals, commit, written, completion, outcome, delivery, journal>>

-----------------------------------------------------------------------------
Step ==
    \/ Initialize \/ EnterStage \/ CheckBeforeEffect \/ StageReturns \/ StageRaises
    \/ Capture \/ TransactionPublishes \/ TransactionFails \/ CheckAfterEffect
    \/ RecordSuccess \/ NoteInterruption \/ CompleteStage \/ CleanupAfterCommit
    \/ HandleFailure \/ HandleInterruption \/ CleanupBeforeTerminal \/ EndStage
    \/ Finish \/ Fallback \/ CleanUnusableInput \/ RecordUnusableInput
    \/ Teardown \/ Restore

Next == Step \/ Signal \/ ForcedExit

Spec == Init /\ [][Next]_vars

-----------------------------------------------------------------------------
(* Properties                                                               *)

(* The outcome says what happened to `delivery/` (spec 7.2): succeeded if   *)
(* and only if the commit point was passed, whatever signals, diagnostics   *)
(* and cleanups did before and afterwards; and directories that a failed    *)
(* rollback left exchanged are reported as an incomplete recovery.          *)
OutcomeTruthful ==
    outcome # NoOutcome =>
        /\ outcome.state = "succeeded" <=> delivery = "new"
        /\ delivery = "unknown" => outcome.recoveryIncomplete

(* A run.json, complete or left behind by a failed or killed run, never     *)
(* contradicts the delivery directory or the outcome the run returns.       *)
ManifestTruthful ==
    manifest # "none" =>
        /\ manifest = "succeeded" <=> delivery = "new"
        /\ outcome # NoOutcome => outcome.state = manifest

(* A run that does not report incomplete diagnostics has its run.json.      *)
CompleteMeansPersisted ==
    pc = "returned" /\ ~outcome.diagnosticsIncomplete => manifest = outcome.state

(* A signal that arrived too late to interrupt a published run is on record *)
(* or the diagnostics are reported incomplete: it never vanishes, however   *)
(* late before the handlers are restored it came.                           *)
LateSignalAccounted ==
    pc = "returned" /\ delivery = "new" /\ cancelled =>
        noted \/ outcome.diagnosticsIncomplete

(* Whatever path a run took to its end, its temporary files are gone or the *)
(* outcome says that the recovery is incomplete (spec 7.5).                 *)
CleanOrFlagged ==
    pc = "returned" /\ ~outcome.recoveryIncomplete => ~temporary /\ ~journal
=============================================================================
