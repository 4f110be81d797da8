----------------------- MODULE PublicationTransaction -----------------------
(***************************************************************************)
(* The directory transaction that publishes a verified delivery            *)
(* (workspace/_workspace.py: _publish_delivery_directories, its journal,   *)
(* its rollback, and the recovery an acquiring process runs), together     *)
(* with the part of the run lifecycle that creates and removes the staging *)
(* directory the transaction moves.                                        *)
(*                                                                         *)
(* One process at a time holds the workspace lock, so the model has one    *)
(* program counter; a killed process leaves "idle" and the next one        *)
(* acquires.  The file system is `fs`; `disk` is every state of it that a  *)
(* loss of power may bring back: metadata reaches the disk in order (as an *)
(* ordered journalling file system does) and a successful fsync leaves     *)
(* only the present one.  Two consecutive fsyncs (workspace root, staging  *)
(* parent) are one step that may flush although one of them fails.         *)
(***************************************************************************)
CONSTANTS
    Dirs,               \* directory identities (device, inode)
    None,               \* no such entry
    Empty,              \* the value of a directory without entries
    Torn,               \* the value of a directory built or removed in part
    CleanupSyncMayFail  \* may the fsync after the commit's journal unlink fail?

ASSUME ConstantsAssumption ==
    /\ None \notin Dirs /\ Empty \notin Dirs /\ Torn \notin Dirs
    /\ Empty # Torn
    /\ CleanupSyncMayFail \in BOOLEAN

VARIABLES
    fs,         \* the namespace every process sees
    disk,       \* the namespaces a loss of power may leave
    pc,         \* where the process that holds the lock is
    txn,        \* the identities it bound for the transaction
    kept,       \* journal_identity is not None
    verdict,    \* the failure a rollback is going to report
    layout,     \* its snapshot of delivery/ and delivery.previous/
    signal,     \* a masked SIGINT/SIGTERM and when it arrived
    answer,     \* what the last publish call told its run
    start,      \* history: what both directories held when that call began
    asked       \* history: the staged directory that call was given

memory == <<pc, txn, kept, verdict, layout, signal>>
history == <<answer, start, asked>>
vars == <<fs, disk, memory, history>>

-----------------------------------------------------------------------------
(* Types                                                                    *)

Entry == Dirs \cup {None}
Contents == {"empty", "partial", "complete"}
Journal == [current : Dirs, previous : Dirs, staging : Dirs, overwrite : BOOLEAN]
Namespace == [delivery : Dirs, previous : Dirs, staging : Entry,
              journal : Journal \cup {None}, content : [Dirs -> Contents]]
Value == Dirs \cup {Empty, Torn}

ASSUME NoneAssumption == None \notin Journal

Publishing == {"journal", "journal_sync", "previous_move", "previous_sync",
               "cancel_check", "delivery_exchange", "delivery_sync",
               "commit_verify", "commit_cleanup", "commit_unlinked"}
RollingBack == {"rollback", "rollback_journal", "rollback_unlinked"}
PC == {"idle", "recover", "clean", "ready", "build", "built", "close"}
          \cup Publishing \cup RollingBack

TypeOK ==
    /\ fs \in Namespace
    /\ disk \subseteq Namespace
    /\ pc \in PC
    /\ txn \in Journal \cup {None}
    /\ kept \in BOOLEAN
    /\ verdict \in {"failed", "interrupted"}
    /\ layout \in [delivery : Dirs, previous : Dirs]
    /\ signal \in {"none", "early", "late"}
    /\ answer \in {"none", "pending", "published", "failed", "interrupted",
                   "rollback_failed", "lost"}
    /\ start \in [delivery : Value, previous : Value]
    /\ asked \in Dirs \cup {Empty}

-----------------------------------------------------------------------------
(* Helpers                                                                  *)

\* renameat2(RENAME_EXCHANGE) between each pair of names.
ExchangePrevious(ns) == [ns EXCEPT !.previous = ns.staging, !.staging = ns.previous]
ExchangeDelivery(ns) == [ns EXCEPT !.delivery = ns.previous, !.previous = ns.delivery]
ExchangeFresh(ns) == [ns EXCEPT !.delivery = ns.staging, !.staging = ns.delivery]

\* The exchange that makes the new delivery visible.
CommitExchange(ns, j) == IF j.overwrite THEN ExchangeDelivery(ns) ELSE ExchangeFresh(ns)

Names(ns) == <<ns.delivery, ns.previous, ns.staging>>

PublicationState(ns, j) ==
    CASE Names(ns) = <<j.current, j.previous, j.staging>> -> "initial"
      [] Names(ns) = <<j.staging, j.previous, j.current>> -> "fresh_committed"
      [] Names(ns) = <<j.current, j.staging, j.previous>> -> "overwrite_prepared"
      [] Names(ns) = <<j.staging, j.current, j.previous>> -> "overwrite_committed"
      [] OTHER -> "unknown"

CommittedState(j) == IF j.overwrite THEN "overwrite_committed" ELSE "fresh_committed"

\* Fault: a rollback that knows the committed states only.
RollbackFromCommitted(ns, j) ==
    CASE j.overwrite /\ PublicationState(ns, j) = "overwrite_committed" -> ExchangeDelivery(ns)
      [] ~j.overwrite /\ PublicationState(ns, j) = "fresh_committed" -> ExchangeFresh(ns)
      [] OTHER -> ns

\* One step of the rollback towards the initial state.
RollbackExchange(ns, j) ==
    CASE j.overwrite /\ PublicationState(ns, j) = "overwrite_committed" -> ExchangeDelivery(ns)
      [] j.overwrite /\ PublicationState(ns, j) = "overwrite_prepared" -> ExchangePrevious(ns)
      [] ~j.overwrite /\ PublicationState(ns, j) = "fresh_committed" -> ExchangeFresh(ns)
      [] OTHER -> ns

\* A metadata operation, an fsync that succeeds and one that fails.
Mutate(ns) == fs' = ns /\ disk' = disk \cup {ns}
Flush == disk' = {fs} /\ UNCHANGED fs
FlushFails == disk' \in {disk, {fs}} /\ UNCHANGED fs

Recovering == answer # "pending"
DeliveryNonempty == fs.content[fs.delivery] # "empty"
LeaseRootValid == fs.delivery = layout.delivery /\ fs.previous = layout.previous

\* What a directory holds for a reader.
ValueOf(ns, d) ==
    IF ns.content[d] = "complete" THEN d
    ELSE IF ns.content[d] = "empty" THEN Empty ELSE Torn

-----------------------------------------------------------------------------
(* Initial state: a workspace between runs.  An operator may have emptied   *)
(* `delivery/` by hand, so either directory may be empty.                   *)

Init ==
    /\ fs \in {[delivery |-> d, previous |-> p, staging |-> None, journal |-> None,
                content |-> [x \in Dirs |->
                                IF x = d THEN c1 ELSE IF x = p THEN c2 ELSE "empty"]] :
                  d \in Dirs, p \in Dirs, c1 \in {"empty", "complete"}, c2 \in {"empty", "complete"}}
    /\ fs.delivery # fs.previous
    /\ disk = {fs}
    /\ pc = "idle"
    /\ txn = None /\ kept = FALSE /\ verdict = "failed" /\ signal = "none"
    /\ layout = [delivery |-> fs.delivery, previous |-> fs.previous]
    /\ answer = "none"
    /\ start = [delivery |-> ValueOf(fs, fs.delivery), previous |-> ValueOf(fs, fs.previous)]
    /\ asked = Empty

-----------------------------------------------------------------------------
(* Control                                                                  *)

Goto(p) == pc' = p /\ UNCHANGED <<txn, kept, verdict, layout, signal>>

\* The process leaves: the lock is free and its memory is gone.
Leave ==
    /\ pc' = "idle"
    /\ txn' = None /\ kept' = FALSE /\ verdict' = "failed" /\ signal' = "none"
    /\ UNCHANGED layout

\* The except clause of the transaction: undo, then report v.
Undo(v) ==
    /\ pc' = "rollback"
    /\ verdict' = v
    /\ UNCHANGED <<txn, kept, layout, signal>>

-----------------------------------------------------------------------------
(* Acquiring the workspace: recovery, then removal of stale temporaries     *)

Acquire ==
    /\ pc = "idle"
    /\ layout' = [delivery |-> fs.delivery, previous |-> fs.previous]
    /\ pc' = "recover"
    /\ UNCHANGED <<fs, disk, txn, kept, verdict, signal, history>>

\* Fault: the temporaries are cleaned without looking for a journal first.
SkipRecovery ==
    /\ pc = "recover"
    /\ Goto("clean")
    /\ UNCHANGED <<fs, disk, history>>

\* No journal below work/tmp: nothing to recover.
RecoverNothing ==
    /\ pc = "recover"
    /\ fs.journal = None
    /\ Goto("clean")
    /\ UNCHANGED <<fs, disk, history>>

\* A journal was left behind: its transaction is always rolled back.
RecoverJournal ==
    /\ pc = "recover"
    /\ fs.journal # None
    /\ txn' = fs.journal
    /\ kept' = TRUE
    /\ pc' = "rollback"
    /\ UNCHANGED <<fs, disk, verdict, layout, signal, history>>

\* An I/O error while acquiring, creating or cleaning up makes the process leave.
LeaveOnError ==
    /\ pc \in {"recover", "clean", "ready", "close"}
    /\ Leave
    /\ UNCHANGED <<fs, disk, history>>

MayRemoveStaging ==
    \/ pc = "clean"
    \/ pc = "close" /\ LeaseRootValid /\ fs.journal = None

\* The directory tree is removed bottom up, so a crash may leave it in part.
RemoveContents ==
    /\ MayRemoveStaging
    /\ fs.staging # None
    /\ fs.content[fs.staging] = "complete"
    /\ Mutate([fs EXCEPT !.content[fs.staging] = "partial"])
    /\ UNCHANGED <<memory, history>>

RemoveStaging ==
    /\ MayRemoveStaging
    /\ fs.staging # None
    /\ fs.content[fs.staging] # "complete"
    /\ Mutate([fs EXCEPT !.content[fs.staging] = "empty", !.staging = None])
    /\ UNCHANGED <<memory, history>>

\* The removals reach the disk before any new work starts.
CleanupStaleTemporary ==
    /\ pc = "clean"
    /\ fs.staging = None
    /\ Flush
    /\ Goto("ready")
    /\ UNCHANGED history

CleanupRunTemporary ==
    /\ pc = "close"
    /\ LeaseRootValid /\ fs.journal = None
    /\ fs.staging = None
    /\ Flush
    /\ Leave
    /\ UNCHANGED history

\* A journal, or directories that are not where the snapshot has them, stop the cleanup.
CleanupRefused ==
    /\ pc = "close"
    /\ ~LeaseRootValid \/ fs.journal # None
    /\ Leave
    /\ UNCHANGED <<fs, disk, history>>

-----------------------------------------------------------------------------
(* The run builds and verifies a delivery in its staging directory          *)

CreateStaging ==
    /\ pc = "ready"
    /\ \E d \in Dirs \ {fs.delivery, fs.previous} :
          Mutate([fs EXCEPT !.staging = d, !.content[d] = "empty"])
    /\ Goto("build")
    /\ UNCHANGED history

BuildPart ==
    /\ pc = "build"
    /\ fs.content[fs.staging] = "empty"
    /\ Mutate([fs EXCEPT !.content[fs.staging] = "partial"])
    /\ UNCHANGED <<memory, history>>

\* Fault: the build is handed over before its last files are written.
HandOverUnfinished ==
    /\ pc = "build"
    /\ fs.content[fs.staging] = "partial"
    /\ Goto("built")
    /\ UNCHANGED <<fs, disk, history>>

BuildComplete ==
    /\ pc = "build"
    /\ fs.content[fs.staging] = "partial"
    /\ Mutate([fs EXCEPT !.content[fs.staging] = "complete"])
    /\ Goto("built")
    /\ UNCHANGED history

\* Building or verifying fails, or the run is cancelled before it publishes.
BuildFails ==
    /\ pc \in {"build", "built"}
    /\ Goto("close")
    /\ UNCHANGED <<fs, disk, history>>

-----------------------------------------------------------------------------
(* The transaction                                                          *)

\* The snapshot's identities are bound and SIGINT/SIGTERM are masked.
BeginPublish ==
    /\ pc = "built"
    /\ LeaseRootValid
    /\ txn' = [current |-> layout.delivery, previous |-> layout.previous,
               staging |-> fs.staging, overwrite |-> DeliveryNonempty]
    /\ pc' = "journal"
    /\ answer' = "pending"
    /\ asked' = fs.staging
    /\ start' = [delivery |-> ValueOf(fs, fs.delivery), previous |-> ValueOf(fs, fs.previous)]
    /\ UNCHANGED <<fs, disk, kept, verdict, layout, signal>>

\* Without --overwrite a nonempty delivery is refused; so is any failure to bind.
RefuseDestination ==
    /\ pc = "journal"
    /\ answer' = "failed"
    /\ Goto("close")
    /\ UNCHANGED <<fs, disk, start, asked>>

\* A signal arrives while it is masked: before the journal is durable, or later.
Signal ==
    /\ pc \in Publishing
    /\ signal = "none"
    /\ signal' = IF pc \in {"journal", "journal_sync"} THEN "early" ELSE "late"
    /\ UNCHANGED <<fs, disk, pc, txn, kept, verdict, layout, history>>

\* raise_if_cancelled() before the journal: the token was cancelled by then.
CancelledBeforeJournal ==
    /\ pc = "journal"
    /\ Undo("interrupted")
    /\ UNCHANGED <<fs, disk, history>>

\* The journal's temporary file is synced and renamed into place.
WriteJournal ==
    /\ pc = "journal"
    /\ Mutate([fs EXCEPT !.journal = txn])
    /\ Goto("journal_sync")
    /\ UNCHANGED history

SyncJournal ==
    /\ pc = "journal_sync"
    /\ Flush
    /\ kept' = TRUE
    /\ pc' = IF txn.overwrite THEN "previous_move" ELSE "delivery_exchange"
    /\ UNCHANGED <<txn, verdict, layout, signal, history>>

MovePrevious ==
    /\ pc = "previous_move"
    /\ Mutate(ExchangePrevious(fs))
    /\ Goto("previous_sync")
    /\ UNCHANGED history

SyncPrevious ==
    /\ pc = "previous_sync"
    /\ Flush
    /\ Goto("cancel_check")
    /\ UNCHANGED history

\* raise_if_cancelled_or_signal_pending(): the only look at masked signals.
NotCancelled ==
    /\ pc = "cancel_check"
    /\ signal = "none"
    /\ Goto("delivery_exchange")
    /\ UNCHANGED <<fs, disk, history>>

Cancelled ==
    /\ pc = "cancel_check"
    /\ signal # "none"
    /\ Undo("interrupted")
    /\ UNCHANGED <<fs, disk, history>>

ExchangeDelivered ==
    /\ pc = "delivery_exchange"
    /\ Mutate(CommitExchange(fs, txn))
    /\ Goto("delivery_sync")
    /\ UNCHANGED history

SyncDelivery ==
    /\ pc = "delivery_sync"
    /\ Flush
    /\ Goto("commit_verify")
    /\ UNCHANGED history

VerifyCommit ==
    /\ pc = "commit_verify"
    /\ PublicationState(fs, txn) = CommittedState(txn)
    /\ Goto("commit_cleanup")
    /\ UNCHANGED <<fs, disk, history>>

UnlinkJournal ==
    /\ pc = "commit_cleanup"
    /\ fs.journal = txn
    /\ Mutate([fs EXCEPT !.journal = None])
    /\ Goto("commit_unlinked")
    /\ UNCHANGED history

\* Fault: the call returns without waiting for the removal to be durable.
CommitUnsynced ==
    /\ pc = "commit_unlinked"
    /\ UNCHANGED <<fs, disk>>
    /\ pc' = "close"
    /\ layout' = [delivery |-> fs.delivery, previous |-> fs.previous]
    /\ answer' = "published"
    /\ UNCHANGED <<txn, kept, verdict, signal, start, asked>>

\* The commit point: the journal's removal is durable and the call returns.
Commit ==
    /\ pc = "commit_unlinked"
    /\ Flush
    /\ pc' = "close"
    /\ layout' = [delivery |-> fs.delivery, previous |-> fs.previous]
    /\ answer' = "published"
    /\ UNCHANGED <<txn, kept, verdict, signal, start, asked>>

\* Any system call of the transaction may fail.  An exchange may report an
\* error although it took effect, a failed pair of fsyncs may have flushed.
TransactionFails ==
    /\ \/ pc \in {"journal", "commit_verify", "commit_cleanup"} /\ UNCHANGED <<fs, disk>>
       \/ pc \in {"journal_sync", "previous_sync", "delivery_sync"} /\ FlushFails
       \/ pc = "commit_unlinked" /\ CleanupSyncMayFail /\ FlushFails
       \/ pc = "previous_move" /\ (UNCHANGED <<fs, disk>> \/ Mutate(ExchangePrevious(fs)))
       \/ pc = "delivery_exchange" /\ (UNCHANGED <<fs, disk>> \/ Mutate(CommitExchange(fs, txn)))
    /\ Undo("failed")
    /\ UNCHANGED history

-----------------------------------------------------------------------------
(* The rollback, run by the failing transaction and by the recovery         *)

RollBack ==
    /\ pc = "rollback"
    /\ RollbackExchange(fs, txn) # fs
    /\ Mutate(RollbackExchange(fs, txn))
    /\ UNCHANGED <<memory, history>>

\* Fault: the journal is given up although the directories are not back.
SyncRollbackAnywhere ==
    /\ pc = "rollback"
    /\ Flush
    /\ Goto("rollback_journal")
    /\ UNCHANGED history

SyncRollback ==
    /\ pc = "rollback"
    /\ PublicationState(fs, txn) = "initial"
    /\ Flush
    /\ Goto("rollback_journal")
    /\ UNCHANGED history

\* What the rollback's caller does once the directories are back.
RolledBack ==
    IF Recovering
    THEN /\ pc' = "clean"
         /\ layout' = [delivery |-> fs.delivery, previous |-> fs.previous]
         /\ txn' = None /\ kept' = FALSE
         /\ UNCHANGED <<verdict, signal, history>>
    ELSE /\ pc' = "close"
         /\ answer' = verdict
         /\ UNCHANGED <<txn, kept, verdict, layout, signal, start, asked>>

\* A journal this process does not know to be there is left for the next one.
KeepJournal ==
    /\ pc = "rollback_journal"
    /\ ~kept
    /\ RolledBack
    /\ UNCHANGED <<fs, disk>>

RemoveJournal ==
    /\ pc = "rollback_journal"
    /\ kept
    /\ Mutate([fs EXCEPT !.journal = None])
    /\ Goto("rollback_unlinked")
    /\ UNCHANGED history

SyncRemoval ==
    /\ pc = "rollback_unlinked"
    /\ Flush
    /\ RolledBack

\* Any failure, or an uncertain state, ends the rollback where it is.
RollbackFails ==
    /\ pc \in RollingBack
    /\ FlushFails
    /\ IF Recovering THEN Leave /\ UNCHANGED answer
                     ELSE Goto("close") /\ answer' = "rollback_failed"
    /\ UNCHANGED <<start, asked>>

-----------------------------------------------------------------------------
(* Crashes                                                                  *)

Die == Leave /\ answer' = IF answer = "pending" THEN "lost" ELSE answer

\* SIGKILL, or the forced exit: the file system stays as it is.
Kill ==
    /\ pc # "idle"
    /\ Die
    /\ UNCHANGED <<fs, disk, start, asked>>

PowerLoss ==
    /\ Die
    /\ fs' \in disk
    /\ disk' = {fs'}
    /\ UNCHANGED <<start, asked>>

-----------------------------------------------------------------------------
\* The program's own steps once it holds the lock, the failing ones included.
Proceed ==
    \/ RecoverNothing \/ RecoverJournal \/ LeaveOnError
    \/ RemoveContents \/ RemoveStaging \/ CleanupStaleTemporary
    \/ CleanupRunTemporary \/ CleanupRefused
    \/ CreateStaging \/ BuildPart \/ BuildComplete \/ BuildFails
    \/ BeginPublish \/ RefuseDestination \/ CancelledBeforeJournal
    \/ WriteJournal \/ SyncJournal \/ MovePrevious \/ SyncPrevious
    \/ NotCancelled \/ Cancelled \/ ExchangeDelivered \/ SyncDelivery
    \/ VerifyCommit \/ UnlinkJournal \/ Commit \/ TransactionFails
    \/ RollBack \/ SyncRollback \/ KeepJournal \/ RemoveJournal \/ SyncRemoval
    \/ RollbackFails

Next == Acquire \/ Proceed \/ Signal \/ Kill \/ PowerLoss

Spec == Init /\ [][Next]_vars

\* Runs keep being started, a process that runs goes on, and no system call of the recovery fails for ever.
Recovery ==
    /\ WF_vars(Acquire) /\ WF_vars(Proceed)
    /\ SF_vars(RecoverJournal) /\ SF_vars(RollBack) /\ SF_vars(SyncRollback)
    /\ SF_vars(RemoveJournal)

FairSpec == Spec /\ Recovery

-----------------------------------------------------------------------------
(* Properties                                                               *)

\* The namespace the next process makes of ns before it starts its own work.
Recovered(ns) ==
    IF ns.journal = None THEN ns
    ELSE [ns EXCEPT !.delivery = ns.journal.current, !.previous = ns.journal.previous,
                    !.staging = ns.journal.staging]

Pair(ns) == [delivery |-> ValueOf(ns, ns.delivery), previous |-> ValueOf(ns, ns.previous)]

\* What a completed publication leaves: the old delivery becomes the backup,
\* unless it was empty.
NewPair == [delivery |-> asked,
            previous |-> IF start.delivery = Empty THEN start.previous ELSE start.delivery]

(* Whatever instant the process dies or the power fails at, recovery leaves *)
(* both directories as the run found them or completely switched: never the *)
(* backup lost with the old delivery still in place, never half a delivery. *)
PowerLossSafe == \A ns \in disk \cup {fs} : Pair(Recovered(ns)) \in {start, NewPair}

(* A caller that was told "published" has the new pair on disk whatever     *)
(* happens next; one that was told it failed or was interrupted has the old *)
(* pair, until the next publication begins.                                 *)
AnswerTruthful ==
    /\ answer = "published" => \A ns \in disk : Pair(Recovered(ns)) = NewPair
    /\ answer \in {"failed", "interrupted"} =>
           \A ns \in disk : Pair(Recovered(ns)) = start

(* A reader that opens `delivery/` or `delivery.previous/` at any instant,  *)
(* in the middle of an exchange or before a recovery, finds no directory    *)
(* that is built or removed in part.                                        *)
NeverTorn == \A ns \in disk \cup {fs} : Torn \notin {Pair(ns).delivery, Pair(ns).previous}

(* A signal that was pending before the transaction's first durable write   *)
(* never ends in a committed publication.                                   *)
EarlySignalInterrupts == ~(answer = "published" /\ signal = "early")

(* A journal that a failed rollback or a dead process left behind is always *)
(* resolved: every state the transaction can stop in is one the recovery    *)
(* of a later process gets out of, although its own steps may fail and the  *)
(* process may be killed again, as long as the power stops failing.         *)
JournalResolved ==
    <>[][~PowerLoss]_vars => (fs.journal # None ~> fs.journal = None)

-----------------------------------------------------------------------------
(* Refinement: the outcome is decided once no state the disk may come back  *)
(* to holds the journal any more.                                           *)

Decided ==
    IF \E ns \in disk : ns.journal # None
    THEN Pair(Recovered(CHOOSE ns \in disk : ns.journal # None))
    ELSE Pair(fs)

Abstract == INSTANCE AtomicPublication WITH
    delivery <- Decided.delivery, previous <- Decided.previous, candidate <- asked

Implements == Abstract!Spec
=============================================================================
