# Verification of video-auto-editor

TLA+ specifications of the `live` command of this repository (the package
`src/video_auto_editor`, below written without that prefix) and of the gate its
releases pass (`src/scripts`), model-checked with TLC on small instances and,
where it says so, proved with TLAPS for every value of the constants.  Every
definition is translated from the source; `PROJECT.json` gives the lines of each
one.

One run of the program cuts a live recording into clips: it acquires a
workspace directory, analyses the source, transcribes it in parallel shards,
plans clips, has topics reviewed and subtitles optimised by a text model, builds
and verifies a delivery, and publishes it by exchanging directories.  What makes
this hard is not the sequence but what may happen between any two of its steps:
a signal, a second signal, a full disk, a killed process, a power loss, another
process on the same workspace, a thread that fails while its siblings go on, a
service that says anything or nothing, a program that edits the files meanwhile.

## Inventory

| Component | State | Operations | Interacts with | Hard behaviour | Correct when | Modelled in |
|---|---|---|---|---|---|---|
| publication transaction (`workspace/_workspace.py`, `delivery/publication.py`) | names of `delivery/`, `delivery.previous/` and the staging directory, a journal file | publish, roll back, recover, clean temporary files | lease (exclusive effect), live run (commit callback), signals (mask) | crash or power loss between two exchanges, failing fsyncs, a failing rollback | the pair of directories changes atomically and the answer is the truth | PublicationTransaction |
| workspace lease (`_LeaseGuard`, `_WorkspaceLease`) | counters of effects per thread, two condition variables, the lock | shared, nested and exclusive effects, close | every component that touches a file | nesting through helper threads, close during effects, lost wakeups | effects run under the lock, exclusive ones alone, nobody waits forever | WorkspaceLease |
| workspace files (`_workspace.py`) | the directory at the path, its fixed entries, reserved names, flock, temporary files | open, create, adopt, inspect, undo, acquire, clean up, sweep | every process at the same path | half-created layouts, a creator that undoes what another has opened, replaced directories, kills | only own entries are touched, a run works alone | WorkspaceLayout |
| processing cache (`cache/`) | one file per identity, a kernel lock per identity | lookup, claim, resolve, quarantine | shards, topic review, subtitles; other processes | two processes at one identity, corruption, crash before the directory sync | one computation at a time, everybody gets the same payload, nothing acknowledged is lost | CacheSingleFlight |
| signals and cancellation (`runtime/cancellation.py`) | token, first signal, flags, timer, worker queues | handler, watchdog, forced exit, complete, restore | the main thread and every waiter of the token | a lock-free handler at any bytecode, the watchdog against the end of the run | one exit code, a bounded cleanup window, no waiter left asleep | SignalCoordinator |
| live run (`application/live.py`) | lifecycle cursor, commit state, outcome | ten stages, termination, fallback, teardown | all of the above and the diagnostics | signals and failing writes before, at and after the commit | outcome, `run.json` and `delivery/` tell one story | LiveRun |
| run diagnostics (`diagnostics/_session.py`, `_facts.py`) | open stage and operations, event sequence, error ledger, delivery state | stages, operations, retries, failures, facts, finish | written by every thread of a run | concurrent operations, the commit in the middle | what was written is what the reader accepts | RunDiagnostics |
| diagnostics reader (`diagnostics/_reader.py`) | none | read a package, validate it | packages the session left | truncated or unfinished packages | accepts every package the session can leave | DiagnosticPackageReader |
| StepAudio adapter (`transcription/stepaudio.py`, `_stepaudio_https.py`) | futures, stop tokens, attempts, one controller per exchange | dispatch, retry, cancel siblings, send, abort | cache, HTTPS, token, diagnostic bridge | failures racing each other and the cancellation; a watcher against connect, handshake and read | the reported failure is genuine, all threads end, the account of requests is true | ShardPool, HttpsExchange |
| reconciliation (`transcription/reconciliation.py`) | works, answers, rounds, budget | plan windows, observe, vote, find gaps, recover | StepAudio adapter | interval borders, rounds without progress | ends, covers the confirmed speech | Reconciliation |
| text model adapter (`text_model/`), topic review, subtitle optimization | attempts, batches, ledgers | review, optimise, generate, retry, repair | HTTPS, cache, bridge, token | cancellation or a failing record between any two of five accounts | the facts carried are what happened | TextGeneration, HttpsExchange |
| clip planning (`clip_planning/_planning.py`) | none | prepare, finalize, check | topic review | limits, overlaps and fixes at the borders | nothing unfit is published, nothing fit is lost | ClipPlanning |
| delivery build, verification, capabilities (`delivery/`) | chain unverified, verified, published | build, verify, bind, activate, revoke | workspace, ffmpeg, other programs | a file changed between two of the readings | only what was verified is published, once | DeliveryChain, DeliveryDocuments, PlannedDelivery, MediaProcess |
| source analysis (`source_analysis/`) | the first reading of the recording | probe, hash, compare | ffprobe | a recording that changes meanwhile | nothing comes from a changed recording | MediaProcess, DeliveryChain |
| release gate (`scripts/run_release_gate.py`, `validate_release_evidence.py`) | a plan, and per attempt a workspace and evidence files | prepare, execute, record-review, rerun, classify, seal | the installed program, operators | kills in mid-write, overlapping commands, a host that changes | a pass is earned, a rejected candidate gets no second try | ReleaseGate |
| readiness, configuration, composition, CLI, run interpretation, error tables, live progress (`tools/live_progress`), installation scripts | none that outlives a call | check, parse, wire, explain, observe | | | | see "Not modelled" |

## Modules

    AtomicPublication  <--- refined by ---  PublicationTransaction   <- ...Proofs
                                                 |  (one step of)       |
                     DeliveryChain [G] ----------+-------------- LiveRun <- LiveRunProofs [L]
                          |                                         |  (records into)
    ClipPlanning [P] -> DeliveryDocuments [P]     RunDiagnostics [L] -- judged by --> DiagnosticPackageReader
                          |
                     MediaProcess [R]           SignalCoordinator    <- ...Proofs
                                                WorkspaceLease       <- ...Proofs
    Reconciliation [P] - (asks) ---> ShardPool <- RecognitionProofs [R]
                                       |    \---> HttpsExchange [R] <---- TextGeneration [C]
                                       v
                              CacheSingleFlight <- ...Proofs [C] WorkspaceLayout [L]
                                                                 ReleaseGate <- ...Proofs [G]

An arrow without a word is "hands its result to".  A letter in brackets marks
modules whose theorems are in one proof module: [C] CacheSingleFlightProofs, [G]
ReleaseGateProofs, [L] LiveRunProofs, [P] PipelineProofs, [R] RecognitionProofs.
Modules are composed in two ways.  Where what one part does depends on the state of another, they share a
module or one is a step of the other: PublicationTransaction refines the
exchange that LiveRun and DeliveryChain have as one step, RunDiagnostics extends
the reader that judges it, and PlannedDelivery builds the request of
DeliveryDocuments from every plan ClipPlanning issues (`DeliveryOfPlan`).  Where
one part needs only an outcome of another, it chooses that outcome freely, and a
run holds several parts side by side: an initial state starts one of them and
parks the others where none of their actions is enabled.

**AtomicPublication** is the promise of a publication: a pair of directories and
a candidate, and one step that replaces the pair.

**PublicationTransaction** is `_publish_delivery_directories` with every system
call a step: write and sync the journal, exchange, sync, verify, unlink, sync;
the rollback in its two exchanges; `_recover_publication_transactions` at the
next acquisition; and `_cleanup_stale_temporary` and `_cleanup_run_temporary`,
which may remove the very directory a transaction needs.  `fs` is what processes
see; `disk` is the set of states a power loss may come back to: metadata
operations reach the disk in their order, a successful fsync leaves the present
state only.  `txn`, `kept` and `layout` are the local variables of the code.

**WorkspaceLease** has one action per critical section of `_LeaseGuard` and
`_WorkspaceLease`: the loop test of a wait either goes on or puts the thread to
sleep, and only a `notify_all` wakes it.  A thread may nest effects, and inside
an effect may hand work to a helper thread and wait for it, as the cache and the
publication do.

**WorkspaceLayout** is how processes come by a workspace: they find nothing, an
empty directory, a half-made layout, a workspace or somebody else's files at one
path, create or adopt, fill in the fixed entries, inspect, lock, clean and run,
fail or are killed at any step and undo what they made, while an outsider may
put another directory in its place.  A directory is an identity (device and
inode); the creation journal, the directory a process opened and the entry it
moved aside are the local variables of the code.

**CacheSingleFlight** is one identity of the cache and any number of calls of
`resolve`, in any mix of threads and processes, down to temporary file, rename
and directory sync.  A payload is a value; two computations may differ.

**SignalCoordinator** has the main thread, the innermost signal handler, the
setup worker, the timer's callback, the cleanup worker and one thread in
`CancellationToken.wait`.  Sections under the coordinator's lock are one step;
the handler takes no lock and has a step for each read and write that matters.
The cleanup window is `closed`, `open` or `over`.

**LiveRun** is the main thread of `LiveApplication.execute`: the program counter
walks through `_run_stage`, its handlers, the fallback and the teardown; the
publication transaction is one step with the answers PublicationTransaction gives
(a rollback that fails may leave the directories exchanged, with a journal or, after
a commit whose last fsync failed, without one; either makes the cleanup refuse), a
diagnostics write succeeds or fails, a cleanup succeeds or fails, a signal may
arrive anywhere and stays pending while the transaction masks it.

**DiagnosticPackageReader** is the reader as a fold over the events: the order it
demands, what it computes anew from them, how it compares that with `run.json`,
and its three verdicts.  It is the specification of the session.

**RunDiagnostics** has one action per call of the session, under its lock, by
whatever thread; the guard is what the session accepts.  Each writes a line that
may be written, half written, or written though the write was reported as
failed; before the commit such a failure ends the session, after it the session
goes on in silence.  The session's memory and the reader's are different
variables, filled by different definitions, as they are in the code.

**ShardPool** is one call of `_StepAudioObservationSource.observe`: the calling
thread's loop over `wait()`, and one thread per work from the slice of the
samples through the cache entry of the shard to the requests and the
publication.  Three tokens are told apart (the root's, the local stop, the
cache's); shards with equal samples share an entry, which another process may
hold for ever.  The bridge that turns request events into diagnostics and into
the provider ledger is part of it, up to the end of the stage.

**HttpsExchange** is one `send()`: the caller, the daemon that connects, the
watcher that aborts on cancellation or deadline.  Where the StepAudio and the
StepFun transport differ, `design` selects.  `http.client` is
external: a blocking call ends when the peer answers, the socket is shut down or
times out, and closing a response waits for the buffer a reader holds.

**Reconciliation** is `complete_transcription`: primary windows, the merging of
their answers, the votes over disputed text, the search for gaps in confirmed
speech, recovery rounds with their limits per region and their budgets, the
verdict and the counts in the result.  The confirmed speech (`SpeechOf`) and what
the adapter answers (`AnswersFor`) are constants of any content; what is not a
sequence of chunks (`Chunks`) in the window, in order, is refused.  What
`DisputesOutvoted` says of the result is said of the observations: what one of
them says in a cluster of chunks that overlap is its chunks together
(`Sequence`).  Said of single chunks it would be false, for a chunk that differs
may stand in an observation that, as a whole, says the same.

**TextGeneration** is a stage that asks the text model, topic review over its
batches or subtitle optimization over its windows, with its cache, the
repetitions of an unusable output, the attempts of a request, and the five books
that are kept of it: the stage's ledger, the adapter's attempts, the bridge's
call, the external request facts and the ledger of the providers.

**MediaProcess** is a child process in the four places that start one (export of
a clip, normalised sound, probe of a clip, probe of the source): its two pipes,
its input, and the caller that reads, judges, terminates, kills and reaps it.

**ClipPlanning** cuts candidates from the transcript, takes reviews of any kind,
decides for one reason each, selects under the limit, forms series and checks
the plan as a whole.

**DeliveryChain** goes from the recording through build, verification and
publication, file by file and reading by reading, while other programs may
change the recording or the staging directory between any two of them.
`evidence` is what the verified capability is bound to, `proof` the authority of
the published one.

**DeliveryDocuments** is what the builder writes from a transcript, a plan and
the facts, and all the relations the verification demands between the documents,
the clips on disk and the manifest, on directories that any defect has touched.
What earlier stages may ask for is `Issued`; what a reader of files can find at
all is `Readable`.

**PlannedDelivery** is where the two meet: the transcript, the candidates and the
series of an issued plan as the run hands them to the builder, so that what the one
promises in positions is compared with what the other demands of identities and times.

**Ranking** is how Reconciliation and DeliveryDocuments put things in order: a
set is listed by how many of it come before each.

**ReleaseGate** has the commands of `run_release_gate.py`, which keep no state
but the files of one directory: every command reads all of them back, judges
whether they are a history it could have written, runs the program and adds a
file; `validate_release_evidence.py` seals the result.  Two commands may overlap
and one may be killed at any step, also in the middle of a write.

`MC...` modules extend or instantiate the specifications for TLC; `...Proofs`
modules extend them with theorems.  What is proved about is extended on both
sides - MCLiveRun has LiveRun, RunDiagnostics and WorkspaceLayout, MCRecognition
has ShardPool, HttpsExchange and MediaProcess, MCPipeline has all its parts - so
that a run and a theorem name one and the same definition.  The cache in
MCRecognition is an instance, with variables of its own.

## Runs

| Run | Parts | Shows |
|---|---|---|
| `MCPublicationTransaction` | PublicationTransaction | `PowerLossSafe`, `AnswerTruthful`, `NeverTorn`, the refinement `Implements` of AtomicPublication, and `JournalResolved` (a journal does not outlive recoveries that keep being tried), with failures, signals, kills and power losses at every step |
| `MCCleanupSyncFault` | " | a violation of `PowerLossSafe`, see Findings 1 |
| `MCEarlySignal` | " | a violation of `EarlySignalInterrupts`, see Findings 2 |
| `MCWorkspaceLease` | WorkspaceLease | `LockCoversEffects`, `ExclusiveAlone`, `NoLostWakeup`, and that helpers, closers and exclusive effects are served (`HelperServed`, `CloseTerminates`, `ExclusiveServed`) |
| `MCInnerClose` | " | a violation of `InnerCloseRefused`, see Findings 3 |
| `MCCacheSingleFlight` | CacheSingleFlight | `SingleFlight`, `Agreement`, `AcknowledgedIsDurable`, and that a valid entry is never replaced (`ValidEntryStays`) |
| `MCSignalCoordinator` | SignalCoordinator | `ExitCodeTruthful`, `WindowBounded`, `CompletedRunReturns`, `WaiterWakes` |
| `MCLiveRun` | WorkspaceLayout, LiveRun, RunDiagnostics with the reader | how a run comes by its workspace (`WorkspaceSound`), its course (`OutcomeTruthful`, `ManifestTruthful`, `CompleteMeansPersisted`, `LateSignalAccounted`, `CleanOrFlagged`) and what it records (`NeverCorrupt`, `PersistedIsComplete`, `CommitNeverDenied`) |
| `MCRecognition` | ShardPool, HttpsExchange, CacheSingleFlight, MediaProcess | the answer of the pool and its account of requests are true (`AnswerTruthful`), no socket is left (`NoSocketLeft`), no child is left and its output is used only if complete (`ChildAccounted`); whoever is cancelled ends (`CancellationEnds`), whoever waits for an entry gets past it (`WaitersGetThrough`) |
| `MCPipeline` | Reconciliation, TextGeneration, DeliveryChain, ClipPlanning with DeliveryDocuments, ReleaseGate | for each part one property: `TranscriptSound` (with the budget of the recovery), `AccountsTruthful`, `DeliverySound` (with the use of capabilities), `PlanSound`, `DocumentsSound`, `GateSound`; and of two of them together that every plan ClipPlanning issues is what the builder expects, and is accepted by the verification as the builder writes it (`PlansDeliverable`) |
| `MCInFlightCancel` | HttpsExchange | a violation of `InFlightCancels`, see Findings 4 |
| `MCOvertakingFix` | ClipPlanning with DeliveryDocuments | a violation of `IssuedIsDeliverable`, see Findings 5 |

What the composed properties say in detail stands where they are defined, at the
end of each module.  Every property of a passing run is paired in `PROJECT.json`
with a fault, an operator marked `Fault:` in the module, that changes one action
the way a bug would and makes TLC find the property violated; where a property
is a conjunction over several parts, with one for each of them.

### Bounds, and why they are enough

- Publication: four directory identities (delivery, previous, a staging
  directory and the one of the next run, so that what one run leaves is there
  when the next one publishes); the two violations need three.  Crashes and
  failures are not bounded.
- Lease: three threads with effects two deep: one closes or wants exclusivity,
  one has an effect open, one is its helper.
- Cache: three calls (holder, waiter, newcomer), two payloads so that
  disagreement is visible, one death, one power loss and one decay.  For
  progress, in `MCRecognition`, one payload and no disk faults, which do not bear
  on it.
- Signals: three arrivals, a first signal, a repetition, and one that interrupts
  the handler of either.
- Live run: two stages before build, verification and publication.  The stages
  before the build have the same code, so one that begins and one that follows
  another are all the cases; the proofs hold for any number.
- Diagnostics: the transcription and one other stage, two operations (parent and
  child, or cache and request), two attempts, one artifact.  `MaxFacts` bounds
  the events that can repeat to four (an operation, its retry, its end and the
  transcription's report), and `MaxDelivered` to two in a run with a delivery
  (an operation that ends after the commit); the delivery itself runs to its end.
- Workspace layout: two processes with two starts between them, so that one
  creates while the other finds what it makes, and a restart meets what a kill
  left; two of the eight fixed entries, for a layout that is neither empty nor
  whole; two faults; a directory for each start and fault and one more.  The
  proof has no such bounds.
- Pool: three works, two of one identity, on one thread (sequential) or two, so
  that a work is queued while two run and another waits for an entry; two
  attempts.  The proof has no such bounds.
- HTTPS: one exchange has three threads; both transports.
- Child process: two chunks in each pipe, which holds one: a child that blocks on
  one pipe while the caller reads the other.  The proof has no such bound.
- Reconciliation: three units of sound in two windows that overlap, every answer
  of chunks one or two units long, in the second window two of them, with and
  without measured characters; two rounds, four requests.  A cluster may so hold
  three observations, one against two.  The proof has no such bounds.
- Text generation: two units, so that what one leaves in the books meets the
  next; two outputs, three attempts.  The proof has no such bounds.
- Delivery chain: one clip, one document and the manifest, three changes by other
  programs: the order of readings of two files of one kind is that of a clip and
  a document.  The proof has no such bounds.
- Clip planning: five transcripts, with equal starts, overlaps, gaps and a chunk
  to exclude, six policies from no limit to a limit below the priorities, ten
  reviews per candidate, at most four candidates of a recording six seconds long.
  The proof has no such bounds.
- Documents: five requests, of none to three candidates with one series; one or two
  defects of the builder or one deviation of the directory.  The proof has no such
  bounds.  `PlansDeliverable` looks at every plan ClipPlanning issues in its own part
  of the run.
- Release gate: two attempts of at most three runs, and one overlap of two
  commands, two kills, or two changes of the host under two plans (the second is
  what brings a host back).  Commands and drafts are symmetric.

A run that stops only where the program may stop says so with
`CHECK_DEADLOCK FALSE`: a process exits, a run returns, a session is finished, a
gate has sealed its evidence, all threads are done.  The lease and the publication have it where,
after `close()` returned or an uncertain rollback, nothing more need happen.
`MCCacheSingleFlight` checks deadlock.

### Fairness

Weak fairness stands for a thread that is scheduled.  Beyond that:

- Publication (`JournalResolved`): runs keep being started, and strong fairness of
  the recovery's steps says that no system call fails for ever.  Without it a
  disk that always fails keeps the journal, as the code intends.
- Lease: the body of an effect ends, at every depth (strong, because nested
  effects come and go in between).  `ExclusiveServed` assumes moments without
  effects: the code does not stop nested helpers, so a workspace that is never
  idle may starve an exclusive effect.
- Cache: a computation need not end unless its token is cancelled;
  `WaitersGetThrough` is stated for computations that end.
- Signals: time passes, the handler and the workers run.  Neither the work of
  the run nor the best-effort cleanup has any fairness: the bounded window must
  not depend on them.
- Pool: its threads run and an attempt ends, by its deadline at the latest.
  Nothing is assumed of the other process that holds an entry: a stopped pool
  must end without it.
- HTTPS: the steps of the caller that block on nobody, the daemon and the watcher.
  The peer and the network owe nothing.  A socket times out when its deadline has
  passed, but the deadline, which may be ten minutes away, need not pass.
- Child process: the caller runs.  The child owes nothing; it need not read, write,
  end or obey.

Liveness is only model-checked.

## Findings

1. *Removing the journal* (`MCCleanupSyncFault`, `_workspace.py:1015`).  The
   journal of a committed transaction is unlinked and its directory synced; if
   that sync fails, the transaction is rolled back, without a journal.  A crash
   between the two exchanges of this rollback leaves the old backup in the
   staging directory, which the next acquisition removes as stale.
   `CleanupSyncMayFail` switches this failure on.  The passing run and, of the
   proofs, those of `PowerLossSafe` and of the refinement are for FALSE.  What is
   left with the failure is proved too: the answer stays true, nothing is torn, and
   at most the backup is lost (`DeliveryKept`).
2. *Early signals* (`MCEarlySignal`, `_workspace.py:980`).  Only the overwriting
   path looks for a signal that the mask holds back; a first publication commits
   although the signal came before its commit point, against
   `docs/production-readiness-spec.md:313`.
3. *Closing from inside* (`MCInnerClose`, `_workspace.py:2784`).  `close()` inside
   an effect is refused, except while another thread is closing: then it waits
   for that thread, which waits for the effect.  `InnerCloseMayRace` switches it
   on; the passing run of the lease has it off, the proofs hold for either value.
4. *Cancelling a request in flight* (`MCInFlightCancel`,
   `_stepaudio_https.py:164`).  The watcher closes the response before it shuts
   the socket down, and closing waits for the buffer that the reading thread
   holds; so a cancelled StepAudio request waits for its peer until the socket
   times out.  The StepFun transport does not close there.  `CancelledSendEnds`,
   in `CancellationEnds`, leaves this one case out.
5. *A fix that overtakes* (`MCOvertakingFix`, `_planning.py:693`).  A boundary fix
   may put the start of a candidate before that of an earlier one.  Series follow
   the initial order in the plan and the final order in the verification, which
   then refuses a delivery no review was wrong about.  That what is
   built is accepted, in `DocumentsSound` and `PlansDeliverable`, is stated for plans
   whose final ranges keep the order.

### Limits met while modelling

No line of the documentation is contradicted clearly enough for a run of its own,
but a maintainer should know:

- *Reserved names.*  An entry below `work/tmp` is made and removed under a reserved
  name.  A kill or a failure in between leaves that name there, and the cleanup
  of every later start refuses it (`workspace.ownership_changed`), although
  forced terminations are to be cleaned up by the next start
  (`docs/production-readiness-spec.md:325`).  `TracesUndone` is stated for
  histories without a kill or a failing removal.
- *Half a layout.*  A kill while the fixed entries are made leaves a root that is
  neither empty nor whole and is refused by every later start.
- *A late undoing.*  A creator that fails late may move aside a root that another
  process has opened; it is moved back or removed only while empty, and
  whoever opened it finds out when it locks.
- *The last inspection.*  A file edited between the last inspection of the staging
  directory and the exchange is published; `late` marks these histories.  The
  code can make that moment short but not remove it.
- *The gate.*  A cold run that was killed is ended by the next `execute` as a
  rejected candidate.  A kill between the two directories of an attempt or in the
  middle of a write locks the gate, as do some overlapping commands
  (`Legible` excepts both); none of them ever yields a pass that is not earned.
  After a killed rerun, a later rerun that fails cannot be recorded
  (`run_release_gate.py:3572`), so it may be tried until it passes; this is why
  `PassesAreEarned` allows more than two runs after a kill.
- *The gate and a host that changes twice.*  Whoever records a failure verifies the
  plan first (`run_release_gate.py:4029`), so a rerun that failed while the host was
  not the planned one leaves no trace, and may be tried again when it is
  (`unfiled`, excepted from the number of runs like a kill).  And a failure that was
  excused although its run started on another host does not stop the next attempt,
  but `validate_release_evidence.py:2891` refuses the pass it leads to;
  `PassesCanBeSealed` is stated for earlier attempts that ran as planned.

## Proofs

Each `...Proofs` module proves an inductive invariant and derives the
properties from it.  The type invariant is a part of each, for the other parts
speak of values only typed variables have; where it is proved, the run no
longer checks it (except as a part of `WorkspaceSound`).

- **PublicationTransactionProofs**: type correctness, `AnswerTruthful` and
  `NeverTorn`, for any directories and whether the last fsync of a commit may fail or
  not; `PowerLossSafe` if it does not (`CleanupSyncMayFail = FALSE`), and `DeliveryKept`,
  what remains of it if it does: recovery leaves the delivery the run found or the
  one it published, both with their backups, or the one it found with the new one
  as its backup.  The properties quantify over `disk`, the
  states a power loss may return to, and say nothing of how they arose; the
  invariant says that every member of `disk` with a journal has its directories at
  places that journal's transaction can have put them (`Shape`), with the contents
  they had when it began (`Undoable`), and where the program counter lets them be
  (`ControlShape`), so that recovery, which knows only the journal, restores the
  pair the run found.  A rollback without a journal has only its own memory
  to go by (`Unguarded`): wherever it stops, the disk shows one of these pairs
  (`HalfWayIsOutcome`), and until it has ended nothing is said to the run.
  The same module proves, without the failing fsync, the refinement `Implements`:
  initial states map to initial states, every step of the transaction, the
  recovery and the environment to a step of AtomicPublication or to a stutter. As
  long as some member of `disk` holds the journal (`Open`) the decided pair is the
  one the publication found, afterwards it is what all members show;
  `EveryStepIsMove` reduces the steps of the code to the few ways a step can
  change that, and `ClosedStays` is why no power loss takes a decision back.
- **WorkspaceLeaseProofs**: type correctness, `LockCoversEffects`,
  `ExclusiveAlone`, `NoLostWakeup`, for any finite set of threads and any depth.
  The code counts effects; the invariant ties each counter to the set it counts
  (`CountInv`), needed because "no effect is open" is read off the counter.
  One thread closes at a time, and from the drained guard on nothing can start
  (`CloseInv`).
- **CacheSingleFlightProofs**: type correctness, `SingleFlight`, `Agreement`,
  `AcknowledgedIsDurable` and the action property `ValidEntryStays`, for any set
  of calls and payloads.  The invariant relates `durable` to `entry` at each
  phase of the holder.
  And of a stage of the text model type correctness and `AccountsTruthful`, for any
  number of units, repetitions and attempts.  The five books are written at different moments, so
  none equals another at any step; `StageInv` says by how much the stage's ledger
  is behind what happened, which depends on what was sent for the request under
  way, and `BridgeInv` ties the attempts the bridge expects to the adapter's and
  the external facts to the providers' ledger until a record fails.
- **RecognitionProofs**: three of the parts of `MCRecognition`.
  Of the pool both halves of `AnswerTruthful` (what observe reports, and that zero
  requests mean none), for any number of works, workers, attempts and entries.  The
  answer is a statement about threads the calling thread no longer sees, so the
  invariant is one of causes: a work that was stopped has somebody who stopped it,
  and whoever stops the pool has seen a failure or is on the way out (`WorkInv`,
  `MainInv`); hence the branch that would report a stopped work as a failure of its
  own adds nothing.  The calling thread's works are those it waits for, those it has
  collected and those not yet handed out (`MainInv`, with the cardinalities of
  `DispatchEffect`), and the bridge's view of a request follows the thread's
  (`RequestInv`).
  Of the exchange `NoSocketLeft`, for either transport: whoever can still make or
  hold a connection when the caller has gone is the daemon that connects, so the
  invariant says what the daemon will find - a connection made for nobody has been
  given up, or the daemon is yet to see that it was.
  Of the child `ChildAccounted`, for any number of chunks and any limit: a pipe
  leaves the caller's set only when the child has exited and the pipe is empty, the
  caller judges only when none is left and the child is reaped, and as long as it
  pumps, waits or judges it has told the child nothing, so the code it judges by is
  the child's own.
- **LiveRunProofs**: all six invariants of the run, for any number of stages.
  The commit state equals what `delivery/` shows except during the transaction
  (`CommitInv`), only the last stage can be committed (`StageInv`), and what the
  completion claims is what the cleanup achieved (`CompletionInv`); directories left
  exchanged count as not cleaned up (`Clean`), journal or not, which is why their
  report does not depend on the fsync that `CleanupSyncMayFail` is about.
  And of what the run records `NeverCorrupt`, `PersistedIsComplete` and
  `CommitNeverDenied`, for any stages, operations, attempts and numbers of events.
  Session and reader count with different definitions, so the heart of the
  invariant is that, while no write has failed, each part of the session's memory
  equals what the reader gathers from the lines (`Faithful`), proved event by
  event from what an event accepted by the session does to the reader
  (`Accepted`); the memory is well formed (`MemoryInv`, `FormedInv`), and the
  package on disk is a point in its history that the reader judges valid or
  unfinished, never corrupt (`PackageInv`).
  And of the workspace below both `WorkspaceSound`, for any processes, any number
  of fixed entries, starts and faults, and enough directories for them
  (`LayoutAssumption`).  What a process may do to a directory follows from
  what it knows of it, so the invariant says where knowledge comes from: each
  directory is born once and by one maker (`BirthInv`), who is in the steps of a
  creation as long as its journal holds it (`JournalInv`); whoever has the lock is
  at work on the directory it opened (`LockInv`); a layout that is neither empty
  nor whole has somebody filling or undoing it (`FillInv`); an acquired root is
  whole and holds one run's files (`RunInv`).  Without a fault, every reserved
  name, every temporary file, every unfinished directory has a process that will
  see to it (`TraceInv`); once all have ended there is none, hence
  `TracesUndone`.
- **PipelineProofs**: three of the parts of `MCPipeline`, and two of them together.
  Of clip planning the types and `PlanSound`, for any sorted transcript, policy,
  course and reviews (`PlanInputs`).  The state says little here, the data all:
  `PlanInv` says that the candidates are what prepare takes (`CandidatesTaken`) and
  that an issued plan is sound, and the work is in what the two handlers compute.
  Prepare passes over the chunks and jumps behind each candidate, so `Taken` is
  carried backwards from the end of the transcript: where a run of legal length
  starts, the run that is taken there has one (`ExtendedRun`), hence no chunk left
  outside could start a clip.  The limit is three passes, each with the invariant
  that makes its choice fair: after the priorities, one clip of a topic and a
  priority for each (`PriorityInv`); after the topics, a topic that is not told met a
  full list (`TopicInv`); after the rest, whatever is missing is worse than what was
  taken for its rank alone (`RankInv`); together `Fair`.  The series are closed runs
  and one that may grow, apart from one another, and no neighbours of one topic are
  lost between them (`SeriesInv`).  With these, the plan passes the check of the
  whole plan (`PlanIsValid`), so the outcome that would end the run there is not
  reachable.
  Of the reconciliation the types and `TranscriptSound`, for any recording, window
  sizes, tolerance and budget, any speech and any answers (`ReconInputs`).
  `ReconInv` says that the works are windows of the recording and the answers
  valid for them (`HeardIn`), that the analysis in hand is that of all answers, and
  that requests, audio and the rounds of each moment are within their limits; the
  last by counting the rounds that asked for a moment (`AskedAt`), which two
  targets share only if they overlap, and that is what the budget tests.  What makes
  a transcript sound is in the analysis.  Merged intervals keep every hole wider
  than the gap and no other, so that no gap found means that every long stretch of
  speech has something measured in it.  Two chunks of one cluster are not separated
  by any moment and two of different clusters are, so the clusters are a partition
  and what is accepted of different ones is disjoint; of one cluster, what is
  accepted is from one observation, free of its own repetitions.  The votes are a
  fold over the observations: the groups it forms are not empty, apart, and of one
  text each, so an observation that says something else is in another group, and
  the accepted one's group has two voices and a recovery's.
  Of the documents the types and `DocumentsSound`, for any requests earlier stages
  may issue, any one or two defects of the builder and any deviation of either the
  manifest or what it describes (`DocsInputs`).  `DocsInv` says only that what lies in
  the directory is of the request's run and can be read at all; the work is in two
  lemmas about the checks.  `VerifiedIsSound`: what passes every check tells one
  story.  The verification forms the series anew from the candidates in their final
  order, so that neighbours of one topic are in one series is a fact about runs of
  an ordered list (`RunAround`), and needs the order to be total (`OrderedFacts`).  It is
  false of the order of ranges alone, where two candidates with equal final ranges
  would each lie between the other's neighbours; the code decides these by their
  identities, and so does `Sooner`.  `BuiltAccepted`: what the builder writes passes
  every check, document by document (`BuiltAlone`), with its identities, references
  and results; the series of the plan are those of the final order because the
  fixes kept it (`OrderKept`), and a video is in one of them at most (`OneRunOnly`).
  Of a plan and its documents `PlansDeliverable`, for any inputs of clip planning
  (`PlanInputs`): what DocsInputs assumes of a request is what ClipPlanning issues
  (`HandedIssued`), and with the order kept it is accepted (`IssuedIsAccepted`).
  `PlanSound` is too weak for that - it says that neighbours of one topic share a
  series, not what else is in one - so `PlanStands` adds that what is published is fit
  and stands where its candidate does, and that the series are the longest runs
  exactly (`SeriesIsRun`, `RunIsSeries`).
- **ReleaseGateProofs**: two more parts of `MCPipeline`.
  Of the gate `GateSound`, for any commands running at once, plans, hosts and
  outcomes, any number of attempts and runs.  The gate keeps no
  state but files it wrote at different times, from what it had read before, while
  another command may have written; so the invariant has three parts, each with its
  own premise.  `BaseInv` holds whoever writes beside a command: a file that is
  there says of the runs and of the other files what its kind claims (`ColdGood`,
  `ReviewGood`, `PassGood`, `FailGood`, `ClassGood`), an attempt is followed by
  another only if it failed for a reason that excuses it (`FilesInv`), and a command
  knows of its attempt what no other command can take back (`CommandGood`; files
  are never replaced, runs are at most scrubbed: `Stays`).  From it follow that a
  pass is earned, and is the only one.  `SoloInv` holds as long as no two commands
  have met (`met`): the command at work has the whole directory before it as it read
  it, every file names one plan, and the runs a pass or a failure names are those
  the directory keeps; from it follow that the directory reads back and that a pass
  can be sealed.  `CountInv` holds as long as, besides, no run was cut short (`cut`)
  and no failure left unfiled (`unfiled`): an attempt with a cold run and no record
  has one run, or a second that a rerun is about to account for; hence a pass has
  two.  Dropping a premise makes its part false, as the limits above describe.
  Of the delivery `DeliverySound`, for any clips and documents, also none and also
  names that occur twice, and any number of edits by other programs.  The code
  compares identities, not contents, so the invariant starts from what a revision
  means: it is never given out again, hence equal revisions have equal contents
  (`TreesInv`).  While the verification goes on, what was read is known only of
  the files nobody has touched since the first inspection (`VerifyInv`); the second
  inspection finds that this is all of them (`BoundIsOneState`), and the binding
  carries it to the exchange (`EvidenceInv`, `CapabilityInv`).
- **SignalCoordinatorProofs**: type correctness, which bounds the requests the
  unlocked handler can make, and `ExitCodeTruthful`, for any number of arrivals.

The proofs assume of the constants what the modules that declare them state as
named assumptions, which TLC evaluates in every run; none of them bounds a
constant from above.

What a fold or a recursive function computes is proved by first-order induction:
the library's induction theorems take an operator, but that the natural numbers are
well-founded is a fact about sets, and `UpTo` and `DownFrom` draw from it what holds
for all numbers up to a bound.  `FoldExists` and `JumpsExist` use them to show that
the tables by which the library and the recursive functions are defined exist, and
`Enumerated` that picking by rank lists a finite set in its order.  What the order of
the parts of an observation is does not matter to the proofs, so that one may stay
the library's sort.

Model-checked only: every liveness property and the fairness it rests on (ENABLED
is out of the prover's reach).  Every other property of a run that passes is stated by
a theorem; the type invariants of MCRecognition and MCPipeline, part by part.

## Not modelled, and why

- *Readiness, configuration, composition, CLI*: checks made once and in order, and
  parsing; no state outlives the call.
- *Run interpretation and error tables*: read-only tables.  Error codes appear only
  where another part decides by them, as the gate does.
- *Live progress*: a development tool that reads a package while it is written;
  the package at every moment is what RunDiagnostics judges.
- *Installation, the other gate scripts, the validation of an installed delivery,
  the systemd bridge*: they run the program and compare files.
- *Grammar and encoding*: the events a provider streams, JSON schemas, SRT and
  media formats, what a probe says of its streams, the normalisation of text.  A
  model chooses among the results these can have.
- In Reconciliation, what makes two texts the same (the model's texts are letters
  only, and one without any), and the alignment of subtitles to the characters; in topic review
  and subtitle optimization, the rules that make an output usable (a choice),
  except those for boundaries, which are in ClipPlanning.
- In WorkspaceLayout, clearing the cache (an exclusive effect of the lease), mount
  points, link counts and the reading of managed files.
- In RunDiagnostics, facts that are only copied (source, environment,
  configuration), times, a second or a local provider, the operation an error
  names, and the loss of unsynced events in a power loss.
- In SignalCoordinator, clocks, timers and threads that raise, `handle_signal`
  (only tests call it) and the wakeup-fd dispatcher (it drains a pipe).
- In CacheSingleFlight, other identities, which are independent.
- In ReleaseGate, timestamps and the monitoring of a run that goes on.
- `http.client`, ffmpeg, ffprobe, the file system and the kernel's locks: external,
  modelled by what the code may observe of them.

## What remains

1. SubtitleAlignment: cues against the characters of the transcript, over bounded
   texts.
2. The streams of the providers: what a truncated, repeated or reordered event
   makes of an answer.
3. Clearing the cache and reading managed files, against the lease and a replaced
   directory.
4. Readiness and live progress, if they come to keep state.
