------------------------------ MODULE ReleaseGate ------------------------------
(* The release gate: scripts/run_release_gate.py, the commands an operator      *)
(* gives one after the other (prepare, execute, record-review, rerun,           *)
(* classify), and scripts/validate_release_evidence.py, which seals the         *)
(* evidence of what the gate let pass.                                          *)
(*                                                                              *)
(* The gate keeps no state but the files of one directory; every command reads  *)
(* all of them back, judges whether they are a history it could have written,   *)
(* and adds one file.  A command may be killed between any two steps and in     *)
(* the middle of a write; two commands may run at the same time, for nothing    *)
(* excludes them.  A digest is modelled by the content it is the digest of.     *)
EXTENDS Integers, Sequences, FiniteSets

CONSTANTS
    Commands,           \* the processes an operator may have running
    PlanPaths,          \* where a plan may be written
    Worlds,             \* the candidates, installations, evidence and inputs there may be
    ColdOutcomes,       \* what the real run may do with an empty cache,
    WarmOutcomes,       \*   and with the cache of the cold run
    MaxTries, MaxRuns, MaxLeft          \* bounds

VARIABLES
    world,              \* the candidate and the inputs as they are on disk
    left,               \* how many changes, kills and overlapping commands are to come
    plans,              \* the plans written
    files,              \* the files of each attempt
    runs, deliveryRun, previousRun,   \* its workspace: runs, delivery/ and delivery.previous/
    cmd,                \* what each process is doing
    sealed,             \* the attempt whose evidence is sealed, 0 for none
    torn, cut, met,     \* a kill left half a write, a kill left half a run, two commands met
    unfiled             \* a run failed on a host that was not the planned one, which nothing records

gateVars == <<world, left, plans, files, runs, deliveryRun, previousRun, cmd, sealed, torn, cut, met, unfiled>>

Attempts     == 1..MaxTries
Capabilities == {"transcription", "topic_review", "subtitle_optimization"}
Namespaces   == {"transcript", "transcription_shard", "topic_review", "subtitle_optimization"}
RequiredHits == Namespaces \ {"transcription_shard"}

\* What the program may do: only a run that failed has a code, and the shards are
\* looked for only where the cache has no transcript.
Unused == [hits |-> 0, misses |-> 0, writes |-> 0]
FromCache(c) ==
    "transcript" \in DOMAIN c /\ c["transcript"].hits > 0 /\ c["transcript"].misses = 0
OutcomeOK(o) ==
    /\ o.status \in {"succeeded", "failed"} /\ (o.code = "transient" => o.status = "failed")
    /\ o.contract \in BOOLEAN /\ o.leak \in BOOLEAN /\ o.videos \in Nat
    /\ o.requests \in [Capabilities -> Nat]
    /\ DOMAIN o.cache \subseteq Namespaces
    /\ o.cache \in [DOMAIN o.cache -> [hits : Nat, misses : Nat, writes : Nat]]
    /\ FromCache(o.cache) /\ "transcription_shard" \in DOMAIN o.cache => o.cache["transcription_shard"] = Unused
ASSUME GateAssumption ==
    /\ MaxTries \in Nat /\ MaxRuns \in Nat /\ MaxLeft \in Nat
    /\ \A o \in ColdOutcomes \cup WarmOutcomes : OutcomeOK(o)

Absent == [state |-> "absent"]
Half   == [state |-> "half"]
NoAttempt == [workspace |-> FALSE, private |-> FALSE, cold |-> Absent, review |-> Absent, record |-> Absent,
              class |-> Absent, checked |-> [cold |-> Absent, previous |-> Absent, warm |-> Absent]]
Idle == [pc |-> "idle"]

-----------------------------------------------------------------------------
(* The plan.                                                                    *)

\* The installation, the gate reports and the tools speak of this candidate.
Installed(w) == w.installation.wheel = w.candidate
Gated(w)     == w.keyless.candidate = w.candidate /\ w.installed.candidate = w.candidate
Equipped(w)  == w.keyless.tools = w.tools
Consistent(w) == Installed(w) /\ Gated(w) /\ Equipped(w)

\* verify_plan: what the plan locked is what is on disk.
CandidateHolds(w) == w.candidate = world.candidate /\ w.installation = world.installation /\ Installed(world)
GatesHold(w)      == w.keyless = world.keyless /\ w.installed = world.installed /\ Gated(world)
InputsHold(w)     == w.inputs = world.inputs
ToolsHold(w)      == w.tools = world.tools /\ Equipped(world)
Holds(p) ==
    /\ plans[p].state = "plan"
    /\ LET w == plans[p].facts IN CandidateHolds(w) /\ GatesHold(w) /\ InputsHold(w) /\ ToolsHold(w)

-----------------------------------------------------------------------------
(* What a run reports of itself.                                                *)

Contract(r, w) ==
    /\ r.status = "succeeded" /\ r.contract
    /\ r.inputs = w.inputs /\ r.candidate = w.candidate

Asked(r) == {c \in Capabilities : r.requests[c] > 0}
Services(r, warm) == IF warm THEN Asked(r) = {} ELSE Asked(r) = Capabilities

Reused(r) ==
    /\ \A n \in DOMAIN r.cache : r.cache[n].misses = 0 /\ r.cache[n].writes = 0
    /\ RequiredHits \subseteq DOMAIN r.cache
    /\ \A n \in RequiredHits : r.cache[n].hits > 0
Filled(r) ==
    /\ DOMAIN r.cache = Namespaces
    /\ \A n \in Namespaces : r.cache[n].hits = 0 /\ r.cache[n].misses > 0 /\ r.cache[n].writes > 0
CacheFacts(r, warm) == IF warm THEN Reused(r) ELSE Filled(r)

InstalledAs(r, w) == r.installation = w.installation

\* The verdict over a run, in the order of the code.
Summary(r, w, warm) ==
    IF r.status # "succeeded" THEN "run.failed"
    ELSE IF ~Contract(r, w) THEN "run.contract_invalid"
    ELSE IF ~Services(r, warm)
    THEN IF warm THEN "cache_rerun.remote_request_detected" ELSE "cold_run.provider_not_contacted"
    ELSE IF ~CacheFacts(r, warm) THEN IF warm THEN "cache_rerun.cache_not_reused" ELSE "cold_run.cache_not_empty"
    ELSE IF r.videos = 0 THEN "cold_run.no_publish_ready_short_video"
    ELSE IF ~InstalledAs(r, w) THEN "run.environment_binding_invalid"
    ELSE ""

\* The independent validation of one delivery.
Validation(v) ==
    CASE v = "not_launched" -> "independent_validation.launch_failed"
      [] v = "rejected"     -> "independent_validation.failed"
      [] OTHER              -> ""

Projection(r) == r.projection

\* What the validator writes of a delivery it accepts.
Checked(r) == [state |-> "valid", run |-> r.id, clips |-> r.videos]

\* The scan of an attempt for the credential, which takes away the files it is in.
Leaked(i) == {n \in DOMAIN runs[i] : runs[i][n].leak}
Cleaned(i) ==
    [n \in DOMAIN runs[i] |->
        IF n \in Leaked(i) THEN [runs[i][n] EXCEPT !.leak = FALSE, !.status = "removed", !.code = ""] ELSE runs[i][n]]

-----------------------------------------------------------------------------
(* The files of an attempt, read back.                                          *)

Exists(i) == files[i] # NoAttempt
Latest == Cardinality({i \in Attempts : Exists(i)})

ColdReads(i, p) ==
    LET c == files[i].cold IN
    /\ c.state = "cold" /\ c.attempt = i /\ c.plan = plans[p]
    /\ Asked(c.run) # {} /\ c.run.videos > 0

ReviewReads(i, p) ==
    LET r == files[i].review IN
    /\ r.state = "review" /\ r.attempt = i /\ r.plan = plans[p]
    /\ r.cold = files[i].cold /\ r.run = files[i].cold.run.id /\ r.clips = files[i].cold.run.videos

Phases(i) == <<files[i].cold, files[i].review>>
PhaseOf(i) ==
    IF files[i].cold = Absent THEN "cold_run" ELSE IF files[i].review = Absent THEN "manual_review" ELSE "cache_rerun"

Rejection == [reason |-> "", code |-> "", class |-> "candidate_rejected"]
Unclassified(reason, code, class) == [reason |-> reason, code |-> code, class |-> class]
FailureReads(f, phase) ==
    \/ f.class = "candidate_rejected"
    \/ f.class = "provider_transient" /\ phase = "cold_run" /\ f.reason = "run.failed" /\ f.code = "transient"
    \/ f.class = "certified_host_infrastructure" /\ f.reason = "independent_validation.launch_failed"

\* The run that failed still says so.
OriginalReads(i, r) ==
    r.failure.class = "provider_transient" =>
        \E n \in DOMAIN runs[i] :
            /\ r.runs # <<>> /\ runs[i][n].id = r.runs[Len(r.runs)]
            /\ runs[i][n].status = "failed" /\ runs[i][n].code = r.failure.code

PassReads(i, p) ==
    LET r == files[i].record IN
    /\ r.state = "passed" /\ files[i].cold # Absent /\ files[i].review # Absent
    /\ r.attempt = i /\ r.plan = plans[p] /\ r.phases = Phases(i)
    /\ r.cold = files[i].cold.run /\ Asked(r.warm) = {} /\ r.projection = files[i].cold.projection
    /\ r.checked.cold = files[i].cold.checked

FailReads(i, p) ==
    LET r == files[i].record IN
    /\ r.state = "failed" /\ r.attempt = i /\ r.plan = plans[p]
    /\ r.phases = Phases(i) /\ r.phase = PhaseOf(i)
    /\ FailureReads(r.failure, r.phase) /\ OriginalReads(i, r)

ClassReads(i, p) ==
    LET c == files[i].class IN
    /\ c.state = "class" /\ c.attempt = i /\ c.plan = plans[p] /\ c.record = files[i].record
    /\ files[i].record.state = "failed" /\ files[i].record.failure.class # "candidate_rejected"
    /\ c.class = files[i].record.failure.class

AttemptReads(i, p) ==
    /\ files[i].workspace /\ files[i].private
    /\ files[i].cold = Absent \/ ColdReads(i, p)
    /\ files[i].review = Absent \/ (files[i].cold # Absent /\ ReviewReads(i, p))
    /\ files[i].record = Absent \/ PassReads(i, p) \/ FailReads(i, p)
    /\ files[i].class = Absent \/ ClassReads(i, p)

\* _attempt_state: the directory is a history the gate could have written.  A
\* classification that does not read has a code of its own in the program
\* (attempt.classification_invalid), here it is attempt.state_invalid too.
StateReads(p) ==
    /\ \A i \in Attempts : Exists(i) <=> i <= Latest
    /\ \A i \in 1..Latest : AttemptReads(i, p)
    /\ \A i \in 1..(Latest - 1) : files[i].record.state = "failed" /\ files[i].class # Absent

Pending == {i \in 1..Latest : files[i].record = Absent}

\* Fault: a failure that nobody excused does not keep the candidate from another try.
RetryRejected(p) ==
    LET f == files[Latest] IN
    IF ~StateReads(p) THEN "attempt.state_invalid"
    ELSE IF Latest = 0 \/ f.record.state = "failed" THEN ""
    ELSE IF f.record.state = "passed" THEN "attempt.already_passed" ELSE "attempt.state_invalid"

\* _new_attempt_context: why no new attempt may start.
NewAttemptRefused(p) ==
    LET f == files[Latest] IN
    IF ~StateReads(p) THEN "attempt.state_invalid"
    ELSE IF Latest = 0 THEN ""
    ELSE IF f.record = Absent
    THEN IF f.review # Absent THEN "attempt.awaiting_cache_rerun"
         ELSE IF f.cold # Absent THEN "attempt.awaiting_manual_review" ELSE "attempt.state_invalid"
    ELSE IF f.record.state = "passed" THEN "attempt.already_passed"
    ELSE IF f.class # Absent THEN ""
    ELSE IF f.record.failure.class = "candidate_rejected" THEN "attempt.candidate_rejected"
    ELSE "attempt.classification_required"

PendingRefused(p) ==
    IF ~StateReads(p) THEN "attempt.state_invalid"
    ELSE IF Pending # {} THEN ""
    ELSE IF Latest > 0 /\ files[Latest].record.state = "passed" THEN "attempt.already_passed"
    ELSE "review.required"

Ids(i) == [n \in DOMAIN runs[i] |-> runs[i][n].id]

\* The runs a failed attempt names, unless there are more than it may have.
FailedRuns(i) ==
    IF files[i].cold = Absent THEN Ids(i)
    ELSE LET c    == files[i].cold.run.id
             more == {n \in DOMAIN runs[i] : runs[i][n].id # c} IN
         IF more = {} THEN <<c>> ELSE <<c, runs[i][CHOOSE n \in more : TRUE].id>>
TooManyRuns(i) == Len(runs[i]) > (IF files[i].cold = Absent THEN 1 ELSE 2)

\* Fault: a provider that is away excuses the rerun too.
ExcuseAnyPhase(i, reason, phase) ==
    LET ids == FailedRuns(i)
        last == CHOOSE n \in DOMAIN runs[i] : runs[i][n].id = ids[Len(ids)] IN
    IF reason = "run.failed" /\ ids # <<>> /\ runs[i][last].code = "transient"
    THEN Unclassified(reason, "transient", "provider_transient") ELSE Rejection

FailureFact(i, reason, phase) ==
    LET ids == FailedRuns(i)
        last == CHOOSE n \in DOMAIN runs[i] : runs[i][n].id = ids[Len(ids)] IN
    IF phase = "cold_run" /\ reason = "run.failed" /\ ids # <<>> /\ runs[i][last].code = "transient"
    THEN Unclassified(reason, "transient", "provider_transient")
    ELSE IF reason = "independent_validation.launch_failed"
    THEN Unclassified(reason, reason, "certified_host_infrastructure")
    ELSE Rejection

-----------------------------------------------------------------------------
(* The steps of the commands.                                                   *)

Free(c) == /\ cmd[c] = Idle
           /\ IF \A d \in Commands : cmd[d] = Idle THEN UNCHANGED <<left, met>>
              ELSE left.overlaps > 0 /\ left' = [left EXCEPT !.overlaps = @ - 1] /\ met' = TRUE
At(c, pc) == cmd[c].pc = pc
Goes(c, x) == cmd' = [cmd EXCEPT ![c] = x]
Refusals == {"credential.missing_or_invalid", "credential.source_unverified"}    \* no credential to look for
Command(name, pc, p, i) ==
    [pc |-> pc, name |-> name, plan |-> p, attempt |-> i, reason |-> "", value |-> Absent, run |-> 0]
On(c, pc) == [cmd[c] EXCEPT !.pc = pc]
FailsWith(x, reason) ==   \* the reasons that decide anything; the others are one
    [x EXCEPT !.pc = "failing", !.value = Absent,
              !.reason = IF reason \in Refusals \cup {"run.failed", "review.failed",
                                                     "independent_validation.launch_failed"}
                         THEN reason ELSE "other"]
Writes(x, value) == [x EXCEPT !.pc = "write", !.value = value]
Disk == <<world, plans, torn, cut, sealed, unfiled>>
Budget == <<left, met>>
Space == <<runs, deliveryRun, previousRun>>

\* The host and the inputs may change under the gate.
WorldChanges ==
    /\ left.changes > 0 /\ left' = [left EXCEPT !.changes = @ - 1]
    /\ \E w \in Worlds : w # world /\ world' = w
    /\ UNCHANGED <<plans, files, runs, deliveryRun, previousRun, cmd, sealed, torn, cut, met, unfiled>>

\* prepare_plan: lock what is there, with nothing in the directory yet.
PreparePlan(p) ==
    /\ Consistent(world) /\ Latest = 0 /\ plans[p] = Absent
    /\ plans' = [plans EXCEPT ![p] = [state |-> "plan", facts |-> world]]
    /\ UNCHANGED <<world, left, files, runs, deliveryRun, previousRun, cmd, sealed, torn, cut, met, unfiled>>

\* execute_gate, up to the choice of the attempt; the credential may be refused.
Execute(c, p, credential) ==
    /\ Free(c) /\ plans[p] # Absent
    /\ LET x == Command("execute", "workspace", p, Latest + 1) IN
       IF credential # "" THEN Goes(c, FailsWith(x, credential))
       ELSE IF ~Holds(p) THEN Goes(c, FailsWith(x, "plan.drift"))
       ELSE IF NewAttemptRefused(p) # "" THEN Goes(c, FailsWith(x, NewAttemptRefused(p)))
       ELSE Latest < MaxTries /\ Goes(c, x)
    /\ UNCHANGED <<Disk, files, Space>>

\* The two directories of an attempt, one after the other.
MakeDirectory(c, which, next) ==
    /\ At(c, which)
    /\ LET i == cmd[c].attempt IN
       IF (IF which = "workspace" THEN files[i].workspace ELSE files[i].private)
       THEN Goes(c, FailsWith(cmd[c], "attempt.workspace_create_failed")) /\ UNCHANGED files
       ELSE /\ files' = [files EXCEPT ![i] = IF which = "workspace" THEN [@ EXCEPT !.workspace = TRUE]
                                             ELSE [@ EXCEPT !.private = TRUE]]
            /\ Goes(c, On(c, next))
    /\ UNCHANGED <<Disk, Budget, Space>>

Running(i) == \E c \in Commands : At(c, "running") /\ cmd[c].attempt = i

\* _run_live starts the installed program: its run directory appears.  The lease of
\* the workspace turns a second one away before it has one.
StartRun(c) ==
    /\ At(c, "run")
    /\ LET i == cmd[c].attempt IN
       IF Running(i)
       THEN Goes(c, FailsWith(cmd[c], "run.diagnostics_missing")) /\ UNCHANGED runs
       ELSE /\ Len(runs[i]) < MaxRuns
            /\ runs' = [runs EXCEPT ![i] =
                         Append(@, [id |-> <<i, Len(@) + 1>>, status |-> "running", code |-> "",
                                    inputs |-> world.inputs, candidate |-> world.candidate,
                                    installation |-> world.installation, leak |-> FALSE])]
            /\ Goes(c, [On(c, "running") EXCEPT !.run = Len(runs[i]) + 1])
    /\ UNCHANGED <<Disk, Budget, files, deliveryRun, previousRun>>

\* The run ends; when it succeeds its delivery has replaced the last one, which an
\* overwriting run keeps.
FinishRun(c, o) ==
    /\ At(c, "running")
    /\ LET i == cmd[c].attempt
           n == cmd[c].run IN
       /\ runs' = [runs EXCEPT ![i][n] =
                     [id |-> @.id, status |-> o.status, code |-> o.code, inputs |-> @.inputs,
                      candidate |-> @.candidate, installation |-> @.installation, contract |-> o.contract,
                      requests |-> o.requests, cache |-> o.cache, videos |-> o.videos, projection |-> o.projection,
                      leak |-> o.leak]]
       /\ IF o.status = "succeeded"
          THEN deliveryRun' = [deliveryRun EXCEPT ![i] = n] /\ previousRun' = [previousRun EXCEPT ![i] = deliveryRun[i]]
          ELSE UNCHANGED <<deliveryRun, previousRun>>
       /\ Goes(c, On(c, "judge"))
    /\ UNCHANGED <<Disk, Budget, files>>

\* The rest of _execute_cold_pass: v is what the validator said.
JudgeCold(c, v) ==
    /\ At(c, "judge") /\ cmd[c].name = "execute"
    /\ LET x == cmd[c]
           i == x.attempt
           r == runs[i][x.run]
           summary == Summary(r, plans[x.plan].facts, FALSE)
           reason == IF summary # "" THEN summary ELSE Validation(v) IN
       /\ files' = IF reason = "" THEN [files EXCEPT ![i].checked.cold = Checked(r)] ELSE files
       /\ IF reason # "" THEN Goes(c, FailsWith(x, reason)) /\ UNCHANGED runs
          ELSE IF Leaked(i) # {}
          THEN Goes(c, FailsWith(x, "credential.evidence_leak")) /\ runs' = [runs EXCEPT ![i] = Cleaned(i)]
          ELSE /\ Goes(c, Writes(x, [state |-> "cold", attempt |-> i, plan |-> plans[x.plan], run |-> r,
                                     projection |-> Projection(r), checked |-> Checked(r)]))
               /\ UNCHANGED runs
    /\ UNCHANGED <<Disk, Budget, deliveryRun, previousRun>>

\* record_review: what the operator found, about some run.
Review(c, p, run, passed) ==
    /\ Free(c) /\ plans[p] # Absent
    /\ LET i == Latest
           x == Command("review", "write", p, i)
           reason == IF ~Holds(p) THEN "plan.drift"
                     ELSE IF PendingRefused(p) # "" THEN PendingRefused(p)
                     ELSE IF files[i].cold = Absent THEN "review.required"
                     ELSE IF files[i].review # Absent THEN "review.already_recorded"
                     ELSE IF run # files[i].cold.run.id THEN "review.binding_invalid"
                     ELSE IF ~passed THEN "review.failed" ELSE "" IN
       IF reason # "" THEN Goes(c, FailsWith(x, reason))
       ELSE Goes(c, Writes(x, [state |-> "review", attempt |-> i, plan |-> plans[p], cold |-> files[i].cold,
                               run |-> run, clips |-> files[i].cold.run.videos]))
    /\ UNCHANGED <<Disk, files, Space>>

\* rerun_gate, up to the start of the second run: nothing holds the credential, and
\* the cold run and its delivery are still there.
Kept(i) ==
    /\ \E n \in DOMAIN runs[i] : runs[i][n] = files[i].cold.run
    /\ Ids(i)[deliveryRun[i]] = files[i].cold.run.id
Rerun(c, p, credential) ==
    /\ Free(c) /\ plans[p] # Absent
    /\ LET i == Latest
           x == Command("rerun", "run", p, i)
           refused == IF credential # "" THEN credential
                      ELSE IF ~Holds(p) THEN "plan.drift"
                      ELSE IF PendingRefused(p) # "" THEN PendingRefused(p)
                      ELSE IF files[i].cold = Absent \/ files[i].review = Absent THEN "review.required" ELSE "" IN
       /\ runs' = IF refused = "" THEN [runs EXCEPT ![i] = Cleaned(i)] ELSE runs
       /\ IF refused # "" THEN Goes(c, FailsWith(x, refused))
          ELSE IF Leaked(i) # {} THEN Goes(c, FailsWith(x, "credential.evidence_leak"))
          ELSE IF ~Kept(i) THEN Goes(c, FailsWith(x, "cold_run.evidence_drift")) ELSE Goes(c, x)
    /\ UNCHANGED <<Disk, files, deliveryRun, previousRun>>

\* The rest of _rerun_pass: v is what the validator said of the delivery that was kept
\* and w what it said of the new one.
WarmReason(x, r) ==
    LET i == x.attempt
        f == files[i]
        summary == Summary(r, plans[x.plan].facts, TRUE) IN
    IF summary # "" THEN summary
    ELSE IF r.installation # f.cold.run.installation THEN "run.environment_binding_invalid"
    ELSE IF previousRun[i] = 0 \/ Ids(i)[previousRun[i]] # f.cold.run.id THEN "cache_rerun.previous_delivery_drift"
    ELSE IF Projection(r) # f.cold.projection THEN "cache_rerun.semantic_drift" ELSE ""

JudgeWarm(c, v, w) ==
    /\ At(c, "judge") /\ cmd[c].name = "rerun"
    /\ LET x == cmd[c]
           i == x.attempt
           f == files[i]
           r == runs[i][x.run]
           first  == IF WarmReason(x, r) # "" THEN WarmReason(x, r) ELSE Validation(v)
           second == IF first # "" THEN first ELSE Validation(w)
           reason == IF second # "" THEN second
                     ELSE IF r.videos # f.cold.run.videos THEN "independent_validation.failed"
                     ELSE IF Leaked(i) # {} THEN "credential.evidence_leak" ELSE ""
           checked == [f.checked EXCEPT !.previous = IF first = "" THEN Checked(f.cold.run) ELSE @,
                                        !.warm     = IF second = "" THEN Checked(r) ELSE @] IN
       /\ files' = [files EXCEPT ![i].checked = checked]
       /\ runs' = IF reason = "credential.evidence_leak" THEN [runs EXCEPT ![i] = Cleaned(i)] ELSE runs
       /\ IF reason # "" THEN Goes(c, FailsWith(x, reason))
          ELSE Goes(c, Writes(x, [state |-> "passed", attempt |-> i, plan |-> plans[x.plan], phases |-> Phases(i),
                                  cold |-> f.cold.run, warm |-> r, projection |-> f.cold.projection,
                                  checked |-> [checked EXCEPT !.cold = f.cold.checked]]))
    /\ UNCHANGED <<Disk, Budget, deliveryRun, previousRun>>

\* classify_failure: the operator excuses a failure the gate left open.
Classify(c, p, i, class) ==
    /\ Free(c) /\ plans[p] # Absent
    /\ LET f == files[i] IN
       /\ Holds(p) /\ StateReads(p) /\ Exists(i)
       /\ f.record.state = "failed" /\ f.class = Absent /\ f.record.failure.class = class
       /\ class # "candidate_rejected"
       /\ Goes(c, Writes(Command("classify", "write", p, i),
                         [state |-> "class", attempt |-> i, plan |-> plans[p], record |-> f.record, class |-> class]))
    /\ UNCHANGED <<Disk, files, Space>>

\* _write_new_json: the file must not exist yet.
Taken(i, state) ==
    CASE state = "cold"   -> files[i].cold # Absent
      [] state = "review" -> files[i].review # Absent
      [] state = "class"  -> files[i].class # Absent
      [] OTHER            -> files[i].record # Absent
Filed(f, state, x) ==
    CASE state = "cold"   -> [f EXCEPT !.cold = x]
      [] state = "review" -> [f EXCEPT !.review = x]
      [] state = "class"  -> [f EXCEPT !.class = x]
      [] OTHER            -> [f EXCEPT !.record = x]

WriteRecord(c) ==
    /\ At(c, "write")
    /\ LET x == cmd[c] IN
       IF Taken(x.attempt, x.value.state)
       THEN Goes(c, IF x.reason # "" THEN Idle ELSE FailsWith(x, "attempt.write_failed")) /\ UNCHANGED files
       ELSE Goes(c, Idle) /\ files' = [files EXCEPT ![x.attempt] = Filed(@, x.value.state, x.value)]
    /\ UNCHANGED <<Disk, Budget, Space>>

\* What the handler of a command records of its failure, if anything: the phase has
\* to be the one that failed, and the scan of the whole directory has the last word.
PhaseFailed(x, i) ==
    CASE x.name = "execute" -> PhaseOf(i) = "cold_run"
      [] x.name = "review"  -> x.reason = "review.failed" /\ PhaseOf(i) = "manual_review"
      [] x.name = "rerun"   -> x.reason # "credential.missing_or_invalid" /\ PhaseOf(i) = "cache_rerun"
      [] OTHER              -> FALSE

RecordFailure(c) ==
    /\ At(c, "failing")
    /\ LET x == cmd[c]
           i == Latest
           scanned == Holds(x.plan) /\ x.name \in {"execute", "rerun"} /\ x.reason \notin Refusals
           leak == scanned /\ \E j \in Attempts : Leaked(j) # {}
           reason == IF leak THEN "credential.evidence_leak" ELSE x.reason IN
       /\ runs' = IF leak THEN [j \in Attempts |-> Cleaned(j)] ELSE runs
       /\ IF Holds(x.plan) /\ StateReads(x.plan) /\ Pending # {} /\ PhaseFailed(x, i) /\ ~TooManyRuns(i)
          THEN Goes(c, Writes([x EXCEPT !.attempt = i],
                              [state |-> "failed", attempt |-> i, plan |-> plans[x.plan], phases |-> Phases(i),
                               phase |-> PhaseOf(i), runs |-> FailedRuns(i),
                               failure |-> FailureFact(i, reason, PhaseOf(i))]))
          ELSE Goes(c, Idle)
       /\ unfiled' = (unfiled \/ (x.run # 0 /\ ~Holds(x.plan)))
    /\ UNCHANGED <<world, plans, torn, cut, sealed, Budget, files, deliveryRun, previousRun>>

\* A command is killed, with the run it waits for: between the two directories or in
\* the middle of a write it leaves half of what it was at.
Kill(c) ==
    /\ cmd[c] # Idle /\ left.kills > 0
    /\ left' = [left EXCEPT !.kills = @ - 1] /\ Goes(c, Idle)
    /\ cut' = (cut \/ cmd[c].run # 0)
    /\ \/ ~At(c, "private") /\ UNCHANGED <<files, torn>>
       \/ At(c, "private") /\ torn' = TRUE /\ UNCHANGED files
       \/ /\ At(c, "write") /\ ~Taken(cmd[c].attempt, cmd[c].value.state)
          /\ files' = [files EXCEPT ![cmd[c].attempt] = Filed(@, cmd[c].value.state, Half)]
          /\ torn' = TRUE
    /\ UNCHANGED <<world, plans, Space, sealed, met, unfiled>>

-----------------------------------------------------------------------------
(* validate_release_evidence.py: what may be sealed.                            *)

\* The evidence repeats what the originals say, so the document an operator hands in
\* exists when they agree with one another and with the rules for that document.

\* What a run may say of itself: every provider asked or none, a cache that was empty
\* or answered everything; the shards are not looked for when the transcript is there.
ProviderSays(requests, warm) == IF warm THEN requests = 0 ELSE requests > 0
CacheSays(name, s, warm) ==
    IF ~warm THEN s.hits = 0 /\ s.misses > 0 /\ s.writes > 0
    ELSE IF name = "transcription_shard" THEN s = Unused
    ELSE s.hits > 0 /\ s.misses = 0 /\ s.writes = 0
CacheOf(r, warm) ==
    [n \in DOMAIN r.cache \cup {m \in {"transcription_shard"} : warm} |->
        IF n \in DOMAIN r.cache THEN r.cache[n] ELSE Unused]
ProvidersSay(r, warm) == \A c \in Capabilities : ProviderSays(r.requests[c], warm)
CachesSay(r, warm) ==
    /\ DOMAIN CacheOf(r, warm) = Namespaces
    /\ \A n \in Namespaces : CacheSays(n, CacheOf(r, warm)[n], warm)
RunSays(r, warm) == r.status = "succeeded" /\ r.videos > 0 /\ ProvidersSay(r, warm) /\ CachesSay(r, warm)

RunPair(a, b) == a.id # b.id /\ a.videos = b.videos /\ a.installation = b.installation
DeliverySays(v, r) == v.state = "valid" /\ v.run = r.id /\ v.clips = r.videos
SameMeaning(a, b) == Projection(a) = Projection(b)
ReviewSays(r, run) == r.run = run.id /\ r.clips = run.videos
RetrySays(f, ran, others) ==
    /\ \/ f.class = "provider_transient" /\ f.code = "transient"
       \/ f.class = "certified_host_infrastructure" /\ f.code = "independent_validation.launch_failed"
    /\ ran \notin others

\* The plan once more, against the disk and against the reports.
CrossCheck(w) == w.keyless.candidate = w.candidate /\ w.installed.candidate = w.candidate
CandidateSays(w)    == w.candidate = world.candidate
InstallationSays(w) == w.installation = world.installation /\ world.installation.wheel = world.candidate
GatesSay(w)         == w.keyless = world.keyless /\ w.installed = world.installed /\ w.tools = w.keyless.tools
InputsSay(w)        == w.inputs = world.inputs
ToolsSay(w)         == w.tools = world.tools
PlanSays(p) ==
    /\ plans[p].state = "plan"
    /\ LET w == plans[p].facts IN
       CandidateSays(w) /\ InstallationSays(w) /\ GatesSay(w) /\ InputsSay(w) /\ ToolsSay(w)

\* A run bound to its originals: its manifest, and the delivery that is there.
ManifestBound(i, r, p) ==
    /\ \E n \in DOMAIN runs[i] : runs[i][n] = r
    /\ r.contract /\ r.inputs = plans[p].facts.inputs
    /\ r.candidate = plans[p].facts.candidate /\ r.installation = plans[p].facts.installation
DeliveryBound(i, r, where) == where # 0 /\ Ids(i)[where] = r.id /\ r.videos > 0
BoundRun(i, r, where, p, warm) == ManifestBound(i, r, p) /\ RunSays(r, warm) /\ DeliveryBound(i, r, where)

\* One attempt that failed and was excused.
FailedOriginal(i, id, p, transient) ==
    \E n \in DOMAIN runs[i] :
        /\ runs[i][n].id = id /\ runs[i][n].inputs = plans[p].facts.inputs
        /\ runs[i][n].installation = plans[p].facts.installation
        /\ transient => runs[i][n].status = "failed" /\ runs[i][n].code = "transient"
FailureBound(f, phase) ==
    \/ phase = "cold_run" /\ f = Unclassified("run.failed", "transient", "provider_transient")
    \/ LET n == "independent_validation.launch_failed" IN f = Unclassified(n, n, "certified_host_infrastructure")
FailedRecordBound(i, p) ==
    LET r == files[i].record IN
    /\ r.state = "failed" /\ r.attempt = i /\ r.plan = plans[p]
    /\ r.phase = PhaseOf(i) /\ r.phases = Phases(i)
    /\ r.runs # <<>> /\ Cardinality({r.runs[k] : k \in DOMAIN r.runs}) = Len(r.runs)
ClassBound(i, p) ==
    LET c == files[i].class IN
    c.state = "class" /\ c.attempt = i /\ c.plan = plans[p] /\ c.record = files[i].record
    /\ c.class = files[i].record.failure.class
Excused(i, p, others) ==
    LET r == files[i].record
        failed == r.runs[Len(r.runs)] IN
    /\ files[i].workspace /\ files[i].private
    /\ FailedRecordBound(i, p) /\ FailureBound(r.failure, r.phase)
    /\ \A k \in DOMAIN r.runs :
          FailedOriginal(i, r.runs[k], p, r.failure.class = "provider_transient" /\ k = Len(r.runs))
    /\ ClassBound(i, p) /\ RetrySays(r.failure, failed, others)

RetryHistory(i, p) ==
    /\ Latest = i /\ \A j \in 1..i : Exists(j)
    /\ files[i].class = Absent
    /\ \A j \in 1..(i - 1) : Excused(j, p, {files[i].record.cold.id, files[i].record.warm.id})

\* The attempt that passed, its two phases and the validations.
PassBound(i, p) ==
    LET r == files[i].record IN
    r.state = "passed" /\ r.attempt = i /\ r.plan = plans[p] /\ files[i].workspace /\ files[i].private
ColdBound(i, p) ==
    LET c == files[i].cold IN
    c.state = "cold" /\ c.attempt = i /\ c.plan = plans[p] /\ c.run = files[i].record.cold
ReviewBound(i, p) ==
    LET v == files[i].review IN
    v.state = "review" /\ v.attempt = i /\ v.plan = plans[p] /\ v.cold = files[i].cold
    /\ ReviewSays(v, files[i].record.cold)
ValidationsBound(i) ==
    LET f == files[i] IN
    /\ DeliverySays(f.checked.cold, f.record.cold) /\ DeliverySays(f.checked.warm, f.record.warm)
    /\ f.checked.previous = f.checked.cold /\ f.record.checked = f.checked
    /\ f.cold.checked = f.checked.cold

Sealable(i, p) ==
    LET r == files[i].record IN
    /\ CrossCheck(world) /\ PlanSays(p)
    /\ PassBound(i, p) /\ ColdBound(i, p) /\ ReviewBound(i, p) /\ r.phases = Phases(i)
    /\ BoundRun(i, r.cold, previousRun[i], p, FALSE) /\ BoundRun(i, r.warm, deliveryRun[i], p, TRUE)
    /\ RunPair(r.cold, r.warm) /\ ValidationsBound(i)
    /\ SameMeaning(r.cold, r.warm) /\ r.projection = Projection(r.cold)
    /\ files[i].cold.projection = r.projection
    /\ RetryHistory(i, p)

\* validate_and_seal: the evidence is linked into place once.
Seal(p, i) ==
    /\ plans[p] # Absent /\ Sealable(i, p) /\ sealed = 0
    /\ sealed' = i
    /\ UNCHANGED <<world, left, plans, files, runs, deliveryRun, previousRun, cmd, torn, cut, met, unfiled>>

-----------------------------------------------------------------------------
GateInit ==
    /\ world \in Worlds /\ left \in [changes : 0..MaxLeft, kills : 0..MaxLeft, overlaps : 0..MaxLeft]
    /\ plans \in [PlanPaths -> {Absent, Half}] /\ files = [i \in Attempts |-> NoAttempt]
    /\ runs = [i \in Attempts |-> <<>>] /\ deliveryRun = [i \in Attempts |-> 0] /\ previousRun = [i \in Attempts |-> 0]
    /\ cmd = [c \in Commands |-> Idle] /\ sealed = 0
    /\ torn = FALSE /\ cut = FALSE /\ met = FALSE /\ unfiled = FALSE

Verdicts == {"accepted", "rejected", "not_launched"}
Step(c) ==
    \/ \E p \in PlanPaths, k \in Refusals \cup {""} : Execute(c, p, k) \/ Rerun(c, p, k)
    \/ MakeDirectory(c, "workspace", "private") \/ MakeDirectory(c, "private", "run") \/ StartRun(c)
    \/ At(c, "running") /\ cmd[c].name = "execute" /\ \E o \in ColdOutcomes : FinishRun(c, o)
    \/ At(c, "running") /\ cmd[c].name = "rerun" /\ \E o \in WarmOutcomes : FinishRun(c, o)
    \/ \E v \in Verdicts : JudgeCold(c, v) \/ \E w \in Verdicts : JudgeWarm(c, v, w)
    \/ \E p \in PlanPaths, passed \in BOOLEAN :
          \E run \in {<<0, 0>>} \cup {files[i].cold.run.id : i \in {j \in Attempts : files[j].cold.state = "cold"}} :
             Review(c, p, run, passed)
    \/ \E p \in PlanPaths, i \in Attempts, k \in {"provider_transient", "certified_host_infrastructure"} :
          Classify(c, p, i, k)
    \/ WriteRecord(c) \/ Kill(c) \/ RecordFailure(c)

GateNext ==
    \/ WorldChanges
    \/ \E p \in PlanPaths : PreparePlan(p) \/ \E i \in Attempts : Seal(p, i)
    \/ \E c \in Commands : Step(c)

GateSpec == GateInit /\ [][GateNext]_gateVars

-----------------------------------------------------------------------------
(* Properties.                                                                  *)

\* The ground a pass stands on: two different runs of the planned candidate on the
\* planned inputs, the first asking every provider, the second none, which produced
\* the same and left the credential nowhere; and a person looked at the first.
Earned(i) ==
    LET r == files[i].record IN
    \E a, b \in DOMAIN runs[i] :
        /\ a < b /\ runs[i][a] = r.cold /\ runs[i][b] = r.warm
        /\ Asked(r.cold) = Capabilities /\ Asked(r.warm) = {}
        /\ \A x \in {r.cold, r.warm} : /\ x.status = "succeeded"
                                        /\ x.inputs = r.plan.facts.inputs
                                        /\ x.installation = r.plan.facts.installation
        /\ r.cold.projection = r.warm.projection /\ {a, b} \cap Leaked(i) = {}
        /\ files[i].review.state = "review" /\ files[i].review.run = r.cold.id
        /\ files[i].review.plan = r.plan /\ files[i].cold.plan = r.plan

\* What a rejected candidate may never get is another try: every attempt before
\* another was ended by a provider that was briefly away or a validator that could
\* not be started, and an operator said so.
Deserved(i) ==
    LET r == files[i].record IN
    /\ r.state = "failed" /\ files[i].class # Absent
    /\ \/ /\ r.failure.class = "provider_transient" /\ files[i].cold = Absent
          /\ \E n \in DOMAIN runs[i] : runs[i][n].status = "failed" /\ runs[i][n].code = "transient"
       \/ r.failure.reason = "independent_validation.launch_failed"

PassesAreEarned ==
    \A i \in Attempts :
        /\ files[i].record.state = "passed" =>
              /\ Earned(i)
              /\ ~met /\ ~cut /\ ~unfiled => Len(runs[i]) = 2
              /\ ~met => Leaked(i) = {}
        /\ i < Latest => Deserved(i)

\* Unless two commands overlapped or a kill left half a write, some plan still reads
\* the whole directory: no sequence of commands, killed or not, locks the gate.
Legible ==
    ~met /\ ~torn /\ Latest > 0 =>
        \/ \E p \in PlanPaths : plans[p].state = "plan" /\ StateReads(p)
        \/ \E c \in Commands : At(c, "private")

\* At most one attempt passes, and the sealed one is a pass that is still there.
OnePass ==
    /\ \A i, j \in Attempts : files[i].record.state = "passed" /\ files[j].record.state = "passed" => i = j
    /\ sealed # 0 => files[sealed].record.state = "passed" /\ Earned(sealed)
                      /\ \A j \in 1..(sealed - 1) : Deserved(j)

\* What the gate lets pass can be sealed: the two scripts agree on what a pass is,
\* unless a failed attempt ran on a host that was not the planned one, which only the
\* seal looks at.
RanAsPlanned(j, p) ==
    \A n \in DOMAIN runs[j] :
        /\ runs[j][n].inputs = plans[p].facts.inputs
        /\ runs[j][n].installation = plans[p].facts.installation
PassesCanBeSealed ==
    \A i \in Attempts, p \in PlanPaths :
        /\ files[i].record.state = "passed" /\ files[i].record.plan = plans[p] /\ Holds(p) /\ ~met
        /\ \A j \in 1..(i - 1) : RanAsPlanned(j, p)
        => Sealable(i, p)

\* What the release gate lets pass is earned, no command locks the gate, one attempt
\* passes, and what passes can be sealed.
GateSound == PassesAreEarned /\ Legible /\ OnePass /\ PassesCanBeSealed

\* The host is one there may be, and no run is counted beyond its bound.
GateTypeOK ==
    /\ world \in Worlds /\ \A n \in DOMAIN left : left[n] \in 0..MaxLeft
    /\ sealed \in 0..MaxTries
    /\ \A i \in Attempts : /\ deliveryRun[i] \in 0..Len(runs[i]) /\ previousRun[i] \in 0..Len(runs[i])
                           /\ Len(runs[i]) <= MaxRuns

=============================================================================
