----------------------- MODULE DiagnosticPackageReader -----------------------
(***************************************************************************)
(* What a diagnostic package is accepted as (diagnostics/_reader.py): the  *)
(* events.jsonl and run.json of one run, read without the session that     *)
(* wrote them.  The reader goes over the lines several times; here a record*)
(* `r` holds what its loops have gathered after the lines so far, and Read *)
(* is one more line.  The fields of an event that are compared with nothing*)
(* else are left out, and so are times and durations.                      *)
(***************************************************************************)
EXTENDS Naturals, FiniteSets

CONSTANTS
    Stages,         \* the stages of a run
    Transcription,  \* the one with aggregated execution facts
    Ops,            \* identities of diagnostic operations
    Paths,          \* files of the delivery
    None

ASSUME PackageAssumption ==
    /\ Transcription \in Stages
    /\ None \notin Stages \cup Ops \cup Paths

RetryKinds == {"transport", "coverage"}
CacheOutcomes == {"hit", "corrupt"}
NoticeKinds == {"retried", "recovered"}

(* Nothing but the first line, run.initialized, has been read.             *)
Initialized ==
    [lines |-> 1, readable |-> TRUE, ordered |-> TRUE, possible |-> TRUE,
     active |-> None, last |-> None, stages |-> [s \in Stages |-> "not_started"],
     ops |-> [o \in Ops |-> [state |-> "unknown", stage |-> None, parent |-> None,
                             kind |-> None, attempts |-> 0]],
     retries |-> [k \in RetryKinds |-> 0], internal |-> [k \in RetryKinds |-> 0],
     execution |-> None, cache |-> [c \in CacheOutcomes |-> 0], hit |-> FALSE,
     notices |-> [n \in NoticeKinds |-> 0], interrupted |-> FALSE,
     selected |-> FALSE, unused |-> FALSE, contacted |-> FALSE,
     build |-> "not_started", verification |-> "not_started", publication |-> "not_started",
     created |-> {}, verified |-> {}, errors |-> {}, terminal |-> None]

Running(r) == {o \in Ops : r.ops[o].state = "active"}

SameOperation(r, e) ==
    /\ e.op \in Running(r)
    /\ r.ops[e.op].stage = e.stage
    /\ r.ops[e.op].parent = e.parent

(* Aggregated facts end the operations of the transcription.               *)
Aggregated(r, e) == e.stage = Transcription /\ r.execution # None

(* The order of the lines: stages one after the other, everything inside a *)
(* stage, operations inside their parents, the run's end at the end.       *)
Ordered(r, e) ==
    /\ r.terminal = None
    /\ \/ /\ e.code = "run.completed"
          /\ r.active = None /\ Running(r) = {}
          /\ e.outcome # "failed" => e.stage = r.last
       \/ e.code = "stage.started" /\ r.active = None /\ r.stages[e.stage] = "not_started"
       \/ e.code = "stage.completed" /\ r.active = e.stage /\ Running(r) = {}
       \/ /\ e.code \notin {"run.completed", "stage.started", "stage.completed"}
          /\ r.active = e.stage
          /\ CASE e.code = "operation.started" ->
                    /\ ~Aggregated(r, e)
                    /\ r.ops[e.op].state = "unknown"
                    /\ e.parent \in Running(r) \cup {None}
               [] e.code = "operation.completed" ->
                    /\ SameOperation(r, e)
                    /\ r.ops[e.op].kind = e.kind
                    /\ r.ops[e.op].attempts = e.attempts
                    /\ \A o \in Running(r) : r.ops[o].parent # e.op
               [] e.code = "retry.scheduled" ->
                    /\ SameOperation(r, e)
                    /\ ~Aggregated(r, e)
                    /\ e.attempts = r.ops[e.op].attempts + 1
               [] e.code = "cache.observed" -> SameOperation(r, e) /\ r.ops[e.op].kind = "cache"
               [] e.code = "request.completed" -> SameOperation(r, e) /\ r.ops[e.op].kind = "request"
               [] e.code = "execution.observed" ->
                    e.stage = Transcription /\ r.execution = None /\ Running(r) = {}
               [] OTHER -> TRUE

(* Which state of a delivery phase may follow which.                       *)
Follows(phase, from, to) ==
    \/ from = "not_started" /\ to = "in_progress"
    \/ from = "in_progress" /\ to \in CASE phase = "build" -> {"completed", "failed", "interrupted"}
                                        [] phase = "verification" -> {"passed", "failed", "interrupted"}
                                        [] phase = "publication" -> {"committed", "rolled_back", "failed"}

(* The events from which the manifest is computed anew fit together.       *)
Possible(r, e) ==
    CASE e.code = "delivery.changed" ->
            /\ Follows(e.phase, r[e.phase], e.state)
            /\ e.phase = "verification" => r.build = "completed"
            /\ e.phase = "publication" => r.verification = "passed"
      [] e.code = "artifact.created" -> r.build = "in_progress" /\ e.path \notin r.created
      [] e.code = "artifact.verified" ->
            r.verification = "in_progress" /\ e.path \in r.created \ r.verified
      [] e.code = "interruption.requested" -> ~r.interrupted
      [] e.code = "service.selected" -> ~r.selected
      [] e.code = "service.unused" -> ~r.contacted /\ ~r.unused
      [] e.code = "request.completed" -> ~r.unused
      [] OTHER -> TRUE

(* What the reader has gathered after one more event.                      *)
Gathered(r, e) ==
    CASE e.code = "run.completed" -> [r EXCEPT !.terminal = e]
      [] e.code = "stage.started" -> [r EXCEPT !.active = e.stage, !.last = e.stage]
      [] e.code = "stage.completed" -> [r EXCEPT !.active = None, !.stages[e.stage] = e.outcome]
      [] e.code = "operation.started" ->
            [r EXCEPT !.ops[e.op] = [state |-> "active", stage |-> e.stage, parent |-> e.parent,
                                     kind |-> e.kind, attempts |-> 1]]
      [] e.code = "operation.completed" -> [r EXCEPT !.ops[e.op].state = "completed"]
      [] e.code = "retry.scheduled" ->
            [r EXCEPT !.ops[e.op].attempts = e.attempts, !.retries[e.retry] = @ + 1,
                      !.internal[e.retry] = IF e.stage = Transcription THEN @ + 1 ELSE @]
      [] e.code = "cache.observed" ->
            [r EXCEPT !.cache[e.outcome] = @ + 1,
                      !.hit = @ \/ (e.stage = Transcription /\ e.outcome = "hit")]
      [] e.code = "execution.observed" -> [r EXCEPT !.execution = e.counts]
      [] e.code = "error.recorded" -> [r EXCEPT !.errors = @ \cup {[seq |-> e.seq, stage |-> e.stage]}]
      [] e.code = "notice.recorded" -> [r EXCEPT !.notices[e.notice] = @ + 1]
      [] e.code = "interruption.requested" -> [r EXCEPT !.interrupted = TRUE]
      [] e.code = "delivery.changed" -> [r EXCEPT ![e.phase] = e.state]
      [] e.code = "artifact.created" -> [r EXCEPT !.created = @ \cup {e.path}]
      [] e.code = "artifact.verified" -> [r EXCEPT !.verified = @ \cup {e.path}]
      [] e.code = "service.selected" -> [r EXCEPT !.selected = TRUE]
      [] e.code = "service.unused" -> [r EXCEPT !.unused = TRUE]
      [] e.code = "request.completed" -> [r EXCEPT !.contacted = TRUE]

(* One more line: `torn` says that what precedes it is half a line.        *)
Read(r, e, torn) ==
    [Gathered(r, e) EXCEPT !.lines = r.lines + 1,
                           !.readable = r.readable /\ ~torn /\ e.seq = r.lines + 1,
                           !.ordered = r.ordered /\ Ordered(r, e),
                           !.possible = r.possible /\ Possible(r, e)]

(* The additional work: what was seen, or what the transcription reported. *)
Retries(r) ==
    [k \in RetryKinds |-> IF r.execution = None THEN r.retries[k]
                          ELSE r.retries[k] + (r.execution[k] - r.internal[k])]

(* A transcript from the cache needed no work, what was reported includes  *)
(* what was seen, no more was recovered than was tried, and the provider   *)
(* was selected before it was contacted or found not to be needed.         *)
Consistent(r) ==
    /\ \A k \in RetryKinds :
         /\ r.hit => r.internal[k] = 0 /\ (r.execution # None => r.execution[k] = 0)
         /\ r.execution # None => r.execution[k] >= r.internal[k]
    /\ r.notices["retried"] <= Retries(r)["transport"]
    /\ r.notices["recovered"] <= r.cache["corrupt"]
    /\ r.selected <=> r.unused \/ r.contacted

Completed(r) == Cardinality({o \in Ops : r.ops[o].state = "completed"})

Phases == <<"completed", "passed", "committed">>

(* What the run's end allows the delivery to be, and how it is reported.   *)
DeliveryFits(r, outcome) ==
    LET states == <<r.build, r.verification, r.publication>> IN
    /\ \A i \in 1 .. 3 : states[i] # "in_progress"
    /\ IF outcome = "succeeded"
       THEN states = <<"not_started", "not_started", "not_started">> \/ states = Phases
       ELSE r.publication # "committed"
Delivery(outcome, build, verification, publication) ==
    IF outcome = "succeeded" THEN Phases ELSE <<build, verification, publication>>

(* The errors a manifest names are the recorded ones, the primary first.   *)
ErrorsFit(r, m) ==
    /\ m.associated \subseteq r.errors
    /\ CASE m.outcome = "succeeded" -> m.primary = None /\ m.associated = {}
         [] m.outcome = "interrupted" ->
              m.primary = None /\ r.interrupted
         [] m.outcome = "failed" ->
              /\ m.primary \in r.errors
              /\ m.primary.stage = r.terminal.stage
              /\ \A a \in m.associated : a.seq > m.primary.seq

(* The manifest says what the events say.                                  *)
Matches(r, m) ==
    /\ m.outcome = r.terminal.outcome
    /\ m.eventCount = r.lines
    /\ r.possible /\ Consistent(r) /\ DeliveryFits(r, m.outcome) /\ ErrorsFit(r, m)
    /\ m.stages = r.stages
    /\ m.operations = Completed(r)
    /\ m.retries = Retries(r)
    /\ m.cache = r.cache
    /\ m.notices = r.notices
    /\ m.service = <<r.selected, r.contacted>>
    /\ m.delivery = Delivery(m.outcome, r.build, r.verification, r.publication)
    /\ m.artifacts = <<Cardinality(r.created), Cardinality(r.verified)>>

(* The answer of the reader for a log, its torn last line and a manifest.  *)
Verdict(r, torn, m) ==
    IF ~r.readable THEN "corrupt"
    ELSE IF torn \/ r.terminal = None THEN "incomplete"
    ELSE IF ~r.ordered THEN "corrupt"
    ELSE IF m = None THEN "incomplete"
    ELSE IF Matches(r, m) THEN "complete" ELSE "corrupt"
=============================================================================
