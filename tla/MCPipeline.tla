------------------------------ MODULE MCPipeline ------------------------------
(***************************************************************************)
(* The parts of the pipeline that run in one thread after one another,     *)
(* each on a small instance.  Each takes what the one before it hands over *)
(* as an input it must accept in any form, so an initial state starts one  *)
(* of them and parks the others where none of their actions is enabled.    *)
(***************************************************************************)
EXTENDS Reconciliation, TextGeneration, DeliveryChain, PlannedDelivery, ReleaseGate, TLC

-----------------------------------------------------------------------------
(* The reconciliation: three units of sound in two windows that overlap.     *)
(* The adapter says "a" with measured characters and "b" without.            *)

Between(s, e) == [start |-> s, end |-> e]
SomeSpeech(d) == {{}, {Between(0, d)}, {Between(0, 1), Between(2, 3)}, {Between(0, d + 1)}}
Within(i) == {j \in [start : i.start .. i.end, end : i.start .. i.end] : j.end - j.start \in 1 .. 2}
ChunksOf(w) == {[start |-> i.start, end |-> i.end, text |-> x, spans |-> IF x = "a" THEN {i} ELSE {}] :
                  i \in Within(w.request), x \in {"a", "b"}}
\* The second primary window may answer two chunks; the blank text is invalid.
SomeAnswers(w) ==
    LET spoken == ChunksOf(w)
        short  == {c \in spoken : c.end - c.start = 1 \/ c.start = w.core.start}
        two    == IF w.kind = "primary" /\ w.core.start > 0 THEN short \X short ELSE {}
        silent == [start |-> w.request.start, end |-> w.request.end, text |-> Blank, spans |-> {}]
    IN  {<<>>, <<silent>>} \cup {<<c>> : c \in spoken} \cup two

ReconParked ==
    /\ duration = 3 /\ speech = {} /\ works = <<>> /\ answers = <<>> /\ rounds = <<>>
    /\ audio = 0 /\ analysis = NoAnalysis /\ verdict = "interrupted" /\ reported = 0

-----------------------------------------------------------------------------
(* A stage of the text model: two units, two outputs, three requests.        *)

TextParked ==
    /\ step = "closed" /\ unit = 0 /\ semantic = 1 /\ try = 1
    /\ ledger = NoCounts /\ happened = NoCounts
    /\ call = NoCall /\ contact = "zero" /\ recorded = 0
    /\ halted = FALSE /\ broken = FALSE /\ refused = FALSE
    /\ verdictOf = "ok" /\ carried = {}

-----------------------------------------------------------------------------
(* The delivery: one clip, one document, three changes by other programs.    *)

OneClip     == <<"clip">>
OneDocument == <<"document">>

ChainParked ==
    /\ at = "ended" /\ index = 1 /\ source = "same" /\ derived = {} /\ dir = Empty
    /\ declared = NoListing /\ read = NoListing /\ tree = Empty
    /\ evidence = NoEvidence /\ proof = "none" /\ callback = "idle" /\ reached = FALSE
    /\ visible = "old" /\ stopped = TRUE /\ result = "interrupted" /\ edits = 0 /\ late = FALSE

-----------------------------------------------------------------------------
(* The plan: four candidates at most, of a recording six seconds long.       *)

Chunk(s, e, x) == [start |-> s, end |-> e, excluded |-> x]
SomeTranscripts ==
    {<<>>,
     <<Chunk(0, 1, FALSE), Chunk(1, 2, FALSE), Chunk(2, 3, FALSE)>>,
     <<Chunk(0, 1, FALSE), Chunk(1, 3, FALSE), Chunk(2, 3, FALSE), Chunk(3, 4, FALSE), Chunk(4, 5, FALSE)>>,
     <<Chunk(0, 1, FALSE), Chunk(1, 2, TRUE), Chunk(3, 5, FALSE), Chunk(5, 6, FALSE)>>,
     <<Chunk(0, 2, FALSE), Chunk(0, 6, FALSE), Chunk(2, 4, FALSE), Chunk(4, 6, FALSE)>>}
SomePolicies == {[min |-> p[1], target |-> p[2], max |-> p[3], clips |-> p[4], threshold |-> 5] :
               p \in {<<1, 1, 3, 0>>, <<1, 1, 3, 1>>, <<1, 1, 3, 2>>, <<2, 2, 3, 2>>, <<2, 3, 4, 1>>, <<2, 2, 2, 1>>}}
Good == [topic |-> "a", complete |-> TRUE, score |-> 7, decision |-> "publish_ready", rejected |-> FALSE,
         human |-> FALSE, excluded |-> FALSE, suggested |-> FALSE, fix |-> Between(-1, -1), speaksOf |-> {}]
\* Two of them TopicReview would not let through.
SomeReviews(c) ==
    LET Wanting(fix) == [Good EXCEPT !.suggested = TRUE, !.fix = fix]
    IN  {Good, [Good EXCEPT !.topic = "b", !.score = 6], [Good EXCEPT !.score = 6, !.speaksOf = {"q"}],
         [Good EXCEPT !.topic = "b", !.speaksOf = {"p"}], Wanting(Between(c.start, c.end + 1)),
         Wanting(Between(c.start - 2, c.end)), Wanting(Between(c.start, c.end - 1)), Wanting(Good.fix),
         [Good EXCEPT !.score = 4, !.decision = "reject", !.rejected = TRUE],
         [Good EXCEPT !.human = TRUE, !.decision = "needs_review"]}

TwoTopics == <<"p", "q">>

PlanParked ==
    /\ chunks = <<>> /\ policy = [min |-> 1, target |-> 1, max |-> 3, clips |-> 0, threshold |-> 5]
    /\ candidates = <<>> /\ reviews = <<>> /\ plan = NoPlan /\ outcome = "refused"

-----------------------------------------------------------------------------
(* The documents: three candidates at most; one or two defects of the builder, *)
(* or one deviation of the directory.                                          *)

Facts(v, w, h, m, q, s, a, r) ==
    [videos |-> v, windows |-> w, hits |-> h, misses |-> m, requests |-> q, semanticRetries |-> s,
     attempts |-> a, retries |-> r]
Said(i, s, e, spans) == [id |-> i, start |-> s, end |-> e, text |-> i, chars |-> 1, spans |-> spans]
Spoken == <<Said(1, 0, 2, <<Between(0, 1)>>), Said(2, 2, 4, <<>>), Said(3, 4, 6, <<>>)>>
NoWish == [suggested |-> FALSE, requested |-> Between(-1, -1)]
Clip(i, range, topic, video) ==
    [id |-> i, chunks |-> {i}, initial |-> range, final |-> range, status |-> "not_needed", suggested |-> FALSE,
     requested |-> NoWish.requested, review |-> NoWish, topic |-> topic, fit |-> video # 0, video |-> video]
Widened(c, range) ==
    [c EXCEPT !.final = range, !.requested = range, !.suggested = TRUE, !.status = "applied",
              !.review = [suggested |-> TRUE, requested |-> range]]
Ask(spoken, clips, series, facts) ==
    [run |-> 7, transcript |-> [id |-> 5, duration |-> 6, chunks |-> spoken],
     plan |-> [id |-> 6, transcript |-> 5, candidates |-> clips, series |-> series], facts |-> facts]
InSeries(topic, members) == <<[id |-> 8, topic |-> topic, members |-> members]>>
FirstClip  == Clip(1, Between(0, 2), "a", 1)
SecondClip == Clip(2, Between(2, 4), "a", 2)
ThirdClip  == Clip(3, Between(4, 6), "a", 3)
SomeRequests ==
    {Ask(<<>>, <<>>, <<>>, Facts(0, 0, 0, 0, 0, 0, 0, 0)),
     Ask(Spoken, <<Clip(1, Between(0, 2), "a", 0)>>, <<>>, Facts(0, 0, 0, 0, 0, 0, 0, 0)),
     Ask(Spoken, <<FirstClip, Widened(SecondClip, Between(1, 4))>>, InSeries("a", <<1, 2>>), Facts(2, 2, 1, 1, 2, 1, 3, 1)),
     Ask(Spoken, <<FirstClip, Clip(2, Between(2, 4), "b", 0), ThirdClip>>, <<>>, Facts(2, 3, 3, 0, 0, 0, 0, 0)),
     Ask(<<Said(1, 0, 3, <<>>), Said(2, 2, 4, <<>>)>>, <<FirstClip>>, <<>>, Facts(1, 1, 0, 1, 1, 0, 1, 0))}

Near(n) == {n - 1, n + 1}
Moved(r) == {Between(s, r.end) : s \in Near(r.start)} \cup {Between(r.start, e) : e \in Near(r.end)}
OfTranscript(t) ==
    {[t EXCEPT !.run = 9], [t EXCEPT !.id = 9], [t EXCEPT !.duration = 7], [t EXCEPT !.present = ~@]}
    \cup {[t EXCEPT !.chunks[i] = k] : i \in DOMAIN t.chunks,
            k \in UNION {{[c EXCEPT !.id = 1], [c EXCEPT !.text = 9], [c EXCEPT !.start = @ - 1],
                          [c EXCEPT !.end = @ + 1], [c EXCEPT !.spans = <<Between(c.start, c.end + 1)>>]} :
                           c \in {t.chunks[j] : j \in DOMAIN t.chunks}}}
OfPlan(p) ==
    {[p EXCEPT !.kind = IF @ = "empty" THEN "clips" ELSE "empty"], [p EXCEPT !.count = @ + 1],
     [p EXCEPT !.published = @ + 1], [p EXCEPT !.transcript = 9]}
    \cup UNION {{[p EXCEPT !.candidates[i].video = 0], [p EXCEPT !.candidates[i].video = 1],
                 [p EXCEPT !.candidates[i].topic = "b"], [p EXCEPT !.candidates[i].chunks = {9}],
                 [p EXCEPT !.candidates[i].fit = ~@], [p EXCEPT !.candidates[i].status = "applied"],
                 [p EXCEPT !.candidates[i].id = 1]}
                \cup {[p EXCEPT !.candidates[i].final = r] : r \in Moved(p.candidates[i].final)}
                \cup {[p EXCEPT !.candidates[i] = Widened(@, r)] : r \in Moved(p.candidates[i].final)} :
                  i \in DOMAIN p.candidates}
OfMetadata(c) ==
    {[c EXCEPT !.series = <<>>], [c EXCEPT !.videos = <<>>], [c EXCEPT !.series = InSeries("a", <<1, 2>>)],
     [c EXCEPT !.series = InSeries("a", <<1, 3>>)]}
    \cup UNION {{[c EXCEPT !.videos[i].source = 1], [c EXCEPT !.videos[i].topic = "b"], [c EXCEPT !.videos[i].id = 1]}
                \cup {[c EXCEPT !.videos[i].start = r.start, !.videos[i].end = r.end,
                                !.videos[i].duration = r.end - r.start] :
                        r \in Moved(Between(c.videos[i].start, c.videos[i].end))} : i \in DOMAIN c.videos}
SubtitlesOf(t) ==
    [i \in DOMAIN t.chunks |-> [start |-> t.chunks[i].start, end |-> t.chunks[i].end, text |-> t.chunks[i].text]]
SomeDefects(d) ==
    {[d EXCEPT !.transcript = t] : t \in OfTranscript(d.transcript)}
    \cup {[d EXCEPT !.transcript = t, !.srt = SubtitlesOf(t)] : t \in OfTranscript(d.transcript)}
    \cup {[d EXCEPT !.plan = p] : p \in OfPlan(d.plan)}
    \cup {[d EXCEPT !.metadata = m] : m \in OfMetadata(d.metadata)}
    \cup {[d EXCEPT !.srt = SubSeq(@, 1, Len(@) - 1)], [d EXCEPT !.report.published = @ + 1],
          [d EXCEPT !.clips = @ \cup {3}], [d EXCEPT !.clips = @ \ {1}]}
SomeDeviations(x) ==
    {[x EXCEPT !.manifest.run = 9], [x EXCEPT !.manifest.kind = IF @ = "empty" THEN "clips" ELSE "empty"],
     [x EXCEPT !.manifest.rendering = 9], [x EXCEPT !.manifest.duration = 7], [x EXCEPT !.directories = {}],
     [x EXCEPT !.others = {"sidecar"}], [x EXCEPT !.files.clips = @ \cup {4}], [x EXCEPT !.files.report.count = 9]}
    \cup {[x EXCEPT !.manifest.facts[n] = @ + 1] : n \in DOMAIN x.manifest.facts}
    \cup {[x EXCEPT !.manifest.files = SubSeq(@, 1, Len(@) - 1)], [x EXCEPT !.manifest.files = Tail(@)]}

DocsParked ==
    /\ request = Ask(<<>>, <<>>, <<>>, Facts(0, 0, 0, 0, 0, 0, 0, 0)) /\ docs = NoDocs
    /\ defective = FALSE /\ phase = "done" /\ verified = "refused"

-----------------------------------------------------------------------------
(* The release gate: two attempts, and either one command that meets another,  *)
(* or two that are killed, or two changes of the host under two plans.         *)

HostWith(inputs, host) ==
    [candidate |-> 1, installation |-> [wheel |-> 1, host |-> host], tools |-> 1,
     keyless |-> [candidate |-> 1, tools |-> 1], installed |-> [candidate |-> 1], inputs |-> inputs]
Hosts == {HostWith(1, 1), HostWith(2, 1), HostWith(1, 2), [HostWith(1, 1) EXCEPT !.candidate = 2]}
EachAsked(n) == [c \in {"transcription", "topic_review", "subtitle_optimization"} |-> n]
Caches(names, h, m, w) == [n \in names |-> [hits |-> h, misses |-> m, writes |-> w]]
Entries == {"transcript", "topic_review", "subtitle_optimization"}
Emptied  == Caches(Entries \cup {"transcription_shard"}, 0, 1, 1)
Answered == Caches(Entries, 1, 0, 0)
EndedWith(status, code, requests, cache, result_) ==
    [status |-> status, code |-> code, contract |-> TRUE, requests |-> requests, cache |-> cache,
     videos |-> IF status = "failed" THEN 0 ELSE 1, projection |-> result_, leak |-> FALSE]
Passes(cold) ==
    IF cold THEN EndedWith("succeeded", "", EachAsked(1), Emptied, 1) ELSE EndedWith("succeeded", "", EachAsked(0), Answered, 1)
ColdEnds ==
    {Passes(TRUE), [Passes(TRUE) EXCEPT !.requests["topic_review"] = 0], [Passes(TRUE) EXCEPT !.leak = TRUE],
     EndedWith("failed", "transient", EachAsked(1), Emptied, 0), EndedWith("failed", "other", EachAsked(1), Emptied, 0)}
\* One of them lost the transcript and read the shards again.
WarmEnds ==
    {Passes(FALSE), [Passes(FALSE) EXCEPT !.projection = 2], [Passes(FALSE) EXCEPT !.requests["topic_review"] = 1],
     [Passes(FALSE) EXCEPT !.cache = @ @@ Caches({"transcription_shard"}, 1, 0, 0) , !.cache["transcript"].misses = 1],
     [Passes(FALSE) EXCEPT !.leak = TRUE],
     EndedWith("failed", "transient", EachAsked(0), Answered, 0)}

Left(c, k, o) == left = [changes |-> c, kills |-> k, overlaps |-> o]
OneDraft == Cardinality({p \in PlanPaths : plans[p] = Half}) = 1
GateStart ==
    /\ GateInit /\ world = HostWith(1, 1)
    /\ \/ Left(0, 0, 1) /\ OneDraft
       \/ Left(0, 2, 0) /\ OneDraft
       \/ Left(2, 0, 0) /\ \A p \in PlanPaths : plans[p] = Absent

GateParked ==
    /\ world = HostWith(1, 1) /\ Left(0, 0, 0) /\ met = FALSE /\ unfiled = FALSE
    /\ plans = [p \in PlanPaths |-> Half] /\ files = [i \in Attempts |-> NoAttempt]
    /\ runs = [i \in Attempts |-> <<>>] /\ deliveryRun = [i \in Attempts |-> 0] /\ previousRun = deliveryRun
    /\ cmd = [c \in Commands |-> [pc |-> "parked"]]
    /\ sealed = 0 /\ torn = FALSE /\ cut = FALSE

\* The operators are alike, and so are the drafts of a plan.
Alike == Permutations(Commands) \cup Permutations(PlanPaths)

-----------------------------------------------------------------------------
Init ==
    \/ ReconInit /\ TextParked /\ ChainParked /\ PlanParked /\ DocsParked /\ GateParked
    \/ TextInit /\ ReconParked /\ ChainParked /\ PlanParked /\ DocsParked /\ GateParked
    \/ ChainInit /\ ReconParked /\ TextParked /\ PlanParked /\ DocsParked /\ GateParked
    \/ PlanInit /\ ReconParked /\ TextParked /\ ChainParked /\ DocsParked /\ GateParked
    \/ DocsInit /\ ReconParked /\ TextParked /\ ChainParked /\ PlanParked /\ GateParked
    \/ GateStart /\ ReconParked /\ TextParked /\ ChainParked /\ PlanParked /\ DocsParked

Next ==
    \/ ReconNext /\ UNCHANGED <<textVars, chainVars, planVars, docsVars, gateVars>>
    \/ TextNext /\ UNCHANGED <<reconVars, chainVars, planVars, docsVars, gateVars>>
    \/ ChainNext /\ UNCHANGED <<reconVars, textVars, planVars, docsVars, gateVars>>
    \/ PlanNext /\ UNCHANGED <<reconVars, textVars, chainVars, docsVars, gateVars>>
    \/ DocsNext /\ UNCHANGED <<reconVars, textVars, chainVars, planVars, gateVars>>
    \/ GateNext /\ UNCHANGED <<reconVars, textVars, chainVars, planVars, docsVars>>

Spec == Init /\ [][Next]_<<reconVars, textVars, chainVars, planVars, docsVars, gateVars>>

-----------------------------------------------------------------------------
(* TranscriptSound, AccountsTruthful, DeliverySound, PlanSound,              *)
(* DocumentsSound, GateSound and, of the plan and its delivery together,     *)
(* PlansDeliverable are those of the extended modules.                       *)
=============================================================================
