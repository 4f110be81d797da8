--------------------------- MODULE DeliveryDocuments ---------------------------
(***************************************************************************)
(* The documents of a delivery: what DeliveryBuild renders from a          *)
(* transcript, a plan and the facts of the subtitles, and what             *)
(* DeliveryVerification requires of the files it finds, whoever wrote      *)
(* them.  The verification must not rest on the builder's word: each       *)
(* document is checked alone and then against the others.                  *)
(*                                                                         *)
(* Identities and times are small integers, an identity that is no UUIDv7  *)
(* is 0.  A file's length and digest are its content.  The fields of a     *)
(* review that nothing compares are left out; "fit" stands for those that  *)
(* decide whether a candidate may be published.  How the files are read is *)
(* DeliveryChain's.                                                        *)
(***************************************************************************)
EXTENDS Ranking, Integers, Sequences, SequencesExt

CONSTANTS Requests,        \* [run, transcript, plan, facts] as earlier stages issue them
          DefectsOf(_),    \* what one defect of the builder can make of its documents
          DeviationsOf(_)  \* what else a directory may turn out to hold

VARIABLES request, docs, defective, phase, verified
docsVars == <<request, docs, defective, phase, verified>>

NoVideo == 0
NoRange == [start |-> -1, end |-> -1]
NoDocs  == [run |-> 0]

Field(s, name) == [i \in DOMAIN s |-> s[i][name]]
NoneTwice(s)   == \A i, j \in DOMAIN s : s[i] = s[j] => i = j
Identified(s)  == NoneTwice(s) /\ 0 \notin Range(s)
Published(candidates) == Picked(candidates, {i \in DOMAIN candidates : candidates[i].video # NoVideo})

-----------------------------------------------------------------------------
(* DeliveryBuild                                                             *)

\* What a request must satisfy to exist at all.
Requestable(r) ==
    /\ r.plan.transcript = r.transcript.id /\ r.facts.videos = Len(Published(r.plan.candidates))
    /\ \A c \in Range(r.plan.candidates) : c.chunks \subseteq {k.id : k \in Range(r.transcript.chunks)}
    /\ \A i \in DOMAIN r.transcript.chunks :
         /\ r.transcript.chunks[i].end <= r.transcript.duration
         /\ i > 1 => r.transcript.chunks[i - 1].end <= r.transcript.chunks[i].start

KindOf(r) == IF Published(r.plan.candidates) = <<>> THEN "empty" ELSE "clips"

TranscriptDocument(r) ==
    [run |-> r.run, id |-> r.transcript.id, duration |-> r.transcript.duration,
     present |-> r.transcript.chunks # <<>>, chunks |-> r.transcript.chunks]

PlanDocument(r) ==
    [run |-> r.run, id |-> r.plan.id, transcript |-> r.plan.transcript, kind |-> KindOf(r),
     count |-> Len(r.plan.candidates), published |-> Len(Published(r.plan.candidates)),
     candidates |-> r.plan.candidates]

ShortVideo(c) ==
    [id |-> c.video, source |-> c.id, topic |-> c.topic, start |-> c.final.start, end |-> c.final.end,
     duration |-> c.final.end - c.final.start, path |-> c.video]

MetadataDocument(r) ==
    [run |-> r.run, kind |-> KindOf(r), series |-> r.plan.series,
     videos |-> [k \in DOMAIN Published(r.plan.candidates) |-> ShortVideo(Published(r.plan.candidates)[k])]]

\* One cue for each chunk.
Cue(chunk) == [start |-> chunk.start, end |-> chunk.end, text |-> chunk.text]
Rendering(transcript) == [i \in DOMAIN transcript.chunks |-> Cue(transcript.chunks[i])]

Report(run, kind, count, published) ==
    [run |-> run, kind |-> kind, count |-> count, published |-> IF kind = "empty" THEN 0 ELSE published]

Documents(r) ==
    [transcript |-> TranscriptDocument(r), plan |-> PlanDocument(r), metadata |-> MetadataDocument(r),
     srt |-> Rendering(TranscriptDocument(r)),
     report |-> Report(r.run, KindOf(r), Len(r.plan.candidates), Len(Published(r.plan.candidates))),
     clips |-> {c.video : c \in Range(Published(r.plan.candidates))}]

\* A file of the manifest, in the order of the paths: the media come first.
DocumentPaths == <<"metadata", "plan", "report", "transcript", "srt">>
FileFact(kind, name, content) == [kind |-> kind, name |-> name, content |-> content]
MediaFact(video) == FileFact("media", video, {video})
DocumentFact(d, name) == FileFact("document", name, {d[name]})

Manifest(r, d) ==
    [run |-> r.run, kind |-> KindOf(r), started |-> 0, published |-> 1, duration |-> r.transcript.duration,
     transcript |-> r.transcript.id, rendering |-> r.transcript.id, plan |-> r.plan.id, facts |-> r.facts,
     files |-> [i \in 1 .. Cardinality(d.clips) |-> MediaFact(Ascending(d.clips)[i])]
                 \o [i \in 1 .. 5 |-> DocumentFact(d, DocumentPaths[i])]]

\* The directory as the verification finds it; the manifest is written last.
Delivery(r, d) == [run |-> r.run, manifest |-> Manifest(r, d), files |-> d, directories |-> {"clips"}, others |-> {}]

-----------------------------------------------------------------------------
(* DeliveryVerification: each document alone                                 *)

\* The counts of a manifest may not contradict each other.
CountsAgree(f) ==
    /\ f.semanticRetries <= f.requests /\ f.retries <= f.attempts
    /\ f.hits + f.misses = f.windows /\ f.requests >= f.misses /\ f.windows >= f.videos
    /\ \A n \in DOMAIN f : f[n] >= 0
NoneCounted(f) == \A n \in DOMAIN f : f[n] = 0

ManifestSchema(m) ==
    /\ m.kind \in {"clips", "empty"} /\ m.started <= m.published /\ m.duration > 0
    /\ CountsAgree(m.facts)

NamesOf(m, kind) == Field(Picked(m.files, {i \in DOMAIN m.files : m.files[i].kind = kind}), "name")
Paths(m)         == NamesOf(m, "document")
MediaPaths(m)    == NamesOf(m, "media")

\* Fault: what the files are named is checked, not that all are there.
SomeFiles(m) ==
    /\ \A i \in 1 .. Len(MediaPaths(m)) - 1 : MediaPaths(m)[i] < MediaPaths(m)[i + 1]
    /\ Range(Paths(m)) \subseteq Range(DocumentPaths) /\ NoneTwice(Paths(m))

\* The files are sorted and unique, nothing but the known documents and clips.
ManifestPaths(m) ==
    /\ \A i \in 1 .. Len(MediaPaths(m)) - 1 : MediaPaths(m)[i] < MediaPaths(m)[i + 1]
    /\ Paths(m) = DocumentPaths
    /\ \A i, j \in DOMAIN m.files : m.files[i].kind = "document" /\ m.files[j].kind = "media" => j < i

\* A chunk has characters, and either none or all of them are measured, in order.
CharactersInside(c) ==
    /\ c.chars > 0 /\ (c.spans = <<>> \/ Len(c.spans) = c.chars)
    /\ \A k \in DOMAIN c.spans :
         /\ (IF k = 1 THEN c.start ELSE c.spans[k - 1].end) <= c.spans[k].start
         /\ c.spans[k].start < c.spans[k].end /\ c.spans[k].end <= c.end

\* Fault: chunks may overlap.
OverlappingTranscript(t) ==
    /\ t.duration > 0 /\ t.present = (t.chunks # <<>>)
    /\ \A i \in DOMAIN t.chunks : /\ 0 <= t.chunks[i].start /\ t.chunks[i].start < t.chunks[i].end
                                  /\ t.chunks[i].end <= t.duration

\* The chunks stand in order within the recording, and their characters in them.
TranscriptSchema(t) ==
    /\ t.duration > 0 /\ t.present = (t.chunks # <<>>)
    /\ \A i \in DOMAIN t.chunks :
         LET c == t.chunks[i]
         IN  /\ (IF i = 1 THEN 0 ELSE t.chunks[i - 1].end) <= c.start /\ c.start < c.end /\ c.end <= t.duration
             /\ CharactersInside(c)

\* What became of a suggested boundary agrees with the ranges.
RemedySchema(c) ==
    CASE c.status = "not_needed" -> ~c.suggested /\ c.requested = NoRange /\ c.final = c.initial
      [] c.status = "applied"    -> /\ c.requested = c.final /\ c.final # c.initial
                                    /\ c.final.start <= c.initial.start /\ c.initial.end <= c.final.end
      [] c.status = "invalid"    -> c.final = c.initial
      [] OTHER                   -> FALSE
MaterialRange(r) == 0 <= r.start /\ r.start < r.end

PlanSchema(p) ==
    /\ p.kind \in {"clips", "empty"}
    /\ p.count = Len(p.candidates) /\ p.published = Len(Published(p.candidates))
    /\ \A c \in Range(p.candidates) :
         /\ c.chunks # {} /\ MaterialRange(c.initial) /\ MaterialRange(c.final)
         /\ c.requested = NoRange \/ MaterialRange(c.requested)
         /\ RemedySchema(c)

MetadataSchema(c) ==
    /\ c.kind \in {"clips", "empty"}
    /\ \A v \in Range(c.videos) : v.start >= 0 /\ v.duration > 0 /\ v.duration = v.end - v.start
    /\ \A s \in Range(c.series) : Len(s.members) >= 2

-----------------------------------------------------------------------------
(* The documents together                                                    *)

RunIds(x) == {x.manifest.run, x.files.transcript.run, x.files.plan.run, x.files.metadata.run} = {x.run}

\* Every identity is one, and none is used twice where it names something.
Identities(x) ==
    LET t == x.files.transcript  p == x.files.plan  c == x.files.metadata
    IN  /\ 0 \notin {x.run, t.id, p.id, p.transcript, x.manifest.transcript, x.manifest.rendering, x.manifest.plan}
        /\ Identified(Field(t.chunks, "id")) /\ Identified(Field(p.candidates, "id"))
        /\ Identified(Field(Published(p.candidates), "video"))
        /\ Identified(Field(c.videos, "id")) /\ Identified(Field(c.series, "id"))
        /\ \A s \in Range(c.series) : Identified(s.members)

\* _candidate_material_order: by the final range, then by identity.
Sooner(a, b) == Earlier(a.final, b.final) \/ (a.final = b.final /\ a.id < b.id)
Ordered(candidates) ==
    LET FirstOf(i, j) == \/ Sooner(candidates[i], candidates[j])
                         \/ ~Sooner(candidates[j], candidates[i]) /\ i < j
        line == Listed(DOMAIN candidates, FirstOf)
    IN  [k \in DOMAIN line |-> candidates[line[k]]]

\* The longest runs of published neighbours with one topic, of two or more.
OneTopic(s, first, last) == \A i \in first .. last : s[i].video # NoVideo /\ s[i].topic = s[first].topic
LongestRuns(s) ==
    {p \in (DOMAIN s) \X (DOMAIN s) :
        /\ p[1] < p[2] /\ OneTopic(s, p[1], p[2])
        /\ p[1] > 1 => ~OneTopic(s, p[1] - 1, p[2])
        /\ p[2] < Len(s) => ~OneTopic(s, p[1], p[2] + 1)}
VideosFrom(s, first, n) == [k \in 1 .. n |-> s[first + k - 1].video]
SameTopicRuns(s) ==
    {[topic |-> s[p[1]].topic, members |-> VideosFrom(s, p[1], p[2] - p[1] + 1)] : p \in LongestRuns(s)}

\* Fault: a series may leave out one of its neighbours.
SeriesAsGiven(p, c) == TRUE

SeriesExpected(p, c) ==
    {[topic |-> s.topic, members |-> s.members] : s \in Range(c.series)} = SameTopicRuns(Ordered(p.candidates))

\* A candidate that may be published, with the boundary its review asked for.
CandidateRefers(c, t, duration) ==
    /\ c.chunks \subseteq {k.id : k \in Range(t.chunks)}
    /\ c.initial.end <= duration /\ c.final.end <= duration
    /\ c.suggested = c.review.suggested /\ c.requested = c.review.requested
    /\ c.video # NoVideo => c.fit /\ c.status # "invalid"

\* Fault: a video is looked up, but its range is taken from itself.
VideoKnown(v, p) == \E c \in Range(p.candidates) : c.id = v.source /\ v.topic = c.topic /\ v.path = v.id

\* A video is that of the candidate it names.
VideoRefers(v, p) ==
    \E c \in Range(p.candidates) :
        /\ c.id = v.source /\ v.topic = c.topic
        /\ [start |-> v.start, end |-> v.end] = c.final /\ v.path = v.id

\* Every series has members of its topic that follow one another; none is in two.
SeriesRefer(p, c) ==
    LET line == Ordered(p.candidates)
    IN  /\ \A s \in Range(c.series) :
             /\ Range(s.members) \subseteq {v.id : v \in Range(c.videos)}
             /\ \A v \in Range(c.videos) : v.id \in Range(s.members) => v.topic = s.topic
             /\ \E first \in DOMAIN line : /\ first + Len(s.members) - 1 <= Len(line)
                                           /\ s.members = VideosFrom(line, first, Len(s.members))
        /\ \A i, j \in DOMAIN c.series : i # j => Range(c.series[i].members) \cap Range(c.series[j].members) = {}

References(x) ==
    LET m == x.manifest  t == x.files.transcript  p == x.files.plan  c == x.files.metadata
    IN  /\ {m.transcript, m.rendering, p.transcript} = {t.id} /\ m.plan = p.id /\ t.duration = m.duration
        /\ \A k \in Range(p.candidates) : CandidateRefers(k, t, m.duration)
        /\ \A v \in Range(c.videos) : VideoRefers(v, p)
        /\ NoneTwice(Field(c.videos, "source"))
        /\ {<<k.id, k.video>> : k \in Range(Published(p.candidates))} = {<<v.source, v.id>> : v \in Range(c.videos)}
        /\ Range(MediaPaths(m)) = {v.path : v \in Range(c.videos)}
        /\ SeriesRefer(p, c) /\ SeriesExpected(p, c)

\* A manifest says clips exactly if it counts some, and empty if nothing was done.
SummaryConsistent(m) ==
    /\ m.facts.videos = Len(MediaPaths(m))
    /\ IF m.kind = "empty" THEN NoneCounted(m.facts) ELSE m.facts.videos > 0

ResultKind(x) ==
    LET m == x.manifest  p == x.files.plan  c == x.files.metadata
    IN  /\ SummaryConsistent(m) /\ {p.kind, c.kind} = {m.kind}
        /\ p.published = Len(c.videos) /\ m.facts.videos = Len(c.videos)
        /\ IF m.kind = "empty" THEN c.videos = <<>> /\ c.series = <<>> ELSE c.videos # <<>>

\* The directory holds what the manifest lists, with the content it lists.
TreeEntries(x) ==
    /\ x.directories = {"clips"} /\ x.others = {} /\ x.files.clips = Range(MediaPaths(x.manifest))
ListedContents(x) ==
    \A f \in Range(x.manifest.files) : f.content = IF f.kind = "media" THEN {f.name} ELSE {x.files[f.name]}

HumanReport(x) ==
    LET p == x.files.plan IN x.files.report = Report(x.manifest.run, x.manifest.kind, p.count, p.published)

\* The checks in their order; the first that fails names the reason.
Checks(x) ==
    <<[reason |-> "schema_invalid",      holds |-> ManifestSchema(x.manifest)],
      [reason |-> "file_set_mismatch",   holds |-> ManifestPaths(x.manifest)],
      [reason |-> "schema_invalid",      holds |-> /\ TranscriptSchema(x.files.transcript)
                                                   /\ PlanSchema(x.files.plan) /\ MetadataSchema(x.files.metadata)],
      [reason |-> "run_id_mismatch",     holds |-> RunIds(x)],
      [reason |-> "identity_duplicate",  holds |-> Identities(x)],
      [reason |-> "reference_dangling",  holds |-> References(x)],
      [reason |-> "result_kind_mismatch", holds |-> ResultKind(x)],
      [reason |-> "file_set_mismatch",   holds |-> TreeEntries(x)],
      [reason |-> "digest_mismatch",     holds |-> ListedContents(x)],
      [reason |-> "schema_invalid",      holds |-> HumanReport(x)],
      [reason |-> "transcript_mismatch", holds |-> x.files.srt = Rendering(x.files.transcript)]>>

Answer(x) ==
    LET failed == {i \in DOMAIN Checks(x) : ~Checks(x)[i].holds}
    IN  IF failed = {} THEN "verified" ELSE Checks(x)[Min(failed)].reason

\* What a later reader makes of the manifest alone (DeliveryManifestReader).
ReadsAs(m, run, kind) ==
    IF /\ ManifestSchema(m) /\ ManifestPaths(m) /\ m.transcript = m.rendering /\ 0 \notin {m.run, m.transcript, m.plan}
       /\ SummaryConsistent(m) /\ m.run = run /\ m.kind = kind
    THEN "complete" ELSE "corrupt"

-----------------------------------------------------------------------------
(* The inputs                                                                *)

\* What the stages before guarantee of a request that exists: TranscriptionChunk
\* and the transcript, the plan of ClipPlanning, the facts of the subtitles.
IssuedCandidate(c, duration) ==
    /\ c.chunks # {} /\ MaterialRange(c.initial) /\ MaterialRange(c.final)
    /\ c.initial.end <= duration /\ c.final.end <= duration
    /\ (c.requested = NoRange \/ MaterialRange(c.requested)) /\ RemedySchema(c)
    /\ c.suggested = c.review.suggested /\ c.requested = c.review.requested
    /\ c.video # NoVideo => c.fit /\ c.status # "invalid"
IssuedSeries(series, candidates) ==
    /\ {[topic |-> s.topic, members |-> s.members] : s \in Range(series)} = SameTopicRuns(candidates)
    /\ NoneTwice(Field(series, "members"))
Issued(r) ==
    /\ 0 \notin {r.run, r.transcript.id, r.plan.id} /\ r.transcript.duration > 0
    /\ \A c \in Range(r.transcript.chunks) : 0 <= c.start /\ c.start < c.end /\ CharactersInside(c)
    /\ \A c \in Range(r.plan.candidates) : IssuedCandidate(c, r.transcript.duration)
    /\ Identified(Field(r.transcript.chunks, "id")) /\ Identified(Field(r.plan.candidates, "id"))
    /\ Identified(Field(Published(r.plan.candidates), "video")) /\ Identified(Field(r.plan.series, "id"))
    /\ IssuedSeries(r.plan.series, r.plan.candidates)
    /\ CountsAgree(r.facts) /\ (KindOf(r) = "empty" => NoneCounted(r.facts))

\* What a reader of JSON, of names of files and of SRT can find at all.
Sequential(s) == s \in Seq(Range(s))
Readable(d) ==
    /\ Sequential(d.transcript.chunks) /\ Sequential(d.plan.candidates)
    /\ Sequential(d.metadata.videos) /\ Sequential(d.metadata.series)
    /\ \A c \in Range(d.transcript.chunks) : c.start \in Int /\ c.end \in Int
    /\ \A c \in Range(d.plan.candidates) : {c.id, c.video} \subseteq Nat /\ c.final \in [start : Int, end : Int]
    /\ d.clips \in SUBSET Nat /\ IsFiniteSet(d.clips)

\* A builder writes documents, and what deviates afterwards is either the manifest
\* or what it describes; the run is known to whoever verifies.
DocsInputs ==
    \A r \in Requests : Requestable(r) =>
        /\ Issued(r) /\ Readable(Documents(r))
        /\ \A d \in DefectsOf(Documents(r)) : Readable(d) /\ \A e \in DefectsOf(d) : Readable(e)
        /\ \A x \in DeviationsOf(Delivery(r, Documents(r))) :
             /\ x.run = r.run /\ Readable(x.files) /\ Sequential(x.manifest.files)
             /\ x.manifest = Manifest(r, Documents(r)) \/ x.files = Documents(r)

ASSUME DocsAssumption == DocsInputs

-----------------------------------------------------------------------------
(* A delivery is built, perhaps by a builder with a defect or two, and        *)
(* verified.                                                                 *)

BuildDocuments ==
    /\ phase = "build" /\ Requestable(request)
    /\ \/ docs' = Delivery(request, Documents(request)) /\ defective' = FALSE
       \/ \E d \in DefectsOf(Documents(request)) : \E e \in DefectsOf(d) \cup {d} :
            docs' = Delivery(request, e) /\ defective' = TRUE
    /\ phase' = "verify" /\ UNCHANGED <<request, verified>>

\* The manifest, or the directory around it, is not what was built.
Deviate ==
    /\ phase = "verify" /\ ~defective
    /\ \E x \in DeviationsOf(docs) : docs' = x
    /\ defective' = TRUE /\ UNCHANGED <<request, phase, verified>>

Refuse ==
    /\ phase = "build" /\ ~Requestable(request)
    /\ phase' = "done" /\ verified' = "refused" /\ UNCHANGED <<request, docs, defective>>

VerifyDocuments ==
    /\ phase = "verify"
    /\ verified' = Answer(docs) /\ phase' = "done"
    /\ UNCHANGED <<request, docs, defective>>

DocsInit == request \in Requests /\ docs = NoDocs /\ defective = FALSE /\ phase = "build" /\ verified = "none"

DocsNext == BuildDocuments \/ Deviate \/ Refuse \/ VerifyDocuments

DocsSpec == DocsInit /\ [][DocsNext]_docsVars

-----------------------------------------------------------------------------
(* Properties                                                                *)

DocsTypeOK ==
    /\ request \in Requests /\ defective \in BOOLEAN /\ phase \in {"build", "verify", "done"}
    /\ verified = "verified" => docs.run = request.run

\* The order of the plan is that of its initial ranges; a fix may turn it round.
KeepsOrder(candidates) == \A i \in 1 .. Len(candidates) - 1 : Sooner(candidates[i], candidates[i + 1])

\* What a correct builder writes is accepted, unless a fix made one candidate
\* overtake another; and whoever reads the manifest later finds it complete.
BuiltIsAccepted(r) ==
    LET x == Delivery(r, Documents(r))
    IN  Requestable(r) => Answer(x) = "verified" /\ ReadsAs(x.manifest, r.run, KindOf(r)) = "complete"

\* What is accepted tells one story, whoever wrote it: every cue is said at its
\* time and at no other, every clip on disk is in the catalogue and in the plan
\* with the same cut, and the neighbours of one topic are in one series.
OneStory(x) ==
    LET p == x.files.plan  c == x.files.metadata  cues == x.files.srt
    IN  /\ \A i, j \in DOMAIN cues : i < j => cues[i].end <= cues[j].start
        /\ \A k \in Range(p.candidates) :
             /\ \A id \in k.chunks : \E t \in Range(x.files.transcript.chunks) : t.id = id
             /\ k.video \in x.files.clips \/ k.video = NoVideo
             /\ k.video \in x.files.clips =>
                  \E v \in Range(c.videos) : v.id = k.video /\ v.start = k.final.start /\ v.end = k.final.end
        /\ Cardinality(x.files.clips) = Len(c.videos) /\ x.files.report.published = Len(c.videos)
        /\ \A a, b \in Range(p.candidates) :
             LET between == {k \in Range(p.candidates) : Sooner(a, k) /\ Sooner(k, b)}
             IN  /\ NoVideo \notin {a.video, b.video} /\ a.topic = b.topic
                 /\ Sooner(a, b) /\ between = {}
                 => \E s \in Range(c.series) : {a.video, b.video} \subseteq Range(s.members)
        /\ x.manifest.facts.videos = Len(c.videos) /\ (x.manifest.kind = "empty" <=> c.videos = <<>>)
        /\ \A n \in {"metadata", "plan", "report", "transcript", "srt"} :
             \E f \in Range(x.manifest.files) : f.kind = "document" /\ f.name = n /\ f.content = {x.files[n]}

DocumentsSound ==
    /\ verified = "verified" => OneStory(docs) /\ ReadsAs(docs.manifest, request.run, KindOf(request)) = "complete"
    /\ phase = "done" /\ ~defective /\ KeepsOrder(request.plan.candidates) => verified \in {"verified", "refused"}
=============================================================================
