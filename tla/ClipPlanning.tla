---------------------------- MODULE ClipPlanning ----------------------------
(***************************************************************************)
(* ClipPlanning: candidates are cut from the transcript (prepare), reviewed*)
(* by the text model, and published or rejected, each for one reason       *)
(* (finalize).  The plan that results is checked once more, as a whole,    *)
(* before it is issued; a plan that fails the check would end the run.     *)
(*                                                                         *)
(* Times are small integers.  A topic is its canonical text; which of the  *)
(* course's priorities a review speaks of, and whether it or a chunk names *)
(* excluded content, stand for the search for phrases.  The three scores   *)
(* are one, which the threshold and the ranking use.                       *)
(***************************************************************************)
EXTENDS Integers, Sequences, SequencesExt

CONSTANTS Transcripts,  \* the chunks of a transcript, sorted by start, then end
          Policies,     \* [min, target, max, clips, threshold]; clips = 0 is no limit
          Priorities,   \* the priority topics of the course, in their order
          ReviewsOf(_), \* the reviews the model may give of a candidate
          Duration      \* of the recording

VARIABLES chunks, policy, candidates, reviews, plan, outcome
planVars == <<chunks, policy, candidates, reviews, plan, outcome>>

\* Chunks lie in the recording and are sorted, a policy's lengths agree with one
\* another (ClipPolicy), and scores and times are numbers.
SortedChunks(t) ==
    \A j \in DOMAIN t : /\ 0 <= t[j].start /\ t[j].start < t[j].end /\ t[j].end <= Duration
                       /\ \A k \in j + 1 .. Len(t) : t[j].start <= t[k].start
Candidates(t) ==
    [first : DOMAIN t, last : DOMAIN t, start : 0 .. Duration, end : 0 .. Duration,
     before : 0 .. Len(t), after : 0 .. Len(t)]
PlanInputs ==
    /\ Duration \in Nat \ {0} /\ Priorities \in Seq(Range(Priorities))
    /\ \A t \in Transcripts :
         /\ t \in Seq([start : Int, end : Int, excluded : BOOLEAN]) /\ SortedChunks(t)
         /\ \A c \in Candidates(t) : \A r \in ReviewsOf(c) : r.score \in Int /\ r.fix \in [start : Int, end : Int]
    /\ Policies \subseteq [min : Nat, target : Nat, max : Nat, clips : Nat, threshold : Int]
    /\ \A p \in Policies : 0 < p.min /\ p.min <= p.target /\ p.target <= p.max

ASSUME PlanAssumption == PlanInputs

NoFix  == [start |-> -1, end |-> -1]
NoPlan == [finals |-> <<>>, videos |-> {}, series |-> <<>>]

-----------------------------------------------------------------------------
(* prepare                                                                   *)

EndOf(first, last) == Max({chunks[j].end : j \in first .. last})

\* A run of chunks as a candidate, with the chunk before it and the one after
\* it that do not overlap it.
Excerpt(S) == IF S = {} THEN 0 ELSE Max(S)
Candidate(first, last) ==
    LET from == chunks[first].start
        to   == EndOf(first, last)
    IN  [first |-> first, last |-> last, start |-> from, end |-> to,
         before |-> Excerpt({j \in 1 .. first - 1 : chunks[j].end <= from}),
         after  |-> LET later == {j \in last + 1 .. Len(chunks) : chunks[j].start >= to}
                    IN  IF later = {} THEN 0 ELSE Min(later)]

Span(first, last) == EndOf(first, last) - chunks[first].start

\* The last chunk of the candidate that starts with first: the run grows until
\* it reaches the target or would be too long.
Grown(first) ==
    LET fits    == {j \in first .. Len(chunks) : Span(first, j) <= policy.max}
        targets == {j \in fits : Span(first, j) >= policy.target}
    IN  IF fits = {} THEN first - 1 ELSE IF targets = {} THEN Max(fits) ELSE Min(targets)

\* Fault: a remainder is taken along however long it makes the clip.
SwallowTail(first, last) ==
    /\ last < Len(chunks)
    /\ LET end == EndOf(last + 1, Len(chunks))
       IN  end > EndOf(first, last) /\ end - chunks[last + 1].start < policy.min

\* What is left of the transcript is taken along if it is too short for a clip
\* of its own and the whole is not too long.
TailFits(first, last) ==
    /\ last < Len(chunks)
    /\ LET end == EndOf(last + 1, Len(chunks))
       IN  /\ end > EndOf(first, last) /\ end - chunks[last + 1].start < policy.min
           /\ end - chunks[first].start <= policy.max

\* A run that reached the target takes the chunks along that end within it.
Extended(first) ==
    LET last == Grown(first)
        full == {j \in last .. Len(chunks) : \A k \in last + 1 .. j : chunks[k].end <= EndOf(first, last)}
    IN  IF last < first \/ Span(first, last) < policy.target THEN last
        ELSE IF TailFits(first, Max(full)) THEN Len(chunks) ELSE Max(full)

Legal(first, last) == last >= first /\ Span(first, last) \in policy.min .. policy.max

\* The candidates from a position on; a chunk that starts none is passed over.
Specs ==
    LET from[i \in 1 .. Len(chunks) + 1] ==
          IF i > Len(chunks) THEN <<>>
          ELSE IF Legal(i, Extended(i)) THEN <<Candidate(i, Extended(i))>> \o from[Extended(i) + 1]
          ELSE from[i + 1]
    IN  from[1]

PrepareCandidates ==
    /\ outcome = "prepare"
    /\ candidates' = Specs /\ outcome' = "review"
    /\ UNCHANGED <<chunks, policy, reviews, plan>>

-----------------------------------------------------------------------------
(* The review, whose items name their candidates                             *)

ReviewCandidates ==
    /\ outcome = "review"
    /\ reviews' \in {r \in [DOMAIN candidates -> UNION {ReviewsOf(candidates[i]) : i \in DOMAIN candidates}] :
                       \A i \in DOMAIN r : r[i] \in ReviewsOf(candidates[i])}
    /\ outcome' = "finalize"
    /\ UNCHANGED <<chunks, policy, candidates, plan>>

\* Fault: a fix need not keep what was reviewed.
ShrinkingFix(c, fix) == fix.start >= 0 /\ fix.start < fix.end /\ fix.end <= Duration
                        /\ fix.end - fix.start \in policy.min .. policy.max

\* A fix may widen a candidate, within the recording and the legal lengths.
LegalFix(c, fix) ==
    /\ fix.start \in 0 .. c.start /\ fix.end \in c.end .. Duration
    /\ fix.start # c.start \/ fix.end # c.end
    /\ fix.end - fix.start \in policy.min .. policy.max

\* What TopicReview lets through; it asks again for anything else.
\* ClipPlanning does not rely on it.
Reviewable(c, r) ==
    /\ r.suggested = (r.fix # NoFix) /\ (r.suggested => LegalFix(c, r.fix))
    /\ CASE r.decision = "publish_ready" -> r.complete /\ ~r.human /\ r.score >= policy.threshold /\ ~r.rejected
         [] r.decision = "needs_review"  -> r.human
         [] r.decision = "reject"        -> r.rejected

\* A review that lacks a candidate, knows one too many or has one twice is refused.
ReviewIncomplete ==
    /\ outcome = "review"
    /\ outcome' = "refused"
    /\ UNCHANGED <<chunks, policy, candidates, reviews, plan>>

-----------------------------------------------------------------------------
(* finalize                                                                  *)

\* A suggestion without a range is a request that cannot be met.
Requested(r) == r.suggested \/ r.fix # NoFix
Remedy(c, r) == IF ~Requested(r) THEN "not_needed" ELSE IF LegalFix(c, r.fix) THEN "applied" ELSE "invalid"
Final(i) ==
    LET c == candidates[i]
    IN  IF Remedy(c, reviews[i]) = "applied" THEN reviews[i].fix ELSE [start |-> c.start, end |-> c.end]

\* Fault: excluded content is looked for in the candidate as it was reviewed.
ExcludedAtFirst(i) ==
    \/ reviews[i].excluded
    \/ \E j \in candidates[i].first .. candidates[i].last : chunks[j].excluded

\* Excluded content is looked for in the review and in all that will be heard.
Excluded(i) ==
    \/ reviews[i].excluded
    \/ \E j \in DOMAIN chunks : /\ chunks[j].excluded
                                /\ chunks[j].start < Final(i).end /\ chunks[j].end > Final(i).start

\* The first reason that applies; an empty text is none.
Reason(i) ==
    LET r == reviews[i]
    IN  CASE Excluded(i)                         -> "excluded_content"
          [] ~Excluded(i) /\ r.human             -> "needs_human_review"
          [] ~Excluded(i) /\ ~r.human /\ ~r.complete -> "topic_incomplete"
          [] OTHER -> IF r.score < policy.threshold THEN "publish_ready_score_below_threshold"
                      ELSE IF r.decision # "publish_ready" \/ r.rejected THEN "review_rejected"
                      ELSE IF Remedy(candidates[i], r) = "invalid" THEN "boundary_remedy_invalid"
                      ELSE "none"

Eligible == {i \in DOMAIN candidates : Reason(i) = "none"}

\* The first priority a review speaks of, or one more than there are.
Speaks(i, p)   == p \in reviews[i].speaksOf
PriorityOf(i)  == Min({p \in DOMAIN Priorities : Speaks(i, Priorities[p])} \cup {Len(Priorities) + 1})
Better(i, j) ==
    LET p == PriorityOf(i)
        q == PriorityOf(j)
    IN  \/ p < q
        \/ p = q /\ reviews[i].score > reviews[j].score
        \/ p = q /\ reviews[i].score = reviews[j].score /\ i < j
\* The best first: the k-th of them is the one that k - 1 others are better than.
Ranked ==
    LET all == Eligible
    IN  [k \in 1 .. Cardinality(all) |-> CHOOSE i \in all : Cardinality({j \in all : Better(j, i)}) = k - 1]

Topic(i)       == reviews[i].topic
Covered(S)     == {Topic(i) : i \in S}
Keep(S, i)     == IF Cardinality(S) = policy.clips THEN S ELSE S \cup {i}
First(S)       == CHOOSE i \in S : \A j \in S \ {i} : Better(i, j)

\* One for each priority, then one for each topic, then the best.
ByPriority ==
    FoldLeft(LAMBDA S, p : LET matching == {i \in Eligible \ S : Topic(i) \notin Covered(S) /\ Speaks(i, p)}
                           IN  IF matching = {} THEN S ELSE Keep(S, First(matching)),
             {}, Priorities)
\* Fault: the best are taken at once.
SkipTopics(S)   == S
ByTopic(S)      == FoldLeft(LAMBDA T, i : IF Topic(i) \in Covered(T) THEN T ELSE Keep(T, i), S, Ranked)
ByRank(S)       == FoldLeft(Keep, S, Ranked)

Selected ==
    IF policy.clips = 0 \/ Cardinality(Eligible) <= policy.clips THEN Eligible
    ELSE ByRank(ByTopic(ByPriority))

Selection(i) ==
    LET why == IF i \in Selected THEN "none" ELSE IF Reason(i) = "none" THEN "max_clips_limit" ELSE Reason(i)
    IN  [published |-> why = "none", reason |-> why,
         human |-> why # "none" /\ (reviews[i].human \/ reviews[i].decision = "needs_review" \/ why = "boundary_remedy_invalid")]

FinalCandidate(i) == [range |-> Final(i), remedy |-> Remedy(candidates[i], reviews[i]), selection |-> Selection(i)]

\* Fault: a rejected candidate between two published ones does not end a series.
SeriesAcross(run, i) == run.ids = <<>> \/ run.topic = Topic(i)

\* A published candidate continues a run if the one before it was published too
\* and has its topic.
Continues(run, i) == run.ids # <<>> /\ run.topic = Topic(i) /\ run.ids[Len(run.ids)] = i - 1

Flush(s) == IF Len(s.ids) >= 2 THEN Append(s.done, s.ids) ELSE s.done
Series ==
    LET kept == Selected
        Step(s, i) == IF i \notin kept THEN s
                      ELSE IF Continues(s, i) THEN [s EXCEPT !.ids = Append(@, i)]
                      ELSE [done |-> Flush(s), ids |-> <<i>>, topic |-> Topic(i)]
    IN  Flush(FoldLeft(Step, [done |-> <<>>, ids |-> <<>>, topic |-> ""], [i \in DOMAIN candidates |-> i]))

\* _validate_delivery_plan, of a plan with a result of either kind.
InRecording(range) == 0 <= range.start /\ range.start < range.end /\ range.end <= Duration
ValidBoundary(i, f) ==
    LET initial == [start |-> candidates[i].start, end |-> candidates[i].end]
    IN  CASE f.remedy = "not_needed" -> ~Requested(reviews[i]) /\ f.range = initial
          [] f.remedy = "applied"    -> /\ f.range = reviews[i].fix /\ f.range # initial
                                        /\ f.range.start <= initial.start /\ f.range.end >= initial.end
          [] f.remedy = "invalid"    -> f.range = initial
ValidSeries(p) ==
    /\ \A s \in Range(p.series) :
         /\ Len(s) >= 2 /\ Range(s) \subseteq p.videos
         /\ \A k \in DOMAIN s : s[k] = s[1] + k - 1 /\ Topic(s[k]) = Topic(s[1])
    /\ \A k, l \in DOMAIN p.series : k # l => Range(p.series[k]) \cap Range(p.series[l]) = {}
ValidPlan(p) ==
    /\ \A i \in DOMAIN p.finals : InRecording(p.finals[i].range) /\ ValidBoundary(i, p.finals[i])
    /\ p.videos = {i \in DOMAIN p.finals : p.finals[i].selection.published}
    /\ ValidSeries(p)
    /\ p.videos = {} => p.series = <<>>

Finalize ==
    /\ outcome = "finalize"
    /\ plan' = [finals |-> [i \in DOMAIN candidates |-> FinalCandidate(i)], videos |-> Selected, series |-> Series]
    /\ outcome' = IF ValidPlan(plan') THEN "issued" ELSE "invalid"
    /\ UNCHANGED <<chunks, policy, candidates, reviews>>

PlanInit ==
    /\ chunks \in Transcripts /\ policy \in Policies
    /\ candidates = <<>> /\ reviews = <<>> /\ plan = NoPlan /\ outcome = "prepare"

PlanNext == PrepareCandidates \/ ReviewCandidates \/ ReviewIncomplete \/ Finalize

PlanSpec == PlanInit /\ [][PlanNext]_planVars

-----------------------------------------------------------------------------
(* Properties                                                                *)

PlanTypeOK ==
    /\ chunks \in Transcripts /\ policy \in Policies
    /\ \A i \in DOMAIN candidates : {candidates[i].first, candidates[i].last} \subseteq DOMAIN chunks
    /\ plan.videos \subseteq DOMAIN candidates
    /\ outcome \in {"prepare", "review", "finalize", "refused", "issued", "invalid"}

\* The candidates have legal lengths, share no chunk and stand in order, and none
\* could be added: a chunk outside them starts no run of legal length.
CandidatesSound ==
    outcome = "review" =>
        /\ \A i \in DOMAIN candidates :
             /\ Legal(candidates[i].first, candidates[i].last)
             /\ \A j \in DOMAIN candidates : i < j => candidates[i].last < candidates[j].first
             /\ \A j \in {candidates[i].before, candidates[i].after} \ {0} :
                  chunks[j].end <= candidates[i].start \/ chunks[j].start >= candidates[i].end
        /\ \A k \in DOMAIN chunks :
             \/ \E i \in DOMAIN candidates : k \in candidates[i].first .. candidates[i].last
             \/ \A last \in k .. Len(chunks) : ~Legal(k, last)

\* What is published has a legal length, was found good in all respects, and
\* nobody hears excluded content in it.
PublishedAreFit ==
    \A i \in plan.videos :
        /\ plan.finals[i].range.end - plan.finals[i].range.start \in policy.min .. policy.max
        /\ \A t \in plan.finals[i].range.start .. plan.finals[i].range.end - 1 :
             ~\E j \in DOMAIN chunks : chunks[j].excluded /\ t \in chunks[j].start .. chunks[j].end - 1
        /\ reviews[i].score >= policy.threshold /\ ~reviews[i].human

\* The limit drops only what it must: exactly so many remain, no topic is told
\* twice while another is dropped altogether, and where a worse one was kept, a
\* priority or a topic of its own speaks for it.
LimitIsFair ==
    outcome = "issued" =>
        LET dropped == {i \in DOMAIN plan.finals : plan.finals[i].selection.reason = "max_clips_limit"}
            kept    == plan.videos
        IN  /\ policy.clips > 0 => Cardinality(kept) <= policy.clips
            /\ dropped # {} => Cardinality(kept) = policy.clips
            /\ \A i, j \in kept : i # j /\ Topic(i) = Topic(j) => \A d \in dropped : Topic(d) \in Covered(kept)
            /\ \A d \in dropped, k \in kept :
                 Better(d, k) => \/ \E p \in Range(Priorities) : Speaks(k, p)
                                 \/ Topic(d) \in Covered(kept) /\ \A j \in kept \ {k} : Topic(j) # Topic(k)

\* Neighbours of one topic that are both published are in one series, and a plan
\* is never refused by its own check.
SeriesComplete ==
    outcome = "issued" =>
        \A i \in plan.videos : i + 1 \in plan.videos /\ Topic(i) = Topic(i + 1) =>
            \E s \in Range(plan.series) : {i, i + 1} \subseteq Range(s)

\* The plan passes its own check, offers only what is fit, drops only what the
\* limit makes it drop and leaves out no clip it could have.
PlanSound == outcome # "invalid" /\ CandidatesSound /\ PublishedAreFit /\ LimitIsFair /\ SeriesComplete
=============================================================================
