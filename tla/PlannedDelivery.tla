---------------------------- MODULE PlannedDelivery ----------------------------
(***************************************************************************)
(* The plan that ClipPlanning issues, as the live run hands it to          *)
(* DeliveryBuild.  The two modules say what a good plan is in words of     *)
(* their own, as the code does: ClipPlanning of positions in the           *)
(* transcript, DeliveryDocuments of identities and times.                  *)
(*                                                                         *)
(* Identities are given out in the order of the plan, so a position stands *)
(* for its identity.  What neither of the two looks at is the simplest     *)
(* there is: one unmeasured character for each chunk, and subtitles that   *)
(* came from the cache.                                                    *)
(***************************************************************************)
EXTENDS ClipPlanning, DeliveryDocuments

RangeOf(c) == [start |-> c.start, end |-> c.end]

TranscriptHanded ==
    [id |-> 2, duration |-> Duration,
     chunks |-> [i \in DOMAIN chunks |->
        [id |-> i, start |-> chunks[i].start, end |-> chunks[i].end, text |-> i, chars |-> 1, spans |-> <<>>]]]

\* A review may be published if nothing in it speaks against it.
Fit(r) == r.complete /\ r.decision = "publish_ready" /\ ~r.human /\ ~r.rejected

CandidateHanded(i) ==
    LET c == candidates[i]  r == reviews[i]  f == plan.finals[i]
    IN  [id |-> i, chunks |-> c.first .. c.last, initial |-> RangeOf(c), final |-> f.range, status |-> f.remedy,
         suggested |-> r.suggested, requested |-> r.fix, review |-> [suggested |-> r.suggested, requested |-> r.fix],
         topic |-> Topic(i), fit |-> Fit(r), video |-> IF f.selection.published THEN i ELSE NoVideo]

SeriesHanded(k) == [id |-> k, topic |-> Topic(plan.series[k][1]), members |-> plan.series[k]]

PlanHanded ==
    [id |-> 3, transcript |-> 2, candidates |-> [i \in DOMAIN candidates |-> CandidateHanded(i)],
     series |-> [k \in DOMAIN plan.series |-> SeriesHanded(k)]]

FactsHanded ==
    LET n == Len(Published(PlanHanded.candidates))
    IN  [videos |-> n, windows |-> n, hits |-> n, misses |-> 0, requests |-> 0, semanticRetries |-> 0,
         attempts |-> 0, retries |-> 0]

DeliveryOfPlan == [run |-> 1, transcript |-> TranscriptHanded, plan |-> PlanHanded, facts |-> FactsHanded]

\* A plan is issued, of reviews that TopicReview lets through.
Reviewed == outcome = "issued" /\ \A i \in DOMAIN candidates : Reviewable(candidates[i], reviews[i])

-----------------------------------------------------------------------------
(* Properties                                                                *)

\* The plan that ClipPlanning issues keeps to what DeliveryDocuments expects of the
\* stages before it, and DeliveryVerification accepts it as DeliveryBuild writes it,
\* unless a fix made one candidate overtake another: the series of the one are
\* those the other expects.
PlansDeliverable ==
    Reviewed => /\ Issued(DeliveryOfPlan) /\ Readable(Documents(DeliveryOfPlan))
                /\ KeepsOrder(DeliveryOfPlan.plan.candidates) => BuiltIsAccepted(DeliveryOfPlan)

\* What ClipPlanning issues can be delivered, wherever the fixes moved the clips
\* (clip_planning/_model.py:770 holds a series to the order of its candidates in
\* the recording, and DeliveryVerification to the order after the fixes).
IssuedIsDeliverable == Reviewed => BuiltIsAccepted(DeliveryOfPlan)
=============================================================================
