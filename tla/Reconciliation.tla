---------------------------- MODULE Reconciliation ----------------------------
(***************************************************************************)
(* complete_transcription: the primary windows of a recording are          *)
(* recognised independently, overlapping answers are put to a vote, and    *)
(* what stays open - speech without text, texts that disagree - is asked   *)
(* again until nothing is open, the budget is spent or a round brings no   *)
(* progress.  Time is counted in units that the constants scale.           *)
(*                                                                         *)
(* An answer is any sequence of chunks the adapter may return for its      *)
(* window; a chunk carries the intervals of its characters, or none.       *)
(***************************************************************************)
EXTENDS Ranking, Integers, FiniteSets, FiniteSetsExt, SequencesExt

CONSTANTS Durations,           \* lengths of recordings
          SpeechOf(_),         \* sets of confirmed intervals for a length
          AnswersFor(_),       \* what the adapter may answer a work with
          Texts,               \* what may be said, letters only, and
          Blank,               \* one without a letter
          PrimaryCore, Context, Tolerance, RecoveryCore,
          MaxRounds,           \* recovery rounds that may touch a region
          MaxRequests, MaxAudio

\* Half-open intervals of the recording (TimeInterval).
Intervals == {i \in [start : Nat, end : Nat] : i.start < i.end}

\* What the policy and the evidence of speech are known to be.
ReconInputs ==
    /\ Durations \subseteq Nat \ {0}
    /\ {PrimaryCore, RecoveryCore, MaxRounds} \subseteq Nat \ {0}
    /\ {Context, Tolerance, MaxRequests, MaxAudio} \subseteq Nat
    /\ \A d \in Durations : SpeechOf(d) \subseteq {S \in SUBSET Intervals : IsFiniteSet(S)}

ASSUME ReconAssumption == ReconInputs

VARIABLES
    duration,   \* of the recording
    speech,     \* confirmed speech, merged
    works,      \* every work so far; its sequence number is its index
    answers,    \* the observations, by sequence number
    analysis,   \* the accepted chunks, the gaps and the conflicts
    rounds,     \* the targets of each recovery round
    audio,      \* recovery_audio_ms
    verdict,    \* "open" until complete_transcription returns or raises
    reported    \* recovery_count in the facts of the result or failure

reconVars == <<duration, speech, works, answers, analysis, rounds, audio, verdict, reported>>

-----------------------------------------------------------------------------
(* Intervals                                                                 *)

Interval(s, e) == [start |-> s, end |-> e]
Length(i) == i.end - i.start
Overlap(a, b) == Min({a.end, b.end}) - Max({a.start, b.start})
TotalLength(S) == FoldSet(LAMBDA i, n : n + Length(i), 0, S)

\* Intervals that are at most `gap` apart become one: the borders of the merged
\* ones are the starts and ends that no other interval bridges.
Merge(S, gap) ==
    LET Bridges(i, t) == i.start <= t + gap /\ t < i.end
        starts == {i.start : i \in {j \in S : \A k \in S : k.start < j.start => k.end + gap < j.start}}
        ends   == {i.end : i \in {j \in S : ~\E k \in S : Bridges(k, j.end)}}
    IN  {Interval(s, Min({e \in ends : e > s})) : s \in starts}

\* An interval cut into pieces of at most `size`.
Pieces(i, size) ==
    {Interval(s, Min({i.end, s + size})) : s \in {t \in i.start .. i.end - 1 : (t - i.start) % size = 0}}

WithContext(i) == Interval(Max({0, i.start - Context}), Min({duration, i.end + Context}))

-----------------------------------------------------------------------------
(* Works and answers                                                         *)

Work(kind, core) == [kind |-> kind, core |-> core, request |-> WithContext(core)]

WorksFor(kind, cores) ==
    LET line == Listed(cores, Earlier) IN [n \in DOMAIN line |-> Work(kind, line[n])]

PrimaryWork == WorksFor("primary", Pieces(Interval(0, duration), PrimaryCore))

\* What TranscriptionChunk accepts: the characters it measures, if it does, lie
\* in the chunk.
Chunks == {c \in [start : Nat, end : Nat, text : Texts, spans : SUBSET Intervals] :
              c.start < c.end /\ \A i \in c.spans : c.start <= i.start /\ i.end <= c.end}

\* _validate_observation: inside the window and in order, or the answer is
\* refused as invalid output.
Valid(w, a) ==
    /\ \A n \in DOMAIN a : a[n].start >= w.request.start /\ a[n].end <= w.request.end
    /\ \A n \in 1 .. Len(a) - 1 : \/ a[n].start < a[n + 1].start
                                  \/ a[n].start = a[n + 1].start /\ a[n].end <= a[n + 1].end

Normalized(text) == IF text = Blank THEN <<>> ELSE <<text>>

-----------------------------------------------------------------------------
(* The analysis                                                              *)

AllCandidates(ws, as) ==
    UNION {{[seq |-> n, index |-> k, chunk |-> as[n][k], work |-> ws[n]] : k \in DOMAIN as[n]} : n \in DOMAIN as}

\* Candidates that overlap, directly or through others, are one cluster: no
\* moment separates them.
Separated(a, b, S) == \E t \in {c.chunk.end : c \in S} :
    /\ \/ a.chunk.end <= t /\ b.chunk.start >= t
       \/ b.chunk.end <= t /\ a.chunk.start >= t
    /\ \A c \in S : c.chunk.end <= t \/ c.chunk.start >= t
Around(a, S) == {b \in S : ~Separated(a, b, S)}
Clusters(S) == {Around(a, S) : a \in S}

ClusterInterval(C) == Interval(Min({c.chunk.start : c \in C}), Max({c.chunk.end : c \in C}))

\* Python's order of tuples, and the greatest of a set under it.
Above(p, q) == \E n \in DOMAIN p : p[n] > q[n] /\ \A k \in 1 .. n - 1 : p[k] = q[k]
Best(S, rank(_)) == CHOOSE x \in S : \A y \in S \ {x} : Above(rank(x), rank(y))

Flag(b) == IF b THEN 1 ELSE 0
MidpointTwice(c) == c.chunk.start + c.chunk.end
EdgeDistance(c) == Min({MidpointTwice(c) - 2 * c.work.request.start, 2 * c.work.request.end - MidpointTwice(c)})
CandidateTrust(c) == <<Flag(c.chunk.spans # {}), EdgeDistance(c), -c.seq, -c.index>>

TextOf(own) == LET line == SetToSortSeq(own, LAMBDA a, b : a.chunk.start < b.chunk.start)
             IN  FoldLeft(LAMBDA t, c : t \o Normalized(c.chunk.text), <<>>, line)

\* _candidate_sequences: what one observation says in a cluster, without its
\* own repetitions.
Sequence(n, C) ==
    LET own  == {Best(G, CandidateTrust) : G \in Clusters({c \in C : c.seq = n})}
    IN  [seq |-> n, parts |-> own, interval |-> ClusterInterval(own), text |-> TextOf(own)]
SequencesOf(C) == LET nums == Ascending({c.seq : c \in C})
                  IN  [k \in DOMAIN nums |-> Sequence(nums[k], C)]

\* One observation that contradicts itself makes the whole output invalid.
SelfContradicting(C) == \E n \in {c.seq : c \in C} : \E G \in Clusters({c \in C : c.seq = n}) :
                            Cardinality({Normalized(c.chunk.text) : c \in G}) > 1
Invalid(C) == SelfContradicting(C) \/ \E c \in C : c.chunk.text = Blank

SameHypothesis(a, b) ==
    /\ a.text = b.text
    /\ Overlap(a.interval, b.interval) > 0
    /\ 2 * Overlap(a.interval, b.interval) > Max({Length(a.interval), Length(b.interval)})

\* _build_vote_groups: a sequence joins the first group it agrees with.
Join(groups, s) ==
    LET fits == {n \in DOMAIN groups : \A m \in groups[n] : SameHypothesis(s, m)}
    IN  IF fits = {} THEN Append(groups, {s}) ELSE [groups EXCEPT ![Min(fits)] = @ \cup {s}]
VoteGroups(seqs) == ToSet(FoldLeft(Join, <<>>, seqs))

Owned(c) == 2 * c.work.core.start <= MidpointTwice(c) /\ MidpointTwice(c) < 2 * c.work.core.end

Covers(s, i) == s.interval.start <= i.start + Tolerance /\ s.interval.end >= i.end - Tolerance

SequenceTrust(s) ==
    LET measured == {c \in s.parts : c.chunk.spans # {}}
    IN  <<Flag(measured = s.parts), Flag(measured # {}), Min({EdgeDistance(c) : c \in s.parts}),
          -s.seq, -Min({c.index : c \in s.parts})>>

\* _choose_sequence: the sequences that belong wholly to their windows and
\* cover what is required.
FullyOwned(G, required) == {s \in G : (\A c \in s.parts : Owned(c)) /\ \A i \in required : Covers(s, i)}

Shared(a, b) == Interval(Max({a.start, b.start}), Min({a.end, b.end}))

\* _semantic_conflict_intervals: where two groups speak at once.
Disputed(groups, C) ==
    LET both == UNION {{Shared(a.interval, b.interval) : a \in G, b \in UNION (groups \ {G})} : G \in groups}
        real == {i \in both : i.end > i.start}
    IN  IF real = {} THEN {ClusterInterval(C)} ELSE Merge(real, 0)

\* Fault: in a tie the recovery is right.
RecoveryWinsTies(groups) ==
    {G \in groups : /\ \A H \in groups \ {G} : Cardinality(G) >= Cardinality(H)
                    /\ \E s \in G : \E c \in s.parts : c.work.kind = "recovery"}

\* The group that wins a vote: alone at the top, at least two voices, one of
\* them from a recovery.
Leaders(groups) ==
    {G \in groups : /\ \A H \in groups \ {G} : Cardinality(G) > Cardinality(H)
                    /\ Cardinality(G) >= 2
                    /\ \E s \in G : \E c \in s.parts : c.work.kind = "recovery"}

\* What becomes of a cluster: accepted candidates or conflicts.
Decide(C) ==
    LET groups   == VoteGroups(SequencesOf(C))
        required == IF Cardinality(groups) = 1 THEN {ClusterInterval(C)} ELSE Disputed(groups, C)
        winners  == IF Cardinality(groups) = 1 THEN groups ELSE Leaders(groups)
        chosen   == UNION {FullyOwned(G, required) : G \in winners}
    IN  IF chosen = {} THEN [accepted |-> {}, conflicts |-> required]
        ELSE [accepted |-> Best(chosen, SequenceTrust).parts, conflicts |-> {}]

Coverage(c) == IF c.spans = {} THEN {Interval(c.start, c.end)} ELSE c.spans

\* _find_speech_gaps: a speech interval nothing was measured in is a gap;
\* otherwise the stretches that are longer than the tolerance are.
Gaps(sp, chunks) ==
    LET measured == UNION {Coverage(c) : c \in chunks}
        covered  == Merge(measured, Tolerance)
        InSpeech(s) ==
            LET touching == {m \in covered : Overlap(m, s) > 0}
                edges == {s.start} \cup {m.end : m \in touching}
                NextStart(t) == Min({s.end} \cup {m.start : m \in {k \in touching : k.start > t}})
            IN  {i \in {Interval(t, NextStart(t)) : t \in {e \in edges : e < s.end}} :
                    /\ Length(i) > Tolerance
                    /\ \A m \in touching : Overlap(m, i) <= 0}
    IN  UNION {IF \A m \in measured : Overlap(m, s) <= 0 THEN {s} ELSE InSpeech(s) : s \in sp}

Analyze(ws, as) ==
    LET decisions == {Decide(C) : C \in Clusters(AllCandidates(ws, as))}
        taken     == UNION {d.accepted : d \in decisions}
    IN  [accepted |-> taken, gaps |-> Gaps(speech, {c.chunk : c \in taken}),
         conflicts |-> UNION {d.conflicts : d \in decisions}]
OutputInvalid(ws, as) == \E C \in Clusters(AllCandidates(ws, as)) : Invalid(C)

-----------------------------------------------------------------------------
(* The rounds                                                                *)

NoAnalysis == [accepted |-> {}, gaps |-> {}, conflicts |-> {}]

ReconInit ==
    /\ duration \in Durations
    /\ \E S \in SpeechOf(duration) : speech = Merge(S, 0)
    /\ works = <<>> /\ answers = <<>> /\ rounds = <<>> /\ audio = 0
    /\ analysis = NoAnalysis /\ verdict = "open" /\ reported = 0

Recoveries == Cardinality({n \in DOMAIN works : works[n].kind = "recovery"})

\* complete_transcription leaves with a result or a failure.
LeaveWith(how, count) == verdict' = how /\ reported' = count

\* Evidence beyond the end of the recording is refused.
Inconclusive ==
    /\ verdict = "open" /\ \E i \in speech : i.end > duration
    /\ LeaveWith("failed", 0)
    /\ UNCHANGED <<duration, speech, works, answers, analysis, rounds, audio>>

SpeechAbsent ==
    /\ verdict = "open" /\ speech = {}
    /\ LeaveWith("absent", 0)
    /\ UNCHANGED <<duration, speech, works, answers, analysis, rounds, audio>>

\* The root cancellation is looked at between all steps.
Interrupt ==
    /\ verdict = "open"
    /\ LeaveWith("interrupted", 0)
    /\ UNCHANGED <<duration, speech, works, answers, analysis, rounds, audio>>

\* One answer for each work.
AnswersTo(new) == FoldLeft(LAMBDA S, w : {Append(p[1], p[2]) : p \in S \X AnswersFor(w)}, {<<>>}, new)

\* observe() answers every work, and _collect_observations accepts it: chunks for
\* each work, and valid ones.
Observed(new) == \E as \in AnswersTo(new) :
    /\ as \in Seq(Seq(Chunks)) /\ Len(as) = Len(new)
    /\ \A n \in DOMAIN new : Valid(new[n], as[n])
    /\ works' = works \o new
    /\ answers' = answers \o as

MadeProgress(before, after) ==
    LET gap(a) == TotalLength(a.gaps)
        conflict(a) == TotalLength(Merge(a.conflicts, 0))
    IN  /\ gap(after) <= gap(before) /\ conflict(after) <= conflict(before)
        /\ gap(after) < gap(before) \/ conflict(after) < conflict(before)

Primary ==
    /\ verdict = "open" /\ speech # {} /\ works = <<>>
    /\ \A i \in speech : i.end <= duration
    /\ Observed(PrimaryWork)
    /\ IF OutputInvalid(works', answers')
       THEN LeaveWith("failed", 0) /\ UNCHANGED analysis
       ELSE analysis' = Analyze(works', answers') /\ UNCHANGED <<verdict, reported>>
    /\ UNCHANGED <<duration, speech, rounds, audio>>

Unresolved(a) == Merge(a.gaps \cup a.conflicts, 0)
Targets == UNION {Pieces(i, RecoveryCore) : i \in Unresolved(analysis)}
RecoveryWorks == WorksFor("recovery", Targets)

\* What the round asks for, in all.
RecoveryAudio == FoldLeft(LAMBDA sum, w : sum + Length(w.request), 0, RecoveryWorks)

\* Fault: a target counts as tried only where exactly it was asked for before.
ExhaustedByName ==
    \/ Recoveries + Cardinality(Targets) > MaxRequests
    \/ audio + RecoveryAudio > MaxAudio
    \/ \E t \in Targets : Cardinality({n \in DOMAIN rounds : t \in rounds[n]}) >= MaxRounds

\* _recovery_budget_exhausted
Exhausted ==
    \/ Recoveries + Cardinality(Targets) > MaxRequests
    \/ audio + RecoveryAudio > MaxAudio
    \/ \E t \in Targets :
         Cardinality({n \in DOMAIN rounds : \E old \in rounds[n] : Overlap(old, t) > 0}) >= MaxRounds

Open == verdict = "open" /\ works # <<>> /\ analysis.gaps \cup analysis.conflicts # {}

GiveUp ==
    /\ Open /\ Exhausted
    /\ LeaveWith("incomplete", Recoveries)
    /\ UNCHANGED <<duration, speech, works, answers, analysis, rounds, audio>>

\* One round of recovery.
Recover ==
    /\ Open /\ ~Exhausted
    /\ Observed(RecoveryWorks)
    /\ rounds' = Append(rounds, Targets)
    /\ audio' = audio + RecoveryAudio
    /\ IF OutputInvalid(works', answers')
       THEN LeaveWith("failed", Recoveries') /\ UNCHANGED analysis
       ELSE /\ analysis' = Analyze(works', answers')
            /\ IF MadeProgress(analysis, analysis') THEN UNCHANGED <<verdict, reported>>
               ELSE LeaveWith("incomplete", Recoveries')
    /\ UNCHANGED <<duration, speech>>

\* A round, the primary one included, fails in the adapter.
RoundFails ==
    /\ verdict = "open" /\ speech # {} /\ \A i \in speech : i.end <= duration
    /\ works = <<>> \/ (Open /\ ~Exhausted)
    /\ works' = works \o (IF works = <<>> THEN PrimaryWork ELSE RecoveryWorks)
    /\ LeaveWith("failed", Recoveries')
    /\ UNCHANGED <<duration, speech, answers, analysis, rounds, audio>>

Complete ==
    /\ verdict = "open" /\ works # <<>> /\ analysis.gaps \cup analysis.conflicts = {}
    /\ LeaveWith("complete", Recoveries)
    /\ UNCHANGED <<duration, speech, works, answers, analysis, rounds, audio>>

ReconNext == Inconclusive \/ SpeechAbsent \/ Interrupt \/ Primary \/ GiveUp \/ Recover \/ RoundFails \/ Complete

ReconSpec == ReconInit /\ [][ReconNext]_reconVars
-----------------------------------------------------------------------------
(* Properties                                                                *)

ReconTypeOK ==
    /\ duration \in Durations /\ speech \subseteq Intervals
    /\ works \in Seq([kind : {"primary", "recovery"}, core : Intervals, request : Intervals])
    /\ answers \in Seq(Seq(Chunks)) /\ Len(answers) <= Len(works)
    /\ analysis.gaps \cup analysis.conflicts \subseteq Intervals
    /\ rounds \in Seq(SUBSET Intervals) /\ audio \in Nat /\ reported \in Nat
    /\ verdict \in {"open", "absent", "interrupted", "failed", "incomplete", "complete"}

Accepted    == {c.chunk : c \in analysis.accepted}
Disjoint(S) == \A i, j \in S : i # j => Overlap(i, j) <= 0

\* Something was accepted in every interval of speech and in every stretch of
\* one that is longer than the tolerance (_find_speech_gaps).
SpeechCovered ==
    \A s \in speech : \A i \in {Interval(a, b) : a \in s.start .. s.end, b \in s.start .. s.end} :
        i = s \/ Length(i) > Tolerance => \E c \in Accepted : \E m \in Coverage(c) : Overlap(m, i) > 0

\* Around what was accepted every observation says the same; or else two say it,
\* and one of them is a recovery (the votes of _analyze).
DisputesOutvoted ==
    LET all        == AllCandidates(works, answers)
        Says(n, c) == Sequence(n, Around(c, all)).text
    IN  \A c \in analysis.accepted : \A d \in Around(c, all) :
            Says(d.seq, c) # Says(c.seq, c) =>
              \E e \in Around(c, all) : /\ e.seq # c.seq /\ Says(e.seq, c) = Says(c.seq, c)
                                       /\ "recovery" \in {e.work.kind, c.work.kind}

\* The search ends and is accounted for: no moment is the target of more than
\* MaxRounds rounds, nothing is asked beyond the budget, and the count in the
\* result or the failure is that of the recovery requests that were made
\* (_recovery_budget_exhausted, ExecutionFacts).
RecoveryBounded ==
    /\ \A t \in 0 .. duration - 1 :
         Cardinality({n \in DOMAIN rounds : \E i \in rounds[n] : i.start <= t /\ t < i.end}) <= MaxRounds
    /\ Recoveries <= MaxRequests /\ audio <= MaxAudio
    /\ verdict \notin {"open", "interrupted"} => reported = Recoveries

\* A complete transcript covers the speech, says nothing twice and nothing that
\* is not agreed on, whatever the windows, the borders and the order of the
\* answers are; and the search for it stays within its budget.
TranscriptSound ==
    /\ verdict = "complete" => SpeechCovered /\ Disjoint(Accepted) /\ DisputesOutvoted
    /\ RecoveryBounded
=============================================================================
