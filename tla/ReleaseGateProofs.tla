--------------------------- MODULE ReleaseGateProofs ---------------------------
(***************************************************************************)
(* For any commands an operator may have running, any plans, hosts and     *)
(* outcomes of the runs, any number of attempts: what the release gate     *)
(* lets pass is earned, what the commands write reads back, and what       *)
(* passes can be sealed.                                                   *)
(*                                                                         *)
(* The gate keeps no state but its files, so the invariant says of each    *)
(* file what it stands for: BaseInv whoever wrote beside it, SoloInv as    *)
(* long as no two commands have met, CountInv as long as, besides, no run  *)
(* was cut short and no failure left unfiled.                              *)
(*                                                                         *)
(* The last part is about what the gate's runs deliver: for every number   *)
(* of files and edits, the way of a delivery from the recording to the     *)
(* directory the operator sees.                                            *)
(***************************************************************************)
EXTENDS ReleaseGate, DeliveryChain, FiniteSetTheorems, SequenceTheorems, TLAPS

-----------------------------------------------------------------------------
(* The inductive invariant                                                  *)

\* Where a command is; at work it has an attempt and a run.
Pcs    == {"workspace", "private", "run", "running", "judge", "write", "failing"}
AtWork == {"run", "running", "judge"}

\* A run as it starts, and as it ends or is scrubbed.
Outcomes == ColdOutcomes \cup WarmOutcomes
Begun ==
    [id : Attempts \X Nat, status : {"running"}, code : {""}, leak : {FALSE}, inputs : {w.inputs : w \in Worlds},
     candidate : {w.candidate : w \in Worlds}, installation : {w.installation : w \in Worlds}]
Done ==
    [id : Attempts \X Nat, status : {"succeeded", "failed", "removed"}, code : {""} \cup {o.code : o \in Outcomes},
     leak : BOOLEAN, inputs : {w.inputs : w \in Worlds}, candidate : {w.candidate : w \in Worlds},
     installation : {w.installation : w \in Worlds}, contract : BOOLEAN, requests : [Capabilities -> Nat],
     cache : {o.cache : o \in Outcomes}, videos : Nat, projection : {o.projection : o \in Outcomes}]
RunRecords == Begun \cup Done
SeqGood(i, s) ==
    /\ s \in Seq(RunRecords) /\ Len(s) <= MaxRuns
    /\ \A n \in 1 .. Len(s) : s[n].id = <<i, n>> /\ (s[n].code = "transient" => s[n].status = "failed")
RunsInv ==
    /\ runs = [i \in Attempts |-> runs[i]] /\ \A i \in Attempts : SeqGood(i, runs[i])
    /\ deliveryRun \in [Attempts -> Nat] /\ previousRun \in [Attempts -> Nat]
    /\ \A i \in Attempts : deliveryRun[i] <= Len(runs[i]) /\ previousRun[i] <= Len(runs[i])

PlanGood(w) == w \in {Absent, Half} \/ (w.state = "plan" /\ w.facts \in Worlds)
WorldInv ==
    /\ world \in Worlds /\ left \in [changes : 0 .. MaxLeft, kills : 0 .. MaxLeft, overlaps : 0 .. MaxLeft]
    /\ plans = [p \in PlanPaths |-> plans[p]] /\ \A p \in PlanPaths : PlanGood(plans[p])
    /\ torn \in BOOLEAN /\ cut \in BOOLEAN /\ met \in BOOLEAN /\ unfiled \in BOOLEAN

\* What the files f of attempt i say of its runs s and of one another.
ColdGood(i, s, v) ==
    /\ v.state = "cold" /\ v.attempt = i /\ v.plan.state = "plan"
    /\ \E n \in 1 .. Len(s) : s[n] = v.run
    /\ ~v.run.leak /\ Summary(v.run, v.plan.facts, FALSE) = ""
    /\ v.projection = v.run.projection /\ v.checked = Checked(v.run)
ReviewGood(i, f, v) ==
    /\ v.state = "review" /\ v.attempt = i /\ f.cold.state = "cold" /\ v.cold = f.cold
    /\ v.run = v.cold.run.id /\ v.clips = v.cold.run.videos /\ v.plan = v.cold.plan
PassGood(i, f, s, v) ==
    /\ v.state = "passed" /\ v.attempt = i /\ f.cold.state = "cold" /\ f.review.state = "review"
    /\ v.plan = f.cold.plan /\ v.phases = <<f.cold, f.review>> /\ v.cold = f.cold.run
    /\ \E n \in 1 .. Len(s) : s[n] = v.warm /\ v.cold.id[2] < n
    /\ ~v.warm.leak /\ Summary(v.warm, v.plan.facts, TRUE) = ""
    /\ v.warm.installation = v.cold.installation /\ v.warm.projection = v.cold.projection
    /\ v.warm.videos = v.cold.videos
    /\ v.projection = f.cold.projection /\ v.checked.cold = f.cold.checked
Transient(s) == Len(s) = 1 /\ s[1].status = "failed" /\ s[1].code = "transient" /\ ~s[1].leak
Away     == Unclassified("run.failed", "transient", "provider_transient")
NoLaunch == Unclassified("independent_validation.launch_failed", "independent_validation.launch_failed",
                         "certified_host_infrastructure")
FailGood(i, f, s, v) ==
    /\ v.state = "failed" /\ v.attempt = i
    /\ \/ v.failure = Rejection
       \/ v.failure = Away /\ v.phase = "cold_run" /\ f.cold = Absent /\ Transient(s) /\ v.runs = <<s[1].id>>
       \/ v.failure = NoLaunch
Open(f) == f.record.state = "failed" /\ f.record.failure.class # "candidate_rejected"
ClassGood(i, f, v) ==
    /\ v.state = "class" /\ v.attempt = i /\ Open(f) /\ v.record = f.record /\ v.plan = f.record.plan
    /\ v.class = f.record.failure.class
Excusing(f) == Open(f) /\ f.class # Absent

FileShape(f) ==
    /\ f = [workspace |-> f.workspace, private |-> f.private, cold |-> f.cold, review |-> f.review,
            record |-> f.record, class |-> f.class, checked |-> f.checked]
    /\ f.checked = [cold |-> f.checked.cold, previous |-> f.checked.previous, warm |-> f.checked.warm]
    /\ f.workspace \in BOOLEAN /\ f.private \in BOOLEAN
Unchecked == [cold |-> Absent, previous |-> Absent, warm |-> Absent]
Fresh(workspace, private) ==
    [workspace |-> workspace, private |-> private, cold |-> Absent, review |-> Absent, record |-> Absent,
     class |-> Absent, checked |-> Unchecked]
Entered == Fresh(TRUE, FALSE)
FileGood(i, f, s) ==
    /\ FileShape(f)
    /\ ~f.workspace => f = NoAttempt
    /\ ~f.private => f \in {NoAttempt, Entered} /\ Len(s) = 0
    /\ f.cold \in {Absent, Half} \/ ColdGood(i, s, f.cold)
    /\ f.review \in {Absent, Half} \/ ReviewGood(i, f, f.review)
    /\ f.record \in {Absent, Half} \/ PassGood(i, f, s, f.record) \/ FailGood(i, f, s, f.record)
    /\ f.class \in {Absent, Half} \/ ClassGood(i, f, f.class)
    /\ f.class # Absent => Open(f)
    /\ f.cold = Absent => Len(s) <= 1
FilesInv ==
    /\ files = [i \in Attempts |-> files[i]]
    /\ \A i \in Attempts : FileGood(i, files[i], runs[i])
    /\ \A i, j \in Attempts : i < j /\ files[j].workspace => files[i].workspace /\ Excusing(files[i])

\* What a command x knows of the files f, the runs s and the plan w it works with.
Shaped(x) ==
    x = [pc |-> x.pc, name |-> x.name, plan |-> x.plan, attempt |-> x.attempt, reason |-> x.reason,
         value |-> x.value, run |-> x.run]
Reviewed(f, w) == f.cold.state = "cold" /\ f.cold.plan = w /\ f.review.state = "review"
ValueGood(i, f, s, v) ==
    ColdGood(i, s, v) \/ ReviewGood(i, f, v) \/ PassGood(i, f, s, v) \/ FailGood(i, f, s, v) \/ ClassGood(i, f, v)
CommandGood(x, f, s, w) ==
    /\ Shaped(x) /\ x.pc \in Pcs /\ x.name \in {"execute", "review", "rerun", "classify"}
    /\ x.plan \in PlanPaths /\ w # Absent /\ x.run \in Nat
    /\ x.pc # "failing" => x.attempt \in Attempts /\ w.state = "plan"
    /\ x.pc \in {"workspace", "private"} => x.name = "execute"
    /\ x.pc \in {"workspace", "private", "run"} => x.run = 0
    /\ x.pc = "private" => f.workspace /\ Len(s) = 0
    /\ x.pc \in AtWork \cup {"write"} => f.private
    /\ x.pc \in AtWork => x.name \in {"execute", "rerun"}
    /\ x.pc \in AtWork /\ x.name = "execute" /\ f.cold = Absent => Len(s) = x.run
    /\ x.pc \in AtWork /\ x.name = "rerun" => Reviewed(f, w)
    /\ x.pc = "run" /\ x.name = "execute" => Len(s) = 0
    /\ x.pc \in {"running", "judge"} =>
         /\ x.run \in 1 .. Len(s)
         /\ (x.pc = "running") <=> (s[x.run].status = "running")
         /\ x.name = "rerun" => f.cold.run.id[2] < x.run
    /\ x.pc = "write" => ValueGood(x.attempt, f, s, x.value) /\ x.value.plan = w
    /\ x.pc = "failing" => /\ x.reason = "run.failed" => x.name \in {"execute", "rerun"}
                           /\ x.run # 0 => x.reason \notin Refusals
Earlier(x, fs) ==
    x.pc = "workspace" => \A i \in Attempts : i < x.attempt => fs[i].workspace /\ Excusing(fs[i])
Making(x) == x.name = "execute" /\ x.pc \in {"private"} \cup AtWork
Apart(x, y) ==
    x.attempt = y.attempt => ~(Making(x) /\ Making(y)) /\ ~(x.pc = "running" /\ y.pc = "running")
Placed(x) ==
    /\ CommandGood(x, files[x.attempt], runs[x.attempt], plans[x.plan]) /\ Earlier(x, files)
CommandsInv ==
    /\ cmd = [c \in Commands |-> cmd[c]]
    /\ \A c \in Commands : cmd[c] # Idle => Placed(cmd[c])
    /\ \A c, d \in Commands : c # d /\ cmd[c] # Idle /\ cmd[d] # Idle => Apart(cmd[c], cmd[d])
SealInv == sealed = 0 \/ (sealed \in Attempts /\ files[sealed].record.state = "passed")
BaseInv == RunsInv /\ WorldInv /\ FilesInv /\ CommandsInv /\ SealInv

-----------------------------------------------------------------------------
(* What one command that works alone knows                                  *)

\* What holds as long as no two commands have met.
PhaseAt(f) == IF f.cold = Absent THEN "cold_run" ELSE IF f.review = Absent THEN "manual_review" ELSE "cache_rerun"
Reads(f, w) ==
    /\ f.private
    /\ f.cold # Absent => f.cold.state = "cold" /\ f.cold.plan = w
    /\ f.review # Absent => f.review.state = "review" /\ f.review.plan = w
    /\ f.record # Absent => /\ f.record.state \in {"passed", "failed"} /\ f.record.plan = w
                            /\ f.record.state = "failed" => /\ f.record.phases = <<f.cold, f.review>>
                                                            /\ f.record.phase = PhaseAt(f)
    /\ f.class # Absent => f.class.state = "class" /\ f.class.plan = w
AllRead(fs, w) == \A i \in Attempts : fs[i].workspace => Reads(fs[i], w)
ReadBut(fs, w, a) == \A i \in Attempts : fs[i].workspace /\ i # a => Reads(fs[i], w)

NamesRuns(s, v) ==
    \/ \E a \in 1 .. Len(s) : v.runs = <<s[a].id>>
    \/ \E a, b \in 1 .. Len(s) : a # b /\ v.runs = <<s[a].id, s[b].id>>
FailSolo(s, v) == v.failure = NoLaunch => NamesRuns(s, v)
PassSolo(f, s, kept, there, v) ==
    /\ \A n \in 1 .. Len(s) : ~s[n].leak
    /\ kept # 0 /\ s[kept].id = v.cold.id /\ there # 0 /\ s[there].id = v.warm.id
    /\ f.checked = v.checked /\ v.checked.warm = Checked(v.warm) /\ v.checked.previous = Checked(v.cold)
Fits(x, f, s, kept, there) ==
    LET v == x.value IN
    /\ v.state # "class" => f.record = Absent
    /\ v.state = "cold"   => f.cold = Absent /\ f.checked.cold = v.checked
    /\ v.state = "review" => f.review = Absent
    /\ v.state = "passed" => PassSolo(f, s, kept, there, v)
    /\ v.state = "failed" => FailSolo(s, v) /\ v.phases = <<f.cold, f.review>> /\ v.phase = PhaseAt(f)
    /\ v.state = "class"  => f.class = Absent
    /\ x.name = "rerun" => v.state \in {"passed", "failed"}
CommandSolo(x, fs, s, kept, there, w) ==
    LET f == fs[x.attempt] IN
    /\ x.pc \in {"workspace", "write"} \cup AtWork => AllRead(fs, w)
    /\ x.pc = "workspace" => ~f.workspace
    /\ x.pc = "private" => f = Entered /\ ReadBut(fs, w, x.attempt)
    /\ x.pc \in AtWork \/ (x.pc = "failing" /\ x.run # 0) =>
         /\ AllRead(fs, w) /\ x.attempt \in Attempts /\ f.workspace /\ f.record = Absent /\ x.run <= Len(s)
         /\ x.name \in {"execute", "rerun"}
         /\ x.name = "execute" => f.cold = Absent
         /\ x.name = "rerun"   => Reviewed(f, w)
    /\ x.pc = "failing" /\ x.reason = "independent_validation.launch_failed" => x.run # 0
    /\ x.pc = "write" => Fits(x, f, s, kept, there)
    /\ x.pc = "judge" /\ s[x.run].status = "succeeded" => there = x.run
FileSolo(f, s, kept, there) ==
    /\ f.record.state = "passed" => PassSolo(f, s, kept, there, f.record)
    /\ f.record.state = "failed" => FailSolo(s, f.record)
    /\ f.cold.state = "cold" => f.checked.cold = f.cold.checked
AloneInv == \A c, d \in Commands : cmd[c] # Idle /\ cmd[d] # Idle => c = d
Alone(x) == CommandSolo(x, files, runs[x.attempt], previousRun[x.attempt], deliveryRun[x.attempt], plans[x.plan])
LegibleInv ==
    ~torn /\ (\E i \in Attempts : files[i].workspace) =>
        \/ \E p \in PlanPaths : plans[p].state = "plan" /\ AllRead(files, plans[p])
        \/ \E c \in Commands : cmd[c].pc = "private"
SoloInv ==
    /\ AloneInv
    /\ \A c \in Commands : cmd[c] # Idle => Alone(cmd[c])
    /\ \A i \in Attempts : FileSolo(files[i], runs[i], previousRun[i], deliveryRun[i])
    /\ \A i \in Attempts : files[i].record.state = "passed" => AllRead(files, files[i].record.plan)
    /\ LegibleInv
CountInv ==
    \A i \in Attempts :
        /\ files[i].record.state = "passed" => Len(runs[i]) = 2
        /\ files[i].cold.state = "cold" /\ files[i].record = Absent =>
             \/ Len(runs[i]) = 1
             \/ Len(runs[i]) = 2 /\ \E c \in Commands : cmd[c] # Idle /\ cmd[c].name = "rerun" /\ cmd[c].attempt = i
                                                          /\ cmd[c].run = 2
GateInv == BaseInv /\ (~met => SoloInv) /\ (~met /\ ~cut /\ ~unfiled => CountInv)

-----------------------------------------------------------------------------
(* How an attempt grows                                                     *)

\* How the runs of an attempt, its files and the plans grow.
Extends(s, t) ==
    /\ Len(s) <= Len(t)
    /\ \A n \in 1 .. Len(s) :
         t[n].id = s[n].id /\ (s[n].status # "running" /\ ~s[n].leak => t[n] = s[n])
Scrubs(s, t) ==
    /\ Len(t) = Len(s) /\ Extends(s, t)
    /\ \A n \in 1 .. Len(s) : (t[n].status = "running") <=> (s[n].status = "running")
FileGrows(f, g) ==
    /\ f.workspace => g.workspace
    /\ f.private => g.private
    /\ f.cold # Absent => g.cold = f.cold
    /\ f.review # Absent => g.review = f.review
    /\ f.record # Absent => g.record = f.record
    /\ f.class # Absent => g.class = f.class
Stays(f, s, g, t) ==
    FileGrows(f, g) /\ Extends(s, t) /\ (f.cold = Absent /\ Transient(s) => g.cold = Absent /\ Transient(t))

\* What a run says of itself, by its status: one that goes on or is scrubbed makes no claims.
LEMMA RunFacts ==
  ASSUME NEW r \in RunRecords
  PROVE  /\ r.leak \in BOOLEAN /\ (r.status = "running" => ~r.leak)
         /\ r.status \in {"running", "succeeded", "failed", "removed"}
         /\ r.status = "succeeded" => /\ r.contract \in BOOLEAN /\ r.requests \in [Capabilities -> Nat]
                                      /\ r.videos \in Nat /\ (\E o \in Outcomes : r.cache = o.cache)
<1>1. CASE r \in Begun
  BY <1>1 DEF Begun
<1>2. CASE r \in Done
  BY <1>2 DEF Done
<1> QED BY <1>1, <1>2 DEF RunRecords

\* A run whose record is removed for the secret in it is still a run, with no secret in it.
LEMMA ScrubbedRun ==
  ASSUME NEW r \in RunRecords, r.leak
  PROVE  LET q == [r EXCEPT !.leak = FALSE, !.status = "removed", !.code = ""] IN
         q \in RunRecords /\ q.id = r.id /\ ~q.leak /\ q.status = "removed" /\ q.code = "" /\ r.status # "running"
<1>1. r \in Done
  BY DEF RunRecords, Begun
<1>2. [r EXCEPT !.leak = FALSE, !.status = "removed", !.code = ""] \in Done
  BY <1>1 DEF Done
<1>3. LET q == [r EXCEPT !.leak = FALSE, !.status = "removed", !.code = ""] IN
      q.id = r.id /\ ~q.leak /\ q.status = "removed" /\ q.code = "" /\ r.status # "running"
  BY <1>1 DEF Done
<1> QED BY <1>2, <1>3 DEF RunRecords

\* Scrubbing an attempt leaves its runs in place, none of them with a secret.
LEMMA CleanedFacts ==
  ASSUME NEW i \in Attempts, SeqGood(i, runs[i])
  PROVE  /\ SeqGood(i, Cleaned(i)) /\ Scrubs(runs[i], Cleaned(i))
         /\ \A n \in 1 .. Len(runs[i]) : ~Cleaned(i)[n].leak
         /\ (\A n \in 1 .. Len(runs[i]) : ~runs[i][n].leak) => Cleaned(i) = runs[i]
<1> DEFINE s == runs[i]
           t == Cleaned(i)
           Wiped(r) == [r EXCEPT !.leak = FALSE, !.status = "removed", !.code = ""]
<1>1. s \in Seq(RunRecords) /\ Len(s) \in Nat /\ DOMAIN s = 1 .. Len(s) /\ Len(s) <= MaxRuns
      /\ \A n \in 1 .. Len(s) : s[n] \in RunRecords
  BY LenProperties, ElementOfSeq DEF SeqGood
<1>2. t = [n \in 1 .. Len(s) |-> IF s[n].leak THEN Wiped(s[n]) ELSE s[n]]
  BY <1>1 DEF Cleaned, Leaked
<1>3. \A n \in 1 .. Len(s) :
         /\ t[n] \in RunRecords /\ t[n].id = s[n].id /\ ~t[n].leak
         /\ s[n].leak => t[n].status = "removed" /\ t[n].code = "" /\ s[n].status # "running"
         /\ ~s[n].leak => t[n] = s[n]
  <2> SUFFICES ASSUME NEW n \in 1 .. Len(s)
               PROVE  /\ t[n] \in RunRecords /\ t[n].id = s[n].id /\ ~t[n].leak
                      /\ s[n].leak => t[n].status = "removed" /\ t[n].code = "" /\ s[n].status # "running"
                      /\ ~s[n].leak => t[n] = s[n]
    OBVIOUS
  <2> HIDE DEF s, t, Wiped
  <2>1. CASE s[n].leak
    <3>1. t[n] = Wiped(s[n])
      BY <1>2, <2>1
    <3> QED BY <1>1, <2>1, <3>1, ScrubbedRun DEF Wiped
  <2>2. CASE ~s[n].leak
    BY <1>1, <1>2, <2>2
  <2> QED BY <2>1, <2>2
<1>4. t \in Seq(RunRecords) /\ Len(t) = Len(s)
  <2> HIDE DEF s, t, Wiped
  <2>1. t \in [1 .. Len(s) -> RunRecords]
    BY <1>2, <1>3
  <2> QED BY <1>1, <2>1, IsASeq, LenProperties
<1>5. \A n \in 1 .. Len(s) : s[n].id = <<i, n>> /\ (s[n].code = "transient" => s[n].status = "failed")
  BY DEF SeqGood
<1> HIDE DEF s, t, Wiped
<1>6. SeqGood(i, t)
  <2>1. \A n \in 1 .. Len(s) : t[n].id = <<i, n>> /\ (t[n].code = "transient" => t[n].status = "failed")
    BY <1>3, <1>5
  <2> QED BY <1>1, <1>4, <2>1 DEF SeqGood
<1>7. Scrubs(s, t)
  <2>1. \A n \in 1 .. Len(s) : (t[n].status = "running") <=> (s[n].status = "running")
    BY <1>3
  <2>2. \A n \in 1 .. Len(s) : t[n].id = s[n].id /\ (s[n].status # "running" /\ ~s[n].leak => t[n] = s[n])
    BY <1>3
  <2>3. Len(s) <= Len(t)
    BY <1>1, <1>4
  <2> QED BY <1>4, <2>1, <2>2, <2>3 DEF Scrubs, Extends
<1>8. (\A n \in 1 .. Len(s) : ~s[n].leak) => t = s
  <2> HAVE \A n \in 1 .. Len(s) : ~s[n].leak
  <2> QED BY <1>1, <1>3, <1>4, SeqEqual
<1> QED BY <1>3, <1>6, <1>7, <1>8 DEF s, t

\* A cold run that was accepted stays the run of its attempt as more runs are made.
LEMMA ColdStays ==
  ASSUME NEW i, NEW s, NEW t, NEW v, s \in Seq(RunRecords), t \in Seq(RunRecords), Extends(s, t), ColdGood(i, s, v)
  PROVE  ColdGood(i, t, v)
<1>1. PICK n \in 1 .. Len(s) : s[n] = v.run
  BY DEF ColdGood
<1>2. v.run.status # "running" /\ ~v.run.leak
  BY DEF ColdGood, Summary
<1>3. t[n] = v.run /\ n \in 1 .. Len(t)
  BY <1>1, <1>2 DEF Extends
<1> QED BY <1>3 DEF ColdGood

\* A pass stays what its phases and its runs say as the files and the runs grow.
LEMMA PassStays ==
  ASSUME NEW i, NEW f, NEW s, NEW g, NEW t, NEW v, s \in Seq(RunRecords), t \in Seq(RunRecords),
         Extends(s, t), FileGrows(f, g), PassGood(i, f, s, v)
  PROVE  PassGood(i, g, t, v)
<1>1. PICK n \in 1 .. Len(s) : s[n] = v.warm /\ v.cold.id[2] < n
  BY DEF PassGood
<1>2. v.warm.status # "running" /\ ~v.warm.leak
  BY DEF PassGood, Summary
<1>3. t[n] = v.warm /\ n \in 1 .. Len(t)
  BY <1>1, <1>2 DEF Extends
<1>4. g.cold = f.cold /\ g.review = f.review
  <2>1. f.cold.state = "cold" /\ f.review.state = "review"
    BY DEF PassGood
  <2>2. f.cold # Absent /\ f.review # Absent
    BY <2>1 DEF Absent
  <2> QED BY <2>2 DEF FileGrows
<1> QED BY <1>1, <1>3, <1>4 DEF PassGood

\* A review stays a review of the cold run that was filed.
LEMMA ReviewStays ==
  ASSUME NEW i, NEW f, NEW g, NEW v, FileGrows(f, g), ReviewGood(i, f, v)
  PROVE  ReviewGood(i, g, v)
BY DEF ReviewGood, FileGrows, Absent

\* An attempt that failed for a reason that may be excused stays so.
LEMMA OpenStays ==
  ASSUME NEW f, NEW g, FileGrows(f, g), Open(f)
  PROVE  Open(g) /\ g.record = f.record
BY DEF Open, FileGrows, Absent

\* An attempt that is excused stays excused.
LEMMA ExcusingStays ==
  ASSUME NEW f, NEW g, FileGrows(f, g), Excusing(f)
  PROVE  Excusing(g)
BY OpenStays DEF Excusing, FileGrows

\* A class stays a class of the failure that was filed.
LEMMA ClassStays ==
  ASSUME NEW i, NEW f, NEW g, NEW v, FileGrows(f, g), ClassGood(i, f, v)
  PROVE  ClassGood(i, g, v)
BY OpenStays DEF ClassGood

\* A failure stays what the runs of its attempt say.
LEMMA FailStays ==
  ASSUME NEW i, NEW f, NEW s, NEW g, NEW t, NEW v, Stays(f, s, g, t), FailGood(i, f, s, v)
  PROVE  FailGood(i, g, t, v)
<1>1. CASE f.cold = Absent /\ Transient(s) /\ v.runs = <<s[1].id>>
  <2>1. g.cold = Absent /\ Transient(t)
    BY <1>1 DEF Stays
  <2>2. t[1].id = s[1].id
    BY <1>1 DEF Stays, Extends, Transient
  <2> QED BY <1>1, <2>1, <2>2 DEF FailGood
<1> QED BY <1>1 DEF FailGood

\* So does whatever a command has found and not yet written.
LEMMA ValueStays ==
  ASSUME NEW i, NEW f, NEW s, NEW g, NEW t, NEW v, s \in Seq(RunRecords), t \in Seq(RunRecords),
         Stays(f, s, g, t), ValueGood(i, f, s, v)
  PROVE  ValueGood(i, g, t, v)
BY ColdStays, PassStays, ReviewStays, ClassStays, FailStays DEF ValueGood, Stays

\* The files of an attempt whose runs alone have changed.
LEMMA FileStays ==
  ASSUME NEW i, NEW f, NEW s, NEW t, s \in Seq(RunRecords), t \in Seq(RunRecords), FileGood(i, f, s),
         Stays(f, s, f, t), ~f.private => Len(t) = 0, f.cold = Absent => Len(t) <= 1
  PROVE  FileGood(i, f, t)
<1>1. f.cold \in {Absent, Half} \/ ColdGood(i, t, f.cold)
  BY ColdStays DEF FileGood, Stays
<1>2. f.record \in {Absent, Half} \/ PassGood(i, f, t, f.record) \/ FailGood(i, f, t, f.record)
  BY PassStays, FailStays DEF FileGood, Stays
<1> QED BY <1>1, <1>2 DEF FileGood

Kinds == {"cold", "review", "passed", "failed", "class"}
Vacant(f, k) ==
    /\ k = "cold" => f.cold = Absent
    /\ k = "review" => f.review = Absent
    /\ k = "class" => f.class = Absent
    /\ k \in {"passed", "failed"} => f.record = Absent

FiledAs(f, k, v, g) ==
    /\ FileShape(g) /\ g.workspace = f.workspace /\ g.private = f.private /\ g.checked = f.checked
    /\ g.cold = IF k = "cold" THEN v ELSE f.cold
    /\ g.review = IF k = "review" THEN v ELSE f.review
    /\ g.class = IF k = "class" THEN v ELSE f.class
    /\ g.record = IF k \in {"passed", "failed"} THEN v ELSE f.record

\* Filing a value changes the one file of its kind and no other.
LEMMA FiledFields ==
  ASSUME NEW f, FileShape(f), NEW k \in Kinds, NEW v
  PROVE  FiledAs(f, k, v, Filed(f, k, v))
<1>1. CASE k = "cold"
  BY <1>1 DEF Filed, FileShape, FiledAs
<1>2. CASE k = "review"
  BY <1>2 DEF Filed, FileShape, FiledAs
<1>3. CASE k = "class"
  BY <1>3 DEF Filed, FileShape, FiledAs
<1>4. CASE k \in {"passed", "failed"}
  BY <1>4 DEF Filed, FileShape, FiledAs
<1> QED BY <1>1, <1>2, <1>3, <1>4 DEF Kinds

\* What a command writes is of the kind its state names.
LEMMA StateOf ==
  ASSUME NEW i, NEW f, NEW s, NEW v, ValueGood(i, f, s, v)
  PROVE  /\ v.state \in Kinds /\ v # Absent
         /\ v.state = "cold"   => ColdGood(i, s, v)
         /\ v.state = "review" => ReviewGood(i, f, v)
         /\ v.state = "passed" => PassGood(i, f, s, v)
         /\ v.state = "failed" => FailGood(i, f, s, v)
         /\ v.state = "class"  => ClassGood(i, f, v)
<1>1. CASE ColdGood(i, s, v)
  <2>1. v.state = "cold"
    BY <1>1 DEF ColdGood
  <2> QED BY <1>1, <2>1 DEF Kinds, Absent
<1>2. CASE ReviewGood(i, f, v)
  BY <1>2 DEF ReviewGood, Kinds, Absent
<1>3. CASE PassGood(i, f, s, v)
  <2>1. v.state = "passed"
    BY <1>3 DEF PassGood
  <2> QED BY <1>3, <2>1 DEF Kinds, Absent
<1>4. CASE FailGood(i, f, s, v)
  <2>1. v.state = "failed"
    BY <1>4 DEF FailGood
  <2> QED BY <1>4, <2>1 DEF Kinds, Absent
<1>5. CASE ClassGood(i, f, v)
  BY <1>5 DEF ClassGood, Kinds, Absent
<1> QED BY <1>1, <1>2, <1>3, <1>4, <1>5 DEF ValueGood

\* An attempt has its two directories in the order in which they are made.
LEMMA Owned ==
  ASSUME NEW i, NEW f, NEW s, FileGood(i, f, s)
  PROVE  /\ f.private => f.workspace
         /\ f # NoAttempt <=> f.workspace
         /\ f.workspace \in BOOLEAN /\ f.private \in BOOLEAN
BY DEF FileGood, NoAttempt, FileShape

\* An attempt with an accepted cold run is not one that the provider refused.
LEMMA NotBoth ==
  ASSUME NEW i, NEW s, NEW v, s \in Seq(RunRecords), ColdGood(i, s, v)
  PROVE  ~Transient(s)
<1>1. PICK n \in 1 .. Len(s) : s[n] = v.run
  BY DEF ColdGood
<1>2. v.run.status = "succeeded"
  BY DEF ColdGood, Summary
<1> QED BY <1>1, <1>2 DEF Transient

\* A command files what it has found, or half of it.
LEMMA FiledGood ==
  ASSUME NEW i, NEW f, NEW s, NEW v, s \in Seq(RunRecords), FileGood(i, f, s), f.private,
         ValueGood(i, f, s, v), Vacant(f, v.state), NEW x, x = v \/ x = Half
  PROVE  LET g == Filed(f, v.state, x) IN FileGood(i, g, s) /\ Stays(f, s, g, s)
<1> DEFINE k == v.state
           g == Filed(f, k, x)
<1>1. k \in Kinds /\ FileShape(f) /\ x # Absent
  <2>1. Half # Absent
    BY DEF Half, Absent
  <2> QED BY <2>1, StateOf DEF FileGood
<1> HIDE DEF k
<1>2. /\ FileShape(g) /\ g.workspace = f.workspace /\ g.private = f.private
      /\ g.cold = IF k = "cold" THEN x ELSE f.cold
      /\ g.review = IF k = "review" THEN x ELSE f.review
      /\ g.class = IF k = "class" THEN x ELSE f.class
      /\ g.record = IF k \in {"passed", "failed"} THEN x ELSE f.record
  <2>1. FiledAs(f, k, x, g)
    BY <1>1, FiledFields
  <2> HIDE DEF g
  <2> QED BY <2>1 DEF FiledAs
<1> HIDE DEF g
<1>3. FileGrows(f, g)
  BY <1>2 DEF FileGrows, Vacant, k
<1>4. Extends(s, s)
  BY LenProperties DEF Extends
<1>5. Stays(f, s, g, s)
  <2>1. k = "cold" => ~Transient(s)
    BY NotBoth, StateOf DEF k
  <2> QED BY <1>2, <1>3, <1>4, <2>1 DEF Stays
<1>6. g.cold \in {Absent, Half} \/ ColdGood(i, s, g.cold)
  BY <1>2, StateOf DEF FileGood, k
<1>7. g.review \in {Absent, Half} \/ ReviewGood(i, g, g.review)
  BY <1>2, <1>3, StateOf, ReviewStays DEF FileGood, k
<1>8. g.record \in {Absent, Half} \/ PassGood(i, g, s, g.record) \/ FailGood(i, g, s, g.record)
  <2>1. CASE k \in {"passed", "failed"}
    BY <1>2, <1>3, <1>4, <1>5, <2>1, StateOf, PassStays, FailStays DEF k
  <2>2. CASE k \notin {"passed", "failed"}
    BY <1>2, <1>3, <1>4, <1>5, <2>2, PassStays, FailStays DEF FileGood
  <2> QED BY <2>1, <2>2
<1>9. g.class \in {Absent, Half} \/ ClassGood(i, g, g.class)
  BY <1>2, <1>3, StateOf, ClassStays DEF FileGood, k
<1>10. g.class # Absent => Open(g)
  <2>1. g.class # Absent => Open(f)
    BY <1>2, StateOf DEF FileGood, ClassGood, k
  <2> QED BY <1>3, <2>1, OpenStays
<1>11. g.cold = Absent => Len(s) <= 1
  BY <1>1, <1>2 DEF FileGood
<1>12. f.workspace
  BY Owned
<1> QED BY <1>2, <1>5, <1>6, <1>7, <1>8, <1>9, <1>10, <1>11, <1>12 DEF FileGood, g, k

\* What the validator says is kept beside the records.
LEMMA CheckedGood ==
  ASSUME NEW i, NEW f, NEW s, s \in Seq(RunRecords), FileGood(i, f, s), f.private,
         NEW k, k = [cold |-> k.cold, previous |-> k.previous, warm |-> k.warm]
  PROVE  LET g == [f EXCEPT !.checked = k] IN
         /\ FileGood(i, g, s) /\ Stays(f, s, g, s) /\ g.checked = k
         /\ g.cold = f.cold /\ g.review = f.review /\ g.record = f.record /\ g.class = f.class
         /\ g.workspace = f.workspace /\ g.private = f.private
<1> DEFINE g == [f EXCEPT !.checked = k]
<1>1. FileShape(f)
  BY DEF FileGood
<1>2. /\ FileShape(g) /\ g.checked = k
      /\ g.cold = f.cold /\ g.review = f.review /\ g.record = f.record /\ g.class = f.class
      /\ g.workspace = f.workspace /\ g.private = f.private
  <2> DEFINE Of(a, b, c, d, e, h, l) ==
               [workspace |-> a, private |-> b, cold |-> c, review |-> d, record |-> e, class |-> h, checked |-> l]
             With(r) == [r EXCEPT !.checked = k]
  <2>0. \A a, b, c, d, e, h, l : With(Of(a, b, c, d, e, h, l)) = Of(a, b, c, d, e, h, k)
    OBVIOUS
  <2> HIDE DEF With
  <2>a. PICK a, b, c, d, e, h, l : f = Of(a, b, c, d, e, h, l)
    BY <1>1 DEF FileShape
  <2> HIDE DEF Of
  <2>b. With(f) = Of(a, b, c, d, e, h, k)
    BY <2>0, <2>a
  <2>c. g = Of(a, b, c, d, e, h, k)
    BY <2>b DEF With
  <2> USE DEF Of
  <2>d. /\ f.workspace = a /\ f.private = b /\ f.cold = c /\ f.review = d /\ f.record = e /\ f.class = h
    BY <2>a
  <2> HIDE DEF g
  <2>2. g = [workspace |-> f.workspace, private |-> f.private, cold |-> f.cold, review |-> f.review,
             record |-> f.record, class |-> f.class, checked |-> k]
    BY <2>c, <2>d
  <2>1. /\ g.checked = k
        /\ g.cold = f.cold /\ g.review = f.review /\ g.record = f.record /\ g.class = f.class
        /\ g.workspace = f.workspace /\ g.private = f.private
    BY <2>2
  <2>3. g.workspace \in BOOLEAN /\ g.private \in BOOLEAN
    BY <1>1, <2>1 DEF FileShape
  <2> HIDE DEF g
  <2> QED BY <2>1, <2>2, <2>3 DEF FileShape
<1> HIDE DEF g
<1>3. FileGrows(f, g) /\ Extends(s, s)
  BY <1>2, LenProperties DEF FileGrows, Extends
<1>4. Stays(f, s, g, s)
  BY <1>2, <1>3 DEF Stays
<1>5. g.cold \in {Absent, Half} \/ ColdGood(i, s, g.cold)
  BY <1>2 DEF FileGood
<1>6. g.review \in {Absent, Half} \/ ReviewGood(i, g, g.review)
  BY <1>2, <1>3, ReviewStays DEF FileGood
<1>7. g.record \in {Absent, Half} \/ PassGood(i, g, s, g.record) \/ FailGood(i, g, s, g.record)
  BY <1>2, <1>3, <1>4, PassStays, FailStays DEF FileGood
<1>8. (g.class \in {Absent, Half} \/ ClassGood(i, g, g.class)) /\ (g.class # Absent => Open(g))
  BY <1>2, <1>3, ClassStays, OpenStays DEF FileGood
<1>9. g.cold = Absent => Len(s) <= 1
  BY <1>2 DEF FileGood
<1>10. f.workspace
  BY Owned
<1> QED BY <1>2, <1>4, <1>5, <1>6, <1>7, <1>8, <1>9, <1>10 DEF FileGood, g

\* An attempt as its directories are made: nothing is filed.
LEMMA FreshFields ==
  /\ \A w, p \in BOOLEAN : LET g == Fresh(w, p) IN
       /\ FileShape(g) /\ g.workspace = w /\ g.private = p
       /\ g.cold = Absent /\ g.review = Absent /\ g.record = Absent /\ g.class = Absent /\ g.checked = Unchecked
  /\ NoAttempt = Fresh(FALSE, FALSE)
  /\ [Fresh(FALSE, FALSE) EXCEPT !.workspace = TRUE] = Fresh(TRUE, FALSE)
  /\ [Fresh(TRUE, FALSE) EXCEPT !.private = TRUE] = Fresh(TRUE, TRUE)
<1>1. Unchecked = [cold |-> Unchecked.cold, previous |-> Unchecked.previous, warm |-> Unchecked.warm]
  BY DEF Unchecked
<1>2. ASSUME NEW w \in BOOLEAN, NEW p \in BOOLEAN
      PROVE  LET g == Fresh(w, p) IN
             /\ FileShape(g) /\ g.workspace = w /\ g.private = p
             /\ g.cold = Absent /\ g.review = Absent /\ g.record = Absent /\ g.class = Absent /\ g.checked = Unchecked
  <2> DEFINE g == Fresh(w, p)
  <2>1. /\ g.workspace = w /\ g.private = p
        /\ g.cold = Absent /\ g.review = Absent /\ g.record = Absent /\ g.class = Absent /\ g.checked = Unchecked
    BY DEF Fresh
  <2>2. g = [workspace |-> w, private |-> p, cold |-> Absent, review |-> Absent, record |-> Absent,
             class |-> Absent, checked |-> Unchecked]
    BY DEF Fresh
  <2>3. FileShape(g)
    <3> HIDE DEF g
    <3> QED BY <1>1, <2>1, <2>2 DEF FileShape
  <2> QED BY <2>1, <2>3
<1>3. NoAttempt = Fresh(FALSE, FALSE)
  BY DEF NoAttempt, Fresh, Unchecked
<1> DEFINE Workspace(f, v) == [f EXCEPT !.workspace = v]
           Private(f, v) == [f EXCEPT !.private = v]
<1>4. \A w, v, p : Workspace(Fresh(w, p), v) = Fresh(v, p) /\ Private(Fresh(w, p), v) = Fresh(w, v)
  BY DEF Fresh
<1> HIDE DEF Workspace, Private
<1>5. Workspace(Fresh(FALSE, FALSE), TRUE) = Fresh(TRUE, FALSE) /\ Private(Fresh(TRUE, FALSE), TRUE) = Fresh(TRUE, TRUE)
  BY <1>4, Zenon
<1>6. /\ [Fresh(FALSE, FALSE) EXCEPT !.workspace = TRUE] = Fresh(TRUE, FALSE)
      /\ [Fresh(TRUE, FALSE) EXCEPT !.private = TRUE] = Fresh(TRUE, TRUE)
  BY <1>5, Zenon DEF Workspace, Private
<1> QED BY <1>2, <1>3, <1>6, Zenon

\* The two directories are made.
LEMMA MadeGood ==
  ASSUME NEW i, NEW f, NEW s, s \in Seq(RunRecords), FileGood(i, f, s)
  PROVE  /\ ~f.workspace => LET g == [f EXCEPT !.workspace = TRUE] IN
              g = Entered /\ g.workspace /\ FileGood(i, g, s) /\ Stays(f, s, g, s)
         /\ f.workspace /\ ~f.private => LET g == [f EXCEPT !.private = TRUE] IN
              f = Entered /\ g = Fresh(TRUE, TRUE) /\ FileGood(i, g, s) /\ Stays(f, s, g, s)
<1> DEFINE e == Entered
           h == Fresh(TRUE, TRUE)
<1>1. Extends(s, s) /\ Len(s) \in Nat
  BY LenProperties DEF Extends
<1>2. FileShape(e) /\ e.workspace /\ ~e.private /\ e.cold = Absent /\ e.review = Absent /\ e.record = Absent /\ e.class = Absent
  BY FreshFields DEF Entered
<1>3. FileShape(h) /\ h.workspace /\ h.private /\ h.cold = Absent /\ h.review = Absent /\ h.record = Absent /\ h.class = Absent
  BY FreshFields
<1>4. ASSUME ~f.workspace
      PROVE  f = NoAttempt /\ [f EXCEPT !.workspace = TRUE] = e /\ Len(s) = 0
  <2>1. f = NoAttempt
    BY <1>4 DEF FileGood
  <2> QED BY <1>4, <2>1, FreshFields DEF FileGood, Entered
<1>5. ASSUME f.workspace, ~f.private
      PROVE  f = e /\ Len(s) = 0
  BY <1>5, FreshFields DEF FileGood, Entered
<1>6. ASSUME Len(s) = 0
      PROVE  FileGood(i, e, s) /\ FileGood(i, h, s)
  <2> HIDE DEF h
  <2>1. FileGood(i, h, s)
    BY <1>3, <1>6 DEF FileGood
  <2>2. e = Entered
    OBVIOUS
  <2> HIDE DEF e
  <2>3. FileGood(i, e, s)
    BY <1>2, <1>6, <2>2 DEF FileGood
  <2> QED BY <2>1, <2>3
<1>7. /\ FileGrows(e, h) /\ h.cold = Absent
      /\ FileGrows(NoAttempt, e)
  BY <1>2, <1>3, FreshFields DEF FileGrows, Entered
<1>8. Stays(e, s, h, s) /\ Stays(NoAttempt, s, e, s)
  BY <1>1, <1>2, <1>3, <1>7 DEF Stays
<1>9. ASSUME ~f.workspace
      PROVE  LET g == [f EXCEPT !.workspace = TRUE] IN
              g = Entered /\ g.workspace /\ FileGood(i, g, s) /\ Stays(f, s, g, s)
  BY <1>2, <1>4, <1>6, <1>8, <1>9
<1>10. ASSUME f.workspace, ~f.private
      PROVE  LET g == [f EXCEPT !.private = TRUE] IN
              f = Entered /\ g = Fresh(TRUE, TRUE) /\ FileGood(i, g, s) /\ Stays(f, s, g, s)
  <2>1. f = Entered /\ Len(s) = 0
    BY <1>5, <1>10
  <2>2. [f EXCEPT !.private = TRUE] = h
    BY <2>1, FreshFields, Zenon DEF Entered
  <2> QED BY <1>6, <1>8, <2>1, <2>2
<1> QED BY <1>9, <1>10

\* What a command relies on when another one works beside it.
Undisturbed(x, f, s, t) ==
    /\ x.pc = "private" \/ (x.pc \in AtWork /\ x.name = "execute" /\ (f.cold = Absent \/ x.pc = "run")) => Len(t) = Len(s)
    /\ x.pc \in {"running", "judge"} => ((t[x.run].status = "running") <=> (s[x.run].status = "running"))

\* What a command knows stays true while others write to its attempt.
LEMMA CommandStays ==
  ASSUME NEW x, NEW f, NEW s, NEW g, NEW t, NEW w, s \in Seq(RunRecords), t \in Seq(RunRecords),
         CommandGood(x, f, s, w), x.pc # "failing" => Stays(f, s, g, t) /\ Undisturbed(x, f, s, t)
  PROVE  CommandGood(x, g, t, w)
<1>1. CASE x.pc = "failing"
  BY <1>1 DEF CommandGood, AtWork
<1>2. CASE x.pc # "failing"
  <2>1. FileGrows(f, g) /\ Extends(s, t) /\ Stays(f, s, g, t)
    BY <1>2 DEF Stays
  <2>2. /\ f.workspace => g.workspace
        /\ f.private => g.private
        /\ g.cold = Absent => f.cold = Absent
        /\ Len(s) <= Len(t) /\ Len(s) \in Nat /\ Len(t) \in Nat
    BY <2>1, LenProperties DEF FileGrows, Extends
  <2>3. Reviewed(f, w) => Reviewed(g, w) /\ g.cold = f.cold
    <3> HAVE Reviewed(f, w)
    <3>1. f.cold # Absent /\ f.review # Absent
      BY DEF Reviewed, Absent
    <3> QED BY <2>1, <3>1 DEF FileGrows, Reviewed
  <2>4. x.pc = "write" => ValueGood(x.attempt, g, t, x.value)
    BY <2>1, ValueStays DEF CommandGood
  <2>5. x.pc = "private" => g.workspace /\ Len(t) = 0
    BY <1>2, <2>2 DEF CommandGood, Undisturbed
  <2>6. x.pc \in AtWork /\ x.name = "execute" /\ g.cold = Absent => Len(t) = x.run
    BY <1>2, <2>2 DEF CommandGood, Undisturbed
  <2>7. x.pc = "run" /\ x.name = "execute" => Len(t) = 0
    BY <1>2, <2>2 DEF CommandGood, Undisturbed, AtWork
  <2>8. x.pc \in {"running", "judge"} =>
         /\ x.run \in 1 .. Len(t)
         /\ (x.pc = "running") <=> (t[x.run].status = "running")
         /\ x.name = "rerun" => g.cold.run.id[2] < x.run
    <3> HAVE x.pc \in {"running", "judge"}
    <3>1. x.run \in 1 .. Len(s) /\ ((x.pc = "running") <=> (s[x.run].status = "running"))
      BY DEF CommandGood
    <3>2. (t[x.run].status = "running") <=> (s[x.run].status = "running")
      BY <1>2 DEF Undisturbed
    <3>3. x.name = "rerun" => g.cold = f.cold /\ f.cold.run.id[2] < x.run
      BY <2>3 DEF CommandGood, AtWork
    <3>4. x.run \in 1 .. Len(t)
      BY <2>2, <3>1
    <3>5. (x.pc = "running") <=> (t[x.run].status = "running")
      BY <3>1, <3>2
    <3> QED BY <3>3, <3>4, <3>5
  <2>9. x.pc \in AtWork /\ x.name = "rerun" => Reviewed(g, w)
    BY <2>3 DEF CommandGood
  <2>10. x.pc \in AtWork \cup {"write"} => g.private
    BY <2>2 DEF CommandGood
  <2> QED BY <1>2, <2>4, <2>5, <2>6, <2>7, <2>8, <2>9, <2>10 DEF CommandGood
<1> QED BY <1>1, <1>2

\* Scrubbing disturbs nobody.
LEMMA ScrubStays ==
  ASSUME NEW i, NEW f, NEW s, NEW t, s \in Seq(RunRecords), t \in Seq(RunRecords), FileGood(i, f, s), Scrubs(s, t)
  PROVE  /\ Stays(f, s, f, t) /\ FileGood(i, f, t)
         /\ \A x, w : CommandGood(x, f, s, w) => Undisturbed(x, f, s, t)
<1>1. Len(s) \in Nat /\ Len(t) = Len(s)
  BY LenProperties DEF Scrubs
<1>2. Transient(s) => Transient(t)
  <2> HAVE Transient(s)
  <2>1. 1 \in 1 .. Len(s) /\ s[1].status # "running" /\ ~s[1].leak
    BY DEF Transient
  <2>2. t[1] = s[1]
    BY <2>1 DEF Scrubs, Extends
  <2> QED BY <1>1, <2>2 DEF Transient
<1>3. Stays(f, s, f, t)
  BY <1>2 DEF Stays, FileGrows, Scrubs
<1>4. FileGood(i, f, t)
  BY <1>1, <1>3, FileStays DEF FileGood
<1>5. ASSUME NEW x, NEW w, CommandGood(x, f, s, w)
      PROVE  Undisturbed(x, f, s, t)
  <2>1. x.pc \in {"running", "judge"} => x.run \in 1 .. Len(s)
    BY <1>5 DEF CommandGood
  <2>2. x.pc \in {"running", "judge"} => ((t[x.run].status = "running") <=> (s[x.run].status = "running"))
    BY <2>1 DEF Scrubs
  <2> QED BY <1>1, <2>2 DEF Undisturbed
<1> QED BY <1>3, <1>4, <1>5

\* A step of command c, which goes on as y or is over.
LEMMA BaseStep ==
  ASSUME BaseInv, NEW c \in Commands, NEW ACTION y,
         cmd' = [cmd EXCEPT ![c] = y], plans' = plans, sealed' = sealed, RunsInv', WorldInv',
         files' = [i \in Attempts |-> files'[i]],
         \A i \in Attempts : Stays(files[i], runs[i], files'[i], runs'[i]) /\ FileGood(i, files'[i], runs'[i]),
         \A i \in Attempts : files'[i].workspace /\ ~files[i].workspace =>
            \A j \in Attempts : j < i => files[j].workspace /\ Excusing(files[j]),
         \A d \in Commands \ {c} : cmd[d] # Idle /\ cmd[d].pc # "failing" =>
            Undisturbed(cmd[d], files[cmd[d].attempt], runs[cmd[d].attempt], runs'[cmd[d].attempt]),
         y # Idle => CommandGood(y, files'[y.attempt], runs'[y.attempt], plans[y.plan]) /\ Earlier(y, files'),
         y # Idle => \A d \in Commands \ {c} : cmd[d] # Idle => Apart(y, cmd[d])
  PROVE  BaseInv'
<1>1. \A i \in Attempts : FileGrows(files[i], files'[i])
  BY DEF Stays
<1>2. \A i \in Attempts : runs[i] \in Seq(RunRecords) /\ runs'[i] \in Seq(RunRecords)
  BY DEF BaseInv, RunsInv, SeqGood
<1>3. FilesInv'
  <2>1. ASSUME NEW i \in Attempts, NEW j \in Attempts, i < j, files'[j].workspace
        PROVE  files'[i].workspace /\ Excusing(files'[i])
    <3>1. files[i].workspace /\ Excusing(files[i])
      BY <2>1 DEF BaseInv, FilesInv
    <3> QED BY <1>1, <3>1, ExcusingStays DEF FileGrows
  <2> QED BY <2>1 DEF FilesInv
<1>4. \A d \in Commands : cmd'[d] = IF d = c THEN y ELSE cmd[d]
  BY DEF BaseInv, CommandsInv
<1>5. cmd' = [d \in Commands |-> cmd'[d]]
  BY DEF BaseInv, CommandsInv
<1>6. ASSUME NEW d \in Commands, cmd'[d] # Idle
      PROVE  Placed(cmd[d])'
  <2>1. CASE d = c
    BY <1>4, <1>6, <2>1 DEF Placed
  <2>2. CASE d # c
    <3> DEFINE x == cmd[d]
               a == x.attempt
    <3>1. cmd'[d] = x /\ x # Idle
      BY <1>4, <1>6, <2>2
    <3>2. CommandGood(x, files[a], runs[a], plans[x.plan]) /\ Earlier(x, files)
      BY <3>1 DEF BaseInv, CommandsInv, Placed
    <3>3. x.pc # "failing" => a \in Attempts
      BY <3>2 DEF CommandGood
    <3>4. x.pc # "failing" => Stays(files[a], runs[a], files'[a], runs'[a]) /\ Undisturbed(x, files[a], runs[a], runs'[a])
      BY <2>2, <3>1, <3>3
    <3>5. CommandGood(x, files'[a], runs'[a], plans[x.plan])
      <4>1. CASE x.pc = "failing"
        BY <3>2, <4>1 DEF CommandGood, AtWork
      <4>2. CASE x.pc # "failing"
        BY <1>2, <3>2, <3>3, <3>4, <4>2, CommandStays
      <4> QED BY <4>1, <4>2
    <3>6. Earlier(x, files')
      BY <1>1, <3>2, ExcusingStays DEF Earlier, FileGrows
    <3> HIDE DEF x
    <3> QED BY <3>1, <3>5, <3>6 DEF Placed
  <2> QED BY <2>1, <2>2
<1>7. ASSUME NEW d \in Commands, NEW e \in Commands, d # e, cmd'[d] # Idle, cmd'[e] # Idle
      PROVE  Apart(cmd'[d], cmd'[e])
  <2>1. CASE d = c
    BY <1>4, <1>7, <2>1
  <2>2. CASE e = c
    <3>1. Apart(y, cmd[d]) /\ cmd'[d] = cmd[d] /\ cmd'[e] = y
      BY <1>4, <1>7, <2>2
    <3> QED BY <3>1 DEF Apart
  <2>3. CASE d # c /\ e # c
    BY <1>4, <1>7, <2>3 DEF BaseInv, CommandsInv
  <2> QED BY <2>1, <2>2, <2>3
<1>8. CommandsInv'
  <2>1. ASSUME NEW d \in Commands, cmd'[d] # Idle
        PROVE  Placed(cmd[d])'
    BY <1>6, <2>1
  <2> QED BY <1>5, <1>7, <2>1 DEF CommandsInv
<1>9. SealInv'
  <2>1. CASE sealed = 0
    BY <2>1 DEF SealInv
  <2>2. CASE sealed \in Attempts /\ files[sealed].record.state = "passed"
    <3>1. files[sealed].record # Absent
      BY <2>2 DEF Absent
    <3> QED BY <1>1, <2>2, <3>1 DEF SealInv, FileGrows
  <2> QED BY <2>1, <2>2 DEF BaseInv, SealInv
<1> QED BY <1>3, <1>8, <1>9 DEF BaseInv

-----------------------------------------------------------------------------
(* The steps that change neither files nor runs                             *)

\* The forms of a command as it goes on.
Like(y, x) == y.name = x.name /\ y.plan = x.plan /\ y.attempt = x.attempt /\ y.run = x.run

\* A command that fails keeps its name, its plan, its attempt and its run.
LEMMA FailsShape ==
  ASSUME NEW x, Shaped(x), NEW reason
  PROVE  LET y == FailsWith(x, reason) IN
         /\ Shaped(y) /\ Like(y, x) /\ y.pc = "failing" /\ (y.reason = reason \/ y.reason = "other")
<1> DEFINE e == IF reason \in Refusals \cup {"run.failed", "review.failed", "independent_validation.launch_failed"}
                THEN reason ELSE "other"
           Pc(r) == [r EXCEPT !.pc = "failing"]
           Value(r) == [r EXCEPT !.value = Absent]
           Reason(r) == [r EXCEPT !.reason = e]
           y == FailsWith(x, reason)
<1>1. PICK a, b, c, d, h, k, n :
        x = [pc |-> a, name |-> b, plan |-> c, attempt |-> d, reason |-> h, value |-> k, run |-> n]
  BY DEF Shaped
<1>2. y = [pc |-> "failing", name |-> b, plan |-> c, attempt |-> d, reason |-> e, value |-> Absent, run |-> n]
  <2>1. y = Reason(Value(Pc(x)))
    BY DEF FailsWith
  <2> HIDE DEF e, y
  <2>2. Pc(x) = [pc |-> "failing", name |-> b, plan |-> c, attempt |-> d, reason |-> h, value |-> k, run |-> n]
    BY <1>1
  <2> HIDE DEF Pc
  <2>3. Value(Pc(x)) = [pc |-> "failing", name |-> b, plan |-> c, attempt |-> d, reason |-> h, value |-> Absent, run |-> n]
    BY <2>2
  <2> HIDE DEF Value
  <2> QED BY <2>1, <2>3
<1>3. e = reason \/ e = "other"
  OBVIOUS
<1> HIDE DEF y, e
<1> QED BY <1>1, <1>2, <1>3 DEF Shaped, Like, y

\* So does one that goes on to write what it has found.
LEMMA WritesShape ==
  ASSUME NEW x, Shaped(x), NEW v
  PROVE  LET y == Writes(x, v) IN Shaped(y) /\ Like(y, x) /\ y.pc = "write" /\ y.value = v /\ y.reason = x.reason
<1> DEFINE y == Writes(x, v)
<1>1. PICK a, b, c, d, h, k, n :
        x = [pc |-> a, name |-> b, plan |-> c, attempt |-> d, reason |-> h, value |-> k, run |-> n]
  BY DEF Shaped
<1>2. y = [pc |-> "write", name |-> b, plan |-> c, attempt |-> d, reason |-> h, value |-> v, run |-> n]
  <2> DEFINE Pc(r) == [r EXCEPT !.pc = "write"]
             Value(r) == [r EXCEPT !.value = v]
  <2>1. y = Value(Pc(x))
    BY DEF Writes
  <2> HIDE DEF y
  <2>2. Pc(x) = [pc |-> "write", name |-> b, plan |-> c, attempt |-> d, reason |-> h, value |-> k, run |-> n]
    BY <1>1
  <2> HIDE DEF Pc
  <2> QED BY <2>1, <2>2
<1> HIDE DEF y
<1> QED BY <1>1, <1>2 DEF Shaped, Like, y

\* A command that fails claims nothing any more.
LEMMA FailingGood ==
  ASSUME NEW x, Shaped(x), x.name \in {"execute", "review", "rerun", "classify"}, x.plan \in PlanPaths, x.run \in Nat,
         NEW w, w # Absent, NEW reason, reason = "run.failed" => x.name \in {"execute", "rerun"},
         x.run # 0 => reason \notin Refusals
  PROVE  LET y == FailsWith(x, reason) IN
         /\ y # Idle /\ (\A f, s : CommandGood(y, f, s, w)) /\ (\A fs : Earlier(y, fs)) /\ (\A z : Apart(y, z))
<1> DEFINE y == FailsWith(x, reason)
<1>1. Shaped(y) /\ Like(y, x) /\ y.pc = "failing" /\ (y.reason = reason \/ y.reason = "other")
  BY FailsShape
<1> HIDE DEF y
<1>2. y # Idle
  BY <1>1 DEF Idle
<1>3. \A f, s : CommandGood(y, f, s, w)
  BY <1>1 DEF CommandGood, Like, Pcs, AtWork, Refusals
<1>4. (\A fs : Earlier(y, fs)) /\ (\A z : Apart(y, z))
  BY <1>1 DEF Earlier, Apart, Making, AtWork
<1> QED BY <1>2, <1>3, <1>4 DEF y

\* The summary of a run gives no reason that only the entry of a command has.
LEMMA Summaries ==
  ASSUME NEW r, NEW w, NEW warm
  PROVE  /\ Summary(r, w, warm) \notin Refusals
         /\ Summary(r, w, warm) # "independent_validation.launch_failed"
<1>1. Summary(r, w, warm) \in
        {"run.failed", "run.contract_invalid", "cache_rerun.remote_request_detected", "cold_run.provider_not_contacted",
         "cache_rerun.cache_not_reused", "cold_run.cache_not_empty", "cold_run.no_publish_ready_short_video",
         "run.environment_binding_invalid", ""}
  BY DEF Summary
<1> QED BY <1>1 DEF Refusals

\* A step that leaves the files alone and scrubs runs at most.
Quiet ==
    /\ files' = files /\ runs' = [i \in Attempts |-> runs'[i]]
    /\ \A i \in Attempts : SeqGood(i, runs'[i]) /\ Scrubs(runs[i], runs'[i])

\* A step that at most scrubs runs disturbs no command.
LEMMA QuietRuns ==
  ASSUME RunsInv, files' = files,
         \/ runs' = runs
         \/ \E a \in Attempts : runs' = [runs EXCEPT ![a] = Cleaned(a)]
         \/ runs' = [i \in Attempts |-> Cleaned(i)]
  PROVE  Quiet
<1>1. \A i \in Attempts : SeqGood(i, runs[i]) /\ Scrubs(runs[i], runs[i])
  BY LenProperties DEF RunsInv, SeqGood, Scrubs, Extends
<1>2. \A i \in Attempts : SeqGood(i, Cleaned(i)) /\ Scrubs(runs[i], Cleaned(i))
  BY <1>1, CleanedFacts
<1>3. runs' = [i \in Attempts |-> runs'[i]]
  BY DEF RunsInv
<1>4. \A i \in Attempts : runs'[i] = runs[i] \/ runs'[i] = Cleaned(i)
  BY DEF RunsInv
<1> QED BY <1>1, <1>2, <1>3, <1>4 DEF Quiet

\* A step of command c that leaves the files alone and at most scrubs runs.
LEMMA QuietStep ==
  ASSUME BaseInv, NEW c \in Commands, NEW ACTION y,
         cmd' = [cmd EXCEPT ![c] = y], Quiet, plans' = plans, sealed' = sealed, WorldInv',
         UNCHANGED <<deliveryRun, previousRun>>,
         y # Idle => CommandGood(y, files[y.attempt], runs'[y.attempt], plans[y.plan]) /\ Earlier(y, files),
         y # Idle => \A d \in Commands \ {c} : cmd[d] # Idle => Apart(y, cmd[d])
  PROVE  BaseInv'
<1>1. \A i \in Attempts : /\ runs[i] \in Seq(RunRecords) /\ runs'[i] \in Seq(RunRecords) /\ Scrubs(runs[i], runs'[i])
                          /\ FileGood(i, files[i], runs[i])
  BY DEF BaseInv, RunsInv, FilesInv, Quiet, SeqGood
<1>2. \A i \in Attempts : Stays(files[i], runs[i], files'[i], runs'[i]) /\ FileGood(i, files'[i], runs'[i])
  BY <1>1, ScrubStays DEF Quiet
<1>3. ASSUME NEW d \in Commands \ {c}, cmd[d] # Idle, cmd[d].pc # "failing"
      PROVE  Undisturbed(cmd[d], files[cmd[d].attempt], runs[cmd[d].attempt], runs'[cmd[d].attempt])
  <2> DEFINE x == cmd[d]
             a == x.attempt
  <2>1. CommandGood(x, files[a], runs[a], plans[x.plan])
    BY <1>3 DEF BaseInv, CommandsInv, Placed
  <2>2. a \in Attempts
    BY <1>3, <2>1 DEF CommandGood
  <2> HIDE DEF x
  <2>3. Undisturbed(x, files[a], runs[a], runs'[a])
    BY <1>1, <2>1, <2>2, ScrubStays
  <2> QED BY <2>3 DEF x
<1>4. RunsInv'
  BY DEF BaseInv, RunsInv, Quiet, Scrubs
<1>5. files' = [i \in Attempts |-> files'[i]] /\ files' = files
  BY DEF BaseInv, FilesInv, Quiet
<1>6. \A i \in Attempts : files'[i].workspace /\ ~files[i].workspace =>
         \A j \in Attempts : j < i => files[j].workspace /\ Excusing(files[j])
  BY <1>5
<1>7. y # Idle => CommandGood(y, files'[y.attempt], runs'[y.attempt], plans[y.plan]) /\ Earlier(y, files')
  BY <1>5
<1> QED BY <1>2, <1>3, <1>4, <1>5, <1>6, <1>7, BaseStep

-----------------------------------------------------------------------------
(* The directory, and what no command does                                  *)

\* The attempts are numbered without a gap.
LEMMA LatestIs ==
  ASSUME BaseInv
  PROVE  /\ Latest \in 0 .. MaxTries
         /\ \A i \in Attempts : (Exists(i) <=> i <= Latest) /\ (files[i].workspace <=> i <= Latest)
<1> DEFINE D == {i \in Attempts : Exists(i)}
<1>1. \A i \in Attempts : Exists(i) <=> files[i].workspace
  BY Owned DEF BaseInv, FilesInv, Exists
<1>2. MaxTries \in Nat /\ IsFiniteSet(Attempts) /\ Cardinality(Attempts) = MaxTries
  BY GateAssumption, FS_Interval DEF Attempts
<1>3. IsFiniteSet(D) /\ Cardinality(D) \in Nat /\ Cardinality(D) <= MaxTries
  BY <1>2, FS_Subset, FS_CardinalityType
<1>4. ASSUME NEW i \in D
      PROVE  i <= Cardinality(D)
  <2>1. 1 .. i \subseteq D
    BY <1>1, <1>2 DEF BaseInv, FilesInv, Attempts
  <2>2. i \in Nat /\ Cardinality(1 .. i) = i
    BY <1>2, FS_Interval DEF Attempts
  <2>3. Cardinality(1 .. i) <= Cardinality(D)
    BY <1>3, <2>1, FS_Subset
  <2> QED BY <2>2, <2>3
<1>5. ASSUME NEW i \in Attempts, i \notin D
      PROVE  ~(i <= Cardinality(D))
  <2>1. D \subseteq 1 .. (i - 1)
    BY <1>1, <1>2, <1>5 DEF BaseInv, FilesInv, Attempts
  <2>2. IsFiniteSet(1 .. (i - 1)) /\ Cardinality(1 .. (i - 1)) = i - 1
    BY <1>2, FS_Interval DEF Attempts
  <2>3. Cardinality(D) <= i - 1
    BY <2>1, <2>2, FS_Subset
  <2> QED BY <1>2, <1>3, <2>3 DEF Attempts
<1>6. Latest = Cardinality(D)
  BY DEF Latest
<1> QED BY <1>1, <1>2, <1>3, <1>4, <1>5, <1>6

\* What reading the directory back tells a command.
LEMMA ReadBack ==
  ASSUME BaseInv, NEW p \in PlanPaths, StateReads(p), NEW i \in Attempts, i <= Latest
  PROVE  /\ AttemptReads(i, p) /\ files[i].workspace /\ files[i].private
         /\ i < Latest => Excusing(files[i])
         /\ files[i].cold # Absent => files[i].cold.state = "cold" /\ files[i].cold.plan = plans[p]
         /\ files[i].review # Absent => files[i].review.state = "review" /\ files[i].cold # Absent
         /\ files[i].record.state = "failed" => files[i].record.plan = plans[p]
<1>1. Latest \in Nat /\ i \in 1 .. Latest
  BY LatestIs, GateAssumption DEF Attempts
<1>2. AttemptReads(i, p)
  BY <1>1 DEF StateReads
<1>3. files[i].workspace /\ files[i].private
  BY <1>2 DEF AttemptReads
<1>4. i < Latest => Excusing(files[i])
  <2> HAVE i < Latest
  <2>1. Latest \in Attempts
    BY LatestIs, <1>1 DEF Attempts
  <2>2. files[Latest].workspace
    BY <2>1, LatestIs
  <2> QED BY <2>1, <2>2 DEF BaseInv, FilesInv
<1>5. files[i].record.state = "failed" => files[i].record.plan = plans[p]
  <2> HAVE files[i].record.state = "failed"
  <2>1. files[i].record # Absent
    BY DEF Absent
  <2> QED BY <1>2, <2>1 DEF AttemptReads, PassReads, FailReads
<1> QED BY <1>2, <1>3, <1>4, <1>5 DEF AttemptReads, ColdReads, ReviewReads

\* The host changes under the gate: what the gate has written stands.
LEMMA WorldStep ==
  ASSUME BaseInv, WorldChanges
  PROVE  BaseInv'
<1>1. WorldInv'
  <2>1. left.changes \in 0 .. MaxLeft /\ left.changes > 0 /\ MaxLeft \in Nat
    BY GateAssumption DEF BaseInv, WorldInv, WorldChanges
  <2>2. left.changes - 1 \in 0 .. MaxLeft
    BY <2>1
  <2>3. left' = [changes |-> left.changes - 1, kills |-> left.kills, overlaps |-> left.overlaps]
    BY DEF BaseInv, WorldInv, WorldChanges
  <2>4. left' \in [changes : 0 .. MaxLeft, kills : 0 .. MaxLeft, overlaps : 0 .. MaxLeft]
    BY <2>2, <2>3 DEF BaseInv, WorldInv
  <2> QED BY <2>4 DEF BaseInv, WorldInv, WorldChanges
<1>2. RunsInv' /\ FilesInv' /\ SealInv'
  BY DEF BaseInv, WorldChanges, RunsInv, FilesInv, SealInv
<1>3. CommandsInv'
  BY DEF BaseInv, WorldChanges, CommandsInv, Placed
<1> QED BY <1>1, <1>2, <1>3 DEF BaseInv

\* A plan is written where there was none.
LEMMA PrepareStep ==
  ASSUME BaseInv, NEW p \in PlanPaths, PreparePlan(p)
  PROVE  BaseInv' /\ (\A q \in PlanPaths : plans[q] # Absent => plans'[q] = plans[q])
<1>1. \A q \in PlanPaths : plans'[q] = IF q = p THEN [state |-> "plan", facts |-> world] ELSE plans[q]
  BY DEF PreparePlan, BaseInv, WorldInv
<1>2. \A q \in PlanPaths : plans[q] # Absent => plans'[q] = plans[q]
  BY <1>1 DEF PreparePlan
<1>3. WorldInv'
  <2>1. \A q \in PlanPaths : PlanGood(plans'[q])
    BY <1>1 DEF BaseInv, WorldInv, PlanGood
  <2>2. plans' = [q \in PlanPaths |-> plans'[q]]
    BY DEF PreparePlan, BaseInv, WorldInv
  <2> QED BY <2>1, <2>2 DEF PreparePlan, BaseInv, WorldInv
<1>4. RunsInv' /\ FilesInv' /\ SealInv'
  BY DEF BaseInv, PreparePlan, RunsInv, FilesInv, SealInv
<1>5. CommandsInv'
  <2>1. ASSUME NEW d \in Commands, cmd[d] # Idle
        PROVE  plans'[cmd[d].plan] = plans[cmd[d].plan]
    BY <1>2, <2>1 DEF BaseInv, CommandsInv, Placed, CommandGood
  <2> QED BY <2>1 DEF BaseInv, PreparePlan, CommandsInv, Placed
<1> QED BY <1>2, <1>3, <1>4, <1>5 DEF BaseInv

\* A seal names an attempt that passed.
LEMMA SealStep ==
  ASSUME BaseInv, NEW p \in PlanPaths, NEW i \in Attempts, Seal(p, i)
  PROVE  BaseInv'
<1>1. files[i].record.state = "passed"
  BY DEF Seal, Sealable, PassBound
<1>2. SealInv'
  BY <1>1 DEF Seal, SealInv
<1>3. RunsInv' /\ FilesInv' /\ WorldInv'
  BY DEF BaseInv, Seal, RunsInv, FilesInv, WorldInv
<1>4. CommandsInv'
  BY DEF BaseInv, Seal, CommandsInv, Placed
<1> QED BY <1>2, <1>3, <1>4 DEF BaseInv

\* A command that is free and starts; it may meet another.
LEMMA FreeStep ==
  ASSUME BaseInv, NEW c \in Commands, Free(c), UNCHANGED <<world, plans, torn, cut, sealed, unfiled>>
  PROVE  WorldInv' /\ cmd[c] = Idle
<1> DEFINE Lefts == [changes : 0 .. MaxLeft, kills : 0 .. MaxLeft, overlaps : 0 .. MaxLeft]
<1>0. left \in Lefts /\ met \in BOOLEAN /\ MaxLeft \in Nat
  BY GateAssumption DEF BaseInv, WorldInv
<1>1. left' \in Lefts /\ met' \in BOOLEAN
  <2>1. CASE \A d \in Commands : cmd[d] = Idle
    BY <1>0, <2>1 DEF Free
  <2>2. CASE ~(\A d \in Commands : cmd[d] = Idle)
    <3>1. left.overlaps > 0 /\ left' = [left EXCEPT !.overlaps = @ - 1] /\ met' = TRUE
      BY <2>2, Zenon DEF Free
    <3>2. left.overlaps - 1 \in 0 .. MaxLeft
      BY <1>0, <3>1
    <3>3. left' = [changes |-> left.changes, kills |-> left.kills, overlaps |-> left.overlaps - 1]
      BY <1>0, <3>1
    <3> QED BY <1>0, <3>1, <3>2, <3>3
  <2> QED BY <2>1, <2>2
<1> QED BY <1>1 DEF Free, BaseInv, WorldInv

\* The step of a command that is refused.
LEMMA RefusedStep ==
  ASSUME BaseInv, NEW c \in Commands, NEW x, NEW reason, Goes(c, FailsWith(x, reason)), Quiet, WorldInv',
         UNCHANGED <<plans, sealed, deliveryRun, previousRun>>,
         Shaped(x), x.name \in {"execute", "review", "rerun", "classify"}, x.plan \in PlanPaths, x.run \in Nat,
         plans[x.plan] # Absent, reason = "run.failed" => x.name \in {"execute", "rerun"},
         x.run # 0 => reason \notin Refusals
  PROVE  BaseInv'
<1> DEFINE y == FailsWith(x, reason)
<1>1. y # Idle /\ (\A f, s : CommandGood(y, f, s, plans[x.plan])) /\ (\A fs : Earlier(y, fs)) /\ (\A z : Apart(y, z))
  BY FailingGood
<1>2. y.plan = x.plan
  BY FailsShape DEF Like
<1>3. cmd' = [cmd EXCEPT ![c] = y]
  BY DEF Goes
<1> HIDE DEF y
<1>4. CommandGood(y, files[y.attempt], runs'[y.attempt], plans[y.plan]) /\ Earlier(y, files)
  BY <1>1, <1>2
<1> QED BY <1>1, <1>3, <1>4, QuietStep

-----------------------------------------------------------------------------
(* The commands that begin                                                  *)

\* The commands that begin.
Starting(p) ==
    StateReads(p) /\ (Latest # 0 => files[Latest].record # Absent /\ files[Latest].class # Absent)

\* What is refused on entry, and what a command that is not refused has seen.
LEMMA Refusing ==
  ASSUME NEW p
  PROVE  /\ NewAttemptRefused(p) # "run.failed" /\ PendingRefused(p) # "run.failed"
         /\ NewAttemptRefused(p) = "" => Starting(p)
         /\ PendingRefused(p) = "" => StateReads(p) /\ Pending # {}
BY DEF NewAttemptRefused, PendingRefused, Starting

\* An execution that starts, or is refused.
LEMMA ExecuteStep ==
  ASSUME BaseInv, NEW c \in Commands, NEW p \in PlanPaths, NEW k, k # "run.failed", Execute(c, p, k)
  PROVE  BaseInv'
<1> DEFINE x == Command("execute", "workspace", p, Latest + 1)
<1>1. Free(c) /\ plans[p] # Absent
      /\ UNCHANGED <<world, plans, torn, cut, sealed, unfiled, files, runs, deliveryRun, previousRun>>
  BY DEF Execute, Disk, Space
<1>2. WorldInv' /\ cmd[c] = Idle
  BY <1>1, FreeStep
<1>3. Quiet
  BY <1>1, QuietRuns DEF BaseInv
<1>4. Shaped(x) /\ x.name = "execute" /\ x.pc = "workspace" /\ x.plan = p /\ x.attempt = Latest + 1 /\ x.run = 0
  BY DEF Command, Shaped
<1>5. CASE \E reason : reason # "run.failed" /\ Goes(c, FailsWith(x, reason))
  <2>1. PICK reason : reason # "run.failed" /\ Goes(c, FailsWith(x, reason))
    BY <1>5
  <2> HIDE DEF x
  <2> QED BY <1>1, <1>2, <1>3, <1>4, <2>1, RefusedStep
<1>6. CASE Holds(p) /\ Starting(p) /\ Latest < MaxTries /\ Goes(c, x)
  <2>1. StateReads(p) /\ plans[p].state = "plan"
    BY <1>6 DEF Holds, Starting
  <2>2. MaxTries \in Nat /\ Latest \in 0 .. MaxTries
    BY LatestIs, GateAssumption
  <2>3. Latest + 1 \in Attempts
    BY <1>6, <2>2 DEF Attempts
  <2>4. ASSUME NEW i \in Attempts, i < Latest + 1
        PROVE  files[i].workspace /\ Excusing(files[i])
    <3>1. i \in Nat /\ i <= Latest
      BY <2>2, <2>4 DEF Attempts
    <3>2. files[i].workspace /\ (i < Latest => Excusing(files[i]))
      BY <2>1, <3>1, ReadBack
    <3>3. CASE i = Latest
      <4>1. Latest # 0
        BY <3>3 DEF Attempts
      <4>2. files[i].class # Absent
        BY <1>6, <3>3, <4>1 DEF Starting
      <4>3. Excusing(files[i])
        BY <4>2 DEF BaseInv, FilesInv, FileGood, Excusing
      <4> QED BY <3>2, <4>3
    <3> QED BY <2>2, <3>1, <3>2, <3>3
  <2> HIDE DEF x
  <2>5. x # Idle /\ Earlier(x, files)
    <3>1. x # Idle
      BY <1>4 DEF Idle
    <3> QED BY <1>4, <2>4, <3>1 DEF Earlier
  <2>6. CommandGood(x, files[x.attempt], runs'[x.attempt], plans[x.plan])
    BY <1>1, <1>4, <2>1, <2>3 DEF CommandGood, Pcs, AtWork
  <2>7. \A d \in Commands : Apart(x, cmd[d])
    BY <1>4 DEF Apart, Making, AtWork
  <2>8. cmd' = [cmd EXCEPT ![c] = x]
    BY <1>6 DEF Goes
  <2> QED BY <1>1, <1>2, <1>3, <2>5, <2>6, <2>7, <2>8, QuietStep
<1>7. \/ \E reason : reason # "run.failed" /\ Goes(c, FailsWith(x, reason))
      \/ Holds(p) /\ Starting(p) /\ Latest < MaxTries /\ Goes(c, x)
  <2>1. CASE k # ""
    <3>1. Goes(c, FailsWith(x, k))
      BY <2>1 DEF Execute
    <3> HIDE DEF x
    <3> QED BY <3>1
  <2>2. CASE k = "" /\ ~Holds(p)
    <3>1. Goes(c, FailsWith(x, "plan.drift"))
      BY <2>2 DEF Execute
    <3> HIDE DEF x
    <3> QED BY <3>1
  <2>3. CASE k = "" /\ Holds(p) /\ NewAttemptRefused(p) # ""
    <3>1. Goes(c, FailsWith(x, NewAttemptRefused(p)))
      BY <2>3 DEF Execute
    <3> HIDE DEF x
    <3> QED BY <3>1, Refusing
  <2>4. CASE k = "" /\ Holds(p) /\ NewAttemptRefused(p) = ""
    BY <2>4, Refusing DEF Execute
  <2> QED BY <2>1, <2>2, <2>3, <2>4
<1> QED BY <1>5, <1>6, <1>7

\* What a review or a rerun finds before it goes on.
LEMMA PendingIs ==
  ASSUME BaseInv, NEW p \in PlanPaths, Holds(p), StateReads(p), Pending # {}
  PROVE  /\ Latest \in Attempts /\ StateReads(p) /\ plans[p].state = "plan"
         /\ AttemptReads(Latest, p) /\ files[Latest].private
         /\ files[Latest].cold # Absent => files[Latest].cold.state = "cold" /\ files[Latest].cold.plan = plans[p]
         /\ files[Latest].review # Absent => files[Latest].review.state = "review"
<1>1. plans[p].state = "plan"
  BY DEF Holds
<1>2. MaxTries \in Nat /\ Latest \in 0 .. MaxTries
  BY LatestIs, GateAssumption
<1>3. Latest \in Attempts
  BY <1>1, <1>2 DEF Pending, Attempts
<1> QED BY <1>1, <1>2, <1>3, ReadBack

\* The answer of the reviewer, which is to be filed, or is refused.
LEMMA ReviewStep ==
  ASSUME BaseInv, NEW c \in Commands, NEW p \in PlanPaths, NEW run, NEW passed \in BOOLEAN, Review(c, p, run, passed)
  PROVE  BaseInv'
<1> DEFINE i == Latest
           f == files[i]
           x == Command("review", "write", p, i)
           v == [state |-> "review", attempt |-> i, plan |-> plans[p], cold |-> f.cold, run |-> run,
                 clips |-> f.cold.run.videos]
<1>1. Free(c) /\ plans[p] # Absent
      /\ UNCHANGED <<world, plans, torn, cut, sealed, unfiled, files, runs, deliveryRun, previousRun>>
  BY DEF Review, Disk, Space
<1>2. WorldInv' /\ cmd[c] = Idle
  BY <1>1, FreeStep
<1>3. Quiet
  BY <1>1, QuietRuns DEF BaseInv
<1>4. Shaped(x) /\ x.name = "review" /\ x.pc = "write" /\ x.plan = p /\ x.attempt = i /\ x.run = 0
  BY DEF Command, Shaped
<1>5. CASE \E reason : reason # "run.failed" /\ Goes(c, FailsWith(x, reason))
  <2>1. PICK reason : reason # "run.failed" /\ Goes(c, FailsWith(x, reason))
    BY <1>5
  <2> HIDE DEF x
  <2> QED BY <1>1, <1>2, <1>3, <1>4, <2>1, RefusedStep
<1>6. CASE /\ Holds(p) /\ StateReads(p) /\ Pending # {} /\ f.cold # Absent /\ f.review = Absent /\ run = f.cold.run.id
           /\ Goes(c, Writes(x, v))
  <2> DEFINE y == Writes(x, v)
  <2>1. /\ i \in Attempts /\ plans[p].state = "plan" /\ f.private
        /\ f.cold.state = "cold" /\ f.cold.plan = plans[p]
    BY <1>6, PendingIs
  <2>2. Shaped(y) /\ Like(y, x) /\ y.pc = "write" /\ y.value = v
    <3> HIDE DEF x, v
    <3> QED BY <1>4, WritesShape
  <2>3. ReviewGood(i, f, v) /\ v.plan = plans[p]
    BY <1>6, <2>1 DEF ReviewGood
  <2>4. cmd' = [cmd EXCEPT ![c] = y]
    BY <1>6 DEF Goes
  <2> HIDE DEF x, y, v
  <2>5. y.name = "review" /\ y.plan = p /\ y.attempt = i /\ y.run = 0
    BY <1>4, <2>2 DEF Like
  <2>6. y # Idle /\ Earlier(y, files) /\ \A d \in Commands : Apart(y, cmd[d])
    <3>1. y # Idle
      BY <2>2 DEF Idle
    <3> QED BY <2>2, <3>1 DEF Earlier, Apart, Making, AtWork
  <2>7. CommandGood(y, files[y.attempt], runs'[y.attempt], plans[y.plan])
    BY <1>1, <2>1, <2>2, <2>3, <2>5 DEF CommandGood, Pcs, AtWork, ValueGood
  <2> QED BY <1>1, <1>2, <1>3, <2>4, <2>6, <2>7, QuietStep
<1>7. \/ \E reason : reason # "run.failed" /\ Goes(c, FailsWith(x, reason))
      \/ /\ Holds(p) /\ StateReads(p) /\ Pending # {} /\ f.cold # Absent /\ f.review = Absent /\ run = f.cold.run.id
         /\ Goes(c, Writes(x, v))
  <2> DEFINE reason == IF ~Holds(p) THEN "plan.drift"
                       ELSE IF PendingRefused(p) # "" THEN PendingRefused(p)
                       ELSE IF f.cold = Absent THEN "review.required"
                       ELSE IF f.review # Absent THEN "review.already_recorded"
                       ELSE IF run # f.cold.run.id THEN "review.binding_invalid"
                       ELSE IF ~passed THEN "review.failed" ELSE ""
  <2>1. IF reason # "" THEN Goes(c, FailsWith(x, reason)) ELSE Goes(c, Writes(x, v))
    BY DEF Review
  <2>2. reason # "run.failed"
    BY Refusing
  <2>3. reason = "" => /\ Holds(p) /\ StateReads(p) /\ Pending # {}
                       /\ f.cold # Absent /\ f.review = Absent /\ run = f.cold.run.id
    BY Refusing
  <2> HIDE DEF reason, x, v
  <2> QED BY <2>1, <2>2, <2>3
<1> QED BY <1>5, <1>6, <1>7

\* A cache rerun that starts, or is refused.
LEMMA RerunStep ==
  ASSUME BaseInv, NEW c \in Commands, NEW p \in PlanPaths, NEW k, k # "run.failed", Rerun(c, p, k)
  PROVE  BaseInv'
<1> DEFINE i == Latest
           f == files[i]
           x == Command("rerun", "run", p, i)
           refused == IF k # "" THEN k
                      ELSE IF ~Holds(p) THEN "plan.drift"
                      ELSE IF PendingRefused(p) # "" THEN PendingRefused(p)
                      ELSE IF f.cold = Absent \/ f.review = Absent THEN "review.required" ELSE ""
<1>1. Free(c) /\ plans[p] # Absent
      /\ UNCHANGED <<world, plans, torn, cut, sealed, unfiled, files, deliveryRun, previousRun>>
  BY DEF Rerun, Disk
<1>2. WorldInv' /\ cmd[c] = Idle
  BY <1>1, FreeStep
<1>3. refused = "" => /\ i \in Attempts /\ plans[p].state = "plan" /\ f.private /\ Reviewed(f, plans[p])
  <2>1. refused = "" => Holds(p) /\ StateReads(p) /\ Pending # {} /\ f.cold # Absent /\ f.review # Absent
    BY Refusing
  <2> QED BY <2>1, PendingIs DEF Reviewed
<1>4. refused # "run.failed"
  BY Refusing
<1>5. /\ runs' = IF refused = "" THEN [runs EXCEPT ![i] = Cleaned(i)] ELSE runs
      /\ IF refused # "" THEN Goes(c, FailsWith(x, refused))
         ELSE IF Leaked(i) # {} THEN Goes(c, FailsWith(x, "credential.evidence_leak"))
         ELSE IF ~Kept(i) THEN Goes(c, FailsWith(x, "cold_run.evidence_drift")) ELSE Goes(c, x)
  BY DEF Rerun
<1>6. Shaped(x) /\ x.name = "rerun" /\ x.pc = "run" /\ x.plan = p /\ x.attempt = i /\ x.run = 0
  BY DEF Command, Shaped
<1> HIDE DEF refused, x
<1>7. Quiet
  <2>1. runs' = runs \/ \E a \in Attempts : runs' = [runs EXCEPT ![a] = Cleaned(a)]
    BY <1>3, <1>5
  <2> QED BY <1>1, <2>1, QuietRuns DEF BaseInv
<1>8. CASE \E reason : reason # "run.failed" /\ Goes(c, FailsWith(x, reason))
  <2>1. PICK reason : reason # "run.failed" /\ Goes(c, FailsWith(x, reason))
    BY <1>8
  <2> QED BY <1>1, <1>2, <1>6, <1>7, <2>1, RefusedStep
<1>9. CASE refused = "" /\ Goes(c, x)
  <2>0. i \in Attempts /\ plans[p].state = "plan" /\ f.private /\ Reviewed(f, plans[p])
    BY <1>3, <1>9
  <2>1. x # Idle /\ Earlier(x, files)
    <3>1. x # Idle
      BY <1>6 DEF Idle
    <3> QED BY <1>6, <3>1 DEF Earlier
  <2>2. \A d \in Commands : Apart(x, cmd[d])
    BY <1>6 DEF Apart, Making, AtWork
  <2>3. CommandGood(x, files[x.attempt], runs'[x.attempt], plans[x.plan])
    BY <1>1, <1>6, <2>0 DEF CommandGood, Pcs, AtWork
  <2>4. cmd' = [cmd EXCEPT ![c] = x]
    BY <1>9 DEF Goes
  <2> QED BY <1>1, <1>2, <1>7, <2>1, <2>2, <2>3, <2>4, QuietStep
<1>10. \/ \E reason : reason # "run.failed" /\ Goes(c, FailsWith(x, reason))
       \/ refused = "" /\ Goes(c, x)
  BY <1>4, <1>5
<1> QED BY <1>8, <1>9, <1>10

\* The class of a failure, which is to be filed, or is refused.
LEMMA ClassifyStep ==
  ASSUME BaseInv, NEW c \in Commands, NEW p \in PlanPaths, NEW i \in Attempts, NEW class, Classify(c, p, i, class)
  PROVE  BaseInv'
<1> DEFINE f == files[i]
           x == Command("classify", "write", p, i)
           v == [state |-> "class", attempt |-> i, plan |-> plans[p], record |-> f.record, class |-> class]
           y == Writes(x, v)
<1>1. Free(c) /\ plans[p] # Absent
      /\ UNCHANGED <<world, plans, torn, cut, sealed, unfiled, files, runs, deliveryRun, previousRun>>
  BY DEF Classify, Disk, Space
<1>2. WorldInv' /\ cmd[c] = Idle
  BY <1>1, FreeStep
<1>3. Quiet
  BY <1>1, QuietRuns DEF BaseInv
<1>4. /\ Holds(p) /\ StateReads(p) /\ Exists(i) /\ f.record.state = "failed"
      /\ f.record.failure.class = class /\ class # "candidate_rejected" /\ Goes(c, y)
  BY DEF Classify
<1>5. i <= Latest
  BY <1>4, LatestIs
<1>6. f.private /\ f.record.plan = plans[p] /\ plans[p].state = "plan"
  BY <1>4, <1>5, ReadBack DEF Holds
<1>7. Shaped(x) /\ x.name = "classify" /\ x.pc = "write" /\ x.plan = p /\ x.attempt = i /\ x.run = 0
  BY DEF Command, Shaped
<1>8. ClassGood(i, f, v) /\ v.plan = plans[p]
  BY <1>4, <1>6 DEF ClassGood, Open
<1>9. Shaped(y) /\ Like(y, x) /\ y.pc = "write" /\ y.value = v
  <2> HIDE DEF x, v
  <2> QED BY <1>7, WritesShape
<1>10. cmd' = [cmd EXCEPT ![c] = y]
  BY <1>4 DEF Goes
<1> HIDE DEF x, y, v
<1>11. y.name = "classify" /\ y.plan = p /\ y.attempt = i /\ y.run = 0
  BY <1>7, <1>9 DEF Like
<1>12. y # Idle /\ Earlier(y, files) /\ \A d \in Commands : Apart(y, cmd[d])
  <2>1. y # Idle
    BY <1>9 DEF Idle
  <2> QED BY <1>9, <2>1 DEF Earlier, Apart, Making, AtWork
<1>13. CommandGood(y, files[y.attempt], runs'[y.attempt], plans[y.plan])
  BY <1>1, <1>6, <1>8, <1>9, <1>11 DEF CommandGood, Pcs, AtWork, ValueGood
<1> QED BY <1>1, <1>2, <1>3, <1>10, <1>12, <1>13, QuietStep

-----------------------------------------------------------------------------
(* The command at work makes its directories                                *)

\* The command at work, as the invariant knows it.
LEMMA AtIs ==
  ASSUME BaseInv, NEW c \in Commands, NEW pc \in Pcs, At(c, pc)
  PROVE  LET x == cmd[c] IN
         /\ x # Idle /\ x.pc = pc /\ Shaped(x) /\ x.name \in {"execute", "review", "rerun", "classify"}
         /\ x.plan \in PlanPaths /\ x.run \in Nat /\ plans[x.plan] # Absent
         /\ CommandGood(x, files[x.attempt], runs[x.attempt], plans[x.plan]) /\ Earlier(x, files)
         /\ \A d \in Commands \ {c} : cmd[d] # Idle => Apart(x, cmd[d])
<1>1. cmd[c].pc = pc /\ cmd[c] # Idle
  BY DEF At, Idle, Pcs
<1>2. Placed(cmd[c])
  BY <1>1 DEF BaseInv, CommandsInv
<1> QED BY <1>1, <1>2 DEF Placed, CommandGood, BaseInv, CommandsInv

\* A command that goes on to another step is otherwise the same.
LEMMA OnShape ==
  ASSUME NEW x, Shaped(x), NEW q
  PROVE  LET y == [x EXCEPT !.pc = q] IN
         Shaped(y) /\ Like(y, x) /\ y.pc = q /\ y.value = x.value /\ y.reason = x.reason
<1> DEFINE y == [x EXCEPT !.pc = q]
<1>1. PICK a, b, c, d, h, k, n :
        x = [pc |-> a, name |-> b, plan |-> c, attempt |-> d, reason |-> h, value |-> k, run |-> n]
  BY DEF Shaped
<1>2. y = [pc |-> q, name |-> b, plan |-> c, attempt |-> d, reason |-> h, value |-> k, run |-> n]
  BY <1>1
<1> HIDE DEF y
<1> QED BY <1>1, <1>2 DEF Shaped, Like, y

\* A command whose run starts is otherwise the same.
LEMMA RunningShape ==
  ASSUME NEW z, Shaped(z), NEW n
  PROVE  LET y == [z EXCEPT !.run = n] IN
         /\ Shaped(y) /\ y.name = z.name /\ y.plan = z.plan /\ y.attempt = z.attempt
         /\ y.run = n /\ y.pc = z.pc
<1> DEFINE y == [z EXCEPT !.run = n]
<1>1. PICK a, b, c, d, h, k, m :
        z = [pc |-> a, name |-> b, plan |-> c, attempt |-> d, reason |-> h, value |-> k, run |-> m]
  BY DEF Shaped
<1>2. y = [pc |-> a, name |-> b, plan |-> c, attempt |-> d, reason |-> h, value |-> k, run |-> n]
  BY <1>1
<1> HIDE DEF y
<1>3. Shaped(y) /\ y.name = z.name /\ y.plan = z.plan /\ y.attempt = z.attempt /\ y.run = n /\ y.pc = z.pc
  BY <1>1, <1>2 DEF Shaped
<1> QED BY <1>3 DEF y

\* Where no run changes, nothing is disturbed.
LEMMA SameRuns ==
  ASSUME RunsInv, UNCHANGED <<runs, deliveryRun, previousRun>>
  PROVE  /\ RunsInv'
         /\ \A x, f, s : Undisturbed(x, f, s, s)
<1>1. RunsInv'
  BY DEF RunsInv, SeqGood
<1> QED BY <1>1 DEF Undisturbed

\* Where neither the host nor a plan changes, the same is known of them.
LEMMA SameWorld ==
  ASSUME WorldInv, UNCHANGED <<world, left, plans, torn, cut, met, unfiled>>
  PROVE  WorldInv'
BY DEF WorldInv

\* A step that makes a directory of its attempt, or writes a file there.
LEMMA FileStep ==
  ASSUME BaseInv, NEW c \in Commands, NEW i \in Attempts, NEW g, NEW ACTION y,
         cmd' = [cmd EXCEPT ![c] = y], files' = [files EXCEPT ![i] = g],
         UNCHANGED <<runs, deliveryRun, previousRun, plans, sealed>>, WorldInv',
         FileGood(i, g, runs[i]), Stays(files[i], runs[i], g, runs[i]),
         g.workspace /\ ~files[i].workspace => \A j \in Attempts : j < i => files[j].workspace /\ Excusing(files[j]),
         y # Idle => CommandGood(y, files'[y.attempt], runs[y.attempt], plans[y.plan]) /\ Earlier(y, files'),
         y # Idle => \A d \in Commands \ {c} : cmd[d] # Idle => Apart(y, cmd[d])
  PROVE  BaseInv'
<1>1. \A j \in Attempts : files'[j] = IF j = i THEN g ELSE files[j]
  BY DEF BaseInv, FilesInv
<1>2. files' = [j \in Attempts |-> files'[j]]
  BY DEF BaseInv, FilesInv
<1>3. RunsInv' /\ runs' = runs /\ (\A x, f, s : Undisturbed(x, f, s, s))
  BY SameRuns DEF BaseInv
<1>4. ASSUME NEW j \in Attempts
      PROVE  Stays(files[j], runs[j], files'[j], runs'[j]) /\ FileGood(j, files'[j], runs'[j])
  <2>1. Stays(files[j], runs[j], files[j], runs[j])
    <3>1. Extends(runs[j], runs[j])
      BY LenProperties DEF Extends, BaseInv, RunsInv, SeqGood
    <3> QED BY <3>1 DEF Stays, FileGrows
  <2> QED BY <1>1, <1>3, <2>1 DEF BaseInv, FilesInv
<1>5. \A j \in Attempts : files'[j].workspace /\ ~files[j].workspace =>
         \A k \in Attempts : k < j => files[k].workspace /\ Excusing(files[k])
  BY <1>1
<1>6. \A d \in Commands \ {c} : cmd[d] # Idle /\ cmd[d].pc # "failing" =>
         Undisturbed(cmd[d], files[cmd[d].attempt], runs[cmd[d].attempt], runs'[cmd[d].attempt])
  BY <1>3
<1>7. y # Idle => CommandGood(y, files'[y.attempt], runs'[y.attempt], plans[y.plan]) /\ Earlier(y, files')
  BY <1>3
<1> QED BY <1>2, <1>3, <1>4, <1>5, <1>6, <1>7, BaseStep

\* The directories of an attempt, which only one command can make.
LEMMA DirectoryStep ==
  ASSUME BaseInv, NEW c \in Commands,
         MakeDirectory(c, "workspace", "private") \/ MakeDirectory(c, "private", "run")
  PROVE  BaseInv'
<1> DEFINE x == cmd[c]
           i == x.attempt
           f == files[i]
           s == runs[i]
           w == plans[x.plan]
<1>1. UNCHANGED <<world, plans, torn, cut, sealed, unfiled, left, met, runs, deliveryRun, previousRun>>
  BY DEF MakeDirectory, Disk, Budget, Space
<1>2. WorldInv'
  BY <1>1, SameWorld DEF BaseInv
<1>3. x.pc \in {"workspace", "private"} /\ At(c, x.pc)
  BY DEF MakeDirectory, At
<1>4. /\ x # Idle /\ Shaped(x) /\ x.name \in {"execute", "review", "rerun", "classify"}
      /\ x.plan \in PlanPaths /\ x.run \in Nat /\ w # Absent
      /\ CommandGood(x, f, s, w) /\ Earlier(x, files)
      /\ \A d \in Commands \ {c} : cmd[d] # Idle => Apart(x, cmd[d])
  BY <1>3, AtIs DEF Pcs
<1>5. x.name = "execute" /\ x.run = 0 /\ i \in Attempts /\ w.state = "plan"
  BY <1>3, <1>4 DEF CommandGood
<1>6. FileGood(i, f, s) /\ s \in Seq(RunRecords) /\ f.workspace \in BOOLEAN /\ f.private \in BOOLEAN
      /\ (f.private => f.workspace)
  BY <1>5, Owned DEF BaseInv, FilesInv, RunsInv, SeqGood
<1>7. CASE Goes(c, FailsWith(x, "attempt.workspace_create_failed")) /\ UNCHANGED files
  <2>1. Quiet
    BY <1>1, <1>7, QuietRuns DEF BaseInv
  <2> HIDE DEF x
  <2> QED BY <1>1, <1>2, <1>4, <1>5, <1>7, <2>1, RefusedStep
<1>8. CASE /\ x.pc = "workspace" /\ ~f.workspace /\ files' = [files EXCEPT ![i] = [f EXCEPT !.workspace = TRUE]]
           /\ Goes(c, On(c, "private"))
  <2> DEFINE y == On(c, "private")
             g == [f EXCEPT !.workspace = TRUE]
  <2>1. g = Entered /\ g.workspace /\ FileGood(i, g, s) /\ Stays(f, s, g, s)
    BY <1>6, <1>8, MadeGood
  <2>2. Shaped(y) /\ Like(y, x) /\ y.pc = "private"
    BY <1>4, OnShape DEF On
  <2>3. cmd' = [cmd EXCEPT ![c] = y] /\ files' = [files EXCEPT ![i] = g]
    BY <1>8 DEF Goes
  <2>4. files'[i] = g
    BY <1>5, <1>8 DEF BaseInv, FilesInv
  <2> HIDE DEF y, g
  <2>5. ~g.private
    BY <2>1, FreshFields DEF Entered
  <2>6. Len(s) = 0
    BY <2>1, <2>5 DEF FileGood
  <2>7. y.name = "execute" /\ y.attempt = i /\ y.run = 0 /\ y.plan = x.plan
    BY <1>5, <2>2 DEF Like
  <2>8. CommandGood(y, g, s, w)
    BY <1>4, <1>5, <2>1, <2>2, <2>6, <2>7 DEF CommandGood, Pcs, AtWork
  <2>9. Earlier(y, files')
    BY <2>2 DEF Earlier
  <2>10. ASSUME NEW d \in Commands \ {c}, cmd[d] # Idle
         PROVE  Apart(y, cmd[d])
    <3>1. ASSUME cmd[d].attempt = i, Making(cmd[d])
          PROVE  FALSE
      <4>1. CommandGood(cmd[d], f, s, plans[cmd[d].plan])
        BY <2>10, <3>1 DEF BaseInv, CommandsInv, Placed
      <4> QED BY <1>6, <1>8, <3>1, <4>1 DEF CommandGood, Making
    <3> QED BY <2>2, <2>7, <3>1 DEF Apart
  <2>11. \A j \in Attempts : j < i => files[j].workspace /\ Excusing(files[j])
    BY <1>4, <1>8 DEF Earlier
  <2>12. CommandGood(y, files'[y.attempt], runs[y.attempt], plans[y.plan])
    BY <2>4, <2>7, <2>8
  <2> HIDE DEF x
  <2> QED BY <1>1, <1>2, <1>5, <2>1, <2>3, <2>9, <2>10, <2>11, <2>12, FileStep
<1>9. CASE /\ x.pc = "private" /\ ~f.private /\ files' = [files EXCEPT ![i] = [f EXCEPT !.private = TRUE]]
           /\ Goes(c, On(c, "run"))
  <2> DEFINE y == On(c, "run")
             g == [f EXCEPT !.private = TRUE]
  <2>0. f.workspace /\ Len(s) = 0
    BY <1>4, <1>9 DEF CommandGood
  <2>1. g = Fresh(TRUE, TRUE) /\ FileGood(i, g, s) /\ Stays(f, s, g, s)
    BY <1>6, <1>9, <2>0, MadeGood
  <2>2. Shaped(y) /\ Like(y, x) /\ y.pc = "run"
    BY <1>4, OnShape DEF On
  <2>3. cmd' = [cmd EXCEPT ![c] = y] /\ files' = [files EXCEPT ![i] = g]
    BY <1>9 DEF Goes
  <2>4. files'[i] = g
    BY <1>5, <1>9 DEF BaseInv, FilesInv
  <2> HIDE DEF y, g
  <2>5. g.private
    BY <2>1, FreshFields
  <2>7. y.name = "execute" /\ y.attempt = i /\ y.run = 0 /\ y.plan = x.plan
    BY <1>5, <2>2 DEF Like
  <2>8. CommandGood(y, g, s, w)
    BY <1>4, <1>5, <2>0, <2>2, <2>5, <2>7 DEF CommandGood, Pcs, AtWork
  <2>9. Earlier(y, files')
    BY <2>2 DEF Earlier
  <2>10. ASSUME NEW d \in Commands \ {c}, cmd[d] # Idle
         PROVE  Apart(y, cmd[d])
    <3>1. Apart(x, cmd[d]) /\ Making(x)
      BY <1>4, <1>5, <1>9, <2>10 DEF Making
    <3> QED BY <2>2, <2>7, <3>1 DEF Apart
  <2>12. CommandGood(y, files'[y.attempt], runs[y.attempt], plans[y.plan])
    BY <2>4, <2>7, <2>8
  <2> HIDE DEF x
  <2> QED BY <1>1, <1>2, <1>5, <2>0, <2>1, <2>3, <2>9, <2>10, <2>12, FileStep
<1> QED
  <2>1. CASE MakeDirectory(c, "workspace", "private")
    <3>1. x.pc = "workspace"
      BY <2>1 DEF MakeDirectory, At
    <3>2. CASE f.workspace
      BY <1>7, <2>1, <3>2 DEF MakeDirectory
    <3>3. CASE ~f.workspace
      BY <1>8, <2>1, <3>1, <3>3 DEF MakeDirectory
    <3> QED BY <3>2, <3>3
  <2>2. CASE MakeDirectory(c, "private", "run")
    <3>1. x.pc = "private"
      BY <2>2 DEF MakeDirectory, At
    <3>2. CASE f.private
      BY <1>7, <2>2, <3>2 DEF MakeDirectory
    <3>3. CASE ~f.private
      BY <1>9, <2>2, <3>1, <3>3 DEF MakeDirectory
    <3> QED BY <3>2, <3>3
  <2> QED BY <2>1, <2>2

-----------------------------------------------------------------------------
(* The runs start and end                                                   *)

\* A step of a run of attempt i, whose runs become t.
LEMMA RunStep ==
  ASSUME BaseInv, NEW c \in Commands, NEW i \in Attempts, NEW t, NEW ACTION y,
         cmd' = [cmd EXCEPT ![c] = y], runs' = [runs EXCEPT ![i] = t],
         UNCHANGED <<files, plans, sealed>>, WorldInv',
         deliveryRun' \in [Attempts -> Nat], previousRun' \in [Attempts -> Nat],
         \A j \in Attempts : deliveryRun'[j] <= Len(runs'[j]) /\ previousRun'[j] <= Len(runs'[j]),
         SeqGood(i, t), Stays(files[i], runs[i], files[i], t), files[i].private, files[i].cold = Absent => Len(t) <= 1,
         \A d \in Commands \ {c} : cmd[d] # Idle /\ cmd[d].pc # "failing" /\ cmd[d].attempt = i =>
            Undisturbed(cmd[d], files[i], runs[i], t),
         y # Idle => CommandGood(y, files[y.attempt], runs'[y.attempt], plans[y.plan]) /\ Earlier(y, files),
         y # Idle => \A d \in Commands \ {c} : cmd[d] # Idle => Apart(y, cmd[d])
  PROVE  BaseInv'
<1>1. \A j \in Attempts : runs'[j] = IF j = i THEN t ELSE runs[j]
  BY DEF BaseInv, RunsInv
<1>2. runs' = [j \in Attempts |-> runs'[j]]
  BY DEF BaseInv, RunsInv
<1>3. RunsInv'
  <2>1. \A j \in Attempts : SeqGood(j, runs'[j])
    BY <1>1 DEF BaseInv, RunsInv
  <2> QED BY <1>2, <2>1 DEF RunsInv, SeqGood
<1>4. files' = [j \in Attempts |-> files'[j]] /\ files' = files
  BY DEF BaseInv, FilesInv
<1>5. ASSUME NEW j \in Attempts
      PROVE  Stays(files[j], runs[j], files'[j], runs'[j]) /\ FileGood(j, files'[j], runs'[j])
  <2>1. CASE j = i
    <3>1. runs[i] \in Seq(RunRecords) /\ t \in Seq(RunRecords) /\ FileGood(i, files[i], runs[i])
      BY DEF BaseInv, RunsInv, SeqGood, FilesInv
    <3>2. FileGood(i, files[i], t)
      BY <3>1, FileStays
    <3> QED BY <1>1, <1>4, <2>1, <3>2
  <2>2. CASE j # i
    <3>1. Stays(files[j], runs[j], files[j], runs[j])
      <4>1. Extends(runs[j], runs[j])
        BY LenProperties DEF Extends, BaseInv, RunsInv, SeqGood
      <4> QED BY <4>1 DEF Stays, FileGrows
    <3> QED BY <1>1, <1>4, <2>2, <3>1 DEF BaseInv, FilesInv
  <2> QED BY <2>1, <2>2
<1>6. \A j \in Attempts : files'[j].workspace /\ ~files[j].workspace =>
         \A k \in Attempts : k < j => files[k].workspace /\ Excusing(files[k])
  BY <1>4
<1>7. ASSUME NEW d \in Commands \ {c}, cmd[d] # Idle, cmd[d].pc # "failing"
      PROVE  Undisturbed(cmd[d], files[cmd[d].attempt], runs[cmd[d].attempt], runs'[cmd[d].attempt])
  <2> DEFINE a == cmd[d].attempt
  <2>1. a \in Attempts
    BY <1>7 DEF BaseInv, CommandsInv, Placed, CommandGood
  <2>2. CASE a = i
    BY <1>1, <1>7, <2>2
  <2>3. CASE a # i
    BY <1>1, <2>1, <2>3 DEF Undisturbed
  <2> QED BY <2>2, <2>3
<1>8. y # Idle => CommandGood(y, files'[y.attempt], runs'[y.attempt], plans[y.plan]) /\ Earlier(y, files')
  BY <1>4
<1> QED BY <1>3, <1>4, <1>5, <1>6, <1>7, <1>8, BaseStep

\* A run that starts is added behind the others.
LEMMA NewRun ==
  ASSUME NEW i \in Attempts, NEW s, NEW r, SeqGood(i, s), Len(s) < MaxRuns,
         r \in Begun, r.id = <<i, Len(s) + 1>>
  PROVE  LET t == Append(s, r) IN
         /\ SeqGood(i, t) /\ Extends(s, t) /\ Len(t) = Len(s) + 1 /\ t[Len(s) + 1] = r
         /\ \A n \in 1 .. Len(s) : t[n] = s[n]
<1> DEFINE t == Append(s, r)
<1>1. s \in Seq(RunRecords) /\ r \in RunRecords /\ Len(s) \in Nat /\ MaxRuns \in Nat
  BY LenProperties, GateAssumption DEF SeqGood, RunRecords
<1>2. t \in Seq(RunRecords) /\ Len(t) = Len(s) + 1 /\ t[Len(s) + 1] = r /\ \A n \in 1 .. Len(s) : t[n] = s[n]
  BY <1>1, AppendProperties
<1>3. Extends(s, t)
  <2> HIDE DEF t
  <2> QED BY <1>1, <1>2 DEF Extends
<1>4. SeqGood(i, t)
  <2> HIDE DEF t
  <2>1. r.code # "transient"
    BY DEF Begun
  <2>2. ASSUME NEW n \in 1 .. Len(t)
        PROVE  t[n].id = <<i, n>> /\ (t[n].code = "transient" => t[n].status = "failed")
    <3>1. n \in 1 .. Len(s) \/ n = Len(s) + 1
      BY <1>1, <1>2
    <3> QED BY <1>2, <2>1, <3>1 DEF SeqGood
  <2>3. Len(t) <= MaxRuns
    BY <1>1, <1>2
  <2> QED BY <1>2, <2>2, <2>3 DEF SeqGood
<1> QED BY <1>2, <1>3, <1>4

\* A command starts its run.
LEMMA StartStep ==
  ASSUME BaseInv, NEW c \in Commands, StartRun(c)
  PROVE  BaseInv'
<1> DEFINE x == cmd[c]
           i == x.attempt
           f == files[i]
           s == runs[i]
           w == plans[x.plan]
           r == [id |-> <<i, Len(s) + 1>>, status |-> "running", code |-> "", inputs |-> world.inputs,
                 candidate |-> world.candidate, installation |-> world.installation, leak |-> FALSE]
           t == Append(s, r)
           n == Len(s) + 1
           y == [On(c, "running") EXCEPT !.run = n]
<1>1. UNCHANGED <<world, plans, torn, cut, sealed, unfiled, left, met, files, deliveryRun, previousRun>>
  BY DEF StartRun, Disk, Budget
<1>2. WorldInv'
  BY <1>1, SameWorld DEF BaseInv
<1>3. At(c, "run")
  BY DEF StartRun
<1>4. /\ x # Idle /\ Shaped(x) /\ x.name \in {"execute", "review", "rerun", "classify"} /\ x.pc = "run"
      /\ x.plan \in PlanPaths /\ x.run \in Nat /\ w # Absent
      /\ CommandGood(x, f, s, w) /\ Earlier(x, files)
      /\ \A d \in Commands \ {c} : cmd[d] # Idle => Apart(x, cmd[d])
  BY <1>3, AtIs DEF Pcs
<1>5. x.name \in {"execute", "rerun"} /\ x.run = 0 /\ i \in Attempts /\ w.state = "plan" /\ f.private
      /\ (x.name = "execute" => Len(s) = 0) /\ (x.name = "rerun" => Reviewed(f, w))
  BY <1>4 DEF CommandGood, AtWork
<1>6. FileGood(i, f, s) /\ SeqGood(i, s) /\ s \in Seq(RunRecords) /\ Len(s) \in Nat
  BY <1>5, LenProperties DEF BaseInv, FilesInv, RunsInv, SeqGood
<1>7. CASE Running(i)
  <2>1. Goes(c, FailsWith(x, "run.diagnostics_missing")) /\ runs' = runs
    BY <1>7 DEF StartRun
  <2>2. Quiet
    BY <1>1, <2>1, QuietRuns DEF BaseInv
  <2> HIDE DEF x
  <2> QED BY <1>1, <1>2, <1>4, <1>5, <2>1, <2>2, RefusedStep
<1>8. CASE ~Running(i)
  <2>1. Len(s) < MaxRuns /\ runs' = [runs EXCEPT ![i] = t] /\ Goes(c, y)
    BY <1>8 DEF StartRun
  <2>2. r \in Begun /\ r.id = <<i, Len(s) + 1>>
    BY <1>1, <1>5, <1>6 DEF Begun, BaseInv, WorldInv
  <2>3. /\ SeqGood(i, t) /\ Extends(s, t) /\ Len(t) = n /\ t[n] = r
        /\ \A m \in 1 .. Len(s) : t[m] = s[m]
    <3> HIDE DEF r
    <3> QED BY <1>5, <1>6, <2>1, <2>2, NewRun
  <2>4. r.status = "running"
    OBVIOUS
  <2>5. Shaped(y) /\ y.name = x.name /\ y.plan = x.plan /\ y.attempt = i /\ y.run = n /\ y.pc = "running"
    <3> DEFINE z == On(c, "running")
    <3>1. Shaped(z) /\ Like(z, x) /\ z.pc = "running"
      BY <1>4, OnShape DEF On
    <3>2. y = [z EXCEPT !.run = n]
      OBVIOUS
    <3> HIDE DEF z, y, n
    <3> QED BY <3>1, <3>2, RunningShape DEF Like
  <2>6. cmd' = [cmd EXCEPT ![c] = y]
    BY <2>1 DEF Goes
  <2> HIDE DEF r, t, y
  <2>7. n \in Nat /\ n \in 1 .. Len(t)
    BY <1>6, <2>3
  <2>8. x.name = "rerun" => /\ f.cold.state = "cold" /\ f.cold # Absent /\ Len(s) > 0
                            /\ f.cold.run.id[2] < n
    <3> HAVE x.name = "rerun"
    <3>1. f.cold.state = "cold"
      BY <1>5 DEF Reviewed
    <3>2. f.cold # Absent /\ ColdGood(i, s, f.cold)
      BY <1>6, <3>1 DEF FileGood, Absent, Half
    <3>3. PICK m \in 1 .. Len(s) : s[m] = f.cold.run
      BY <3>2 DEF ColdGood
    <3>4. f.cold.run.id = <<i, m>>
      BY <1>6, <3>3 DEF SeqGood
    <3> QED BY <1>6, <3>1, <3>2, <3>3, <3>4
  <2>9. f.cold = Absent => Len(s) = 0 /\ Len(t) <= 1
    BY <1>5, <1>6, <2>3, <2>8
  <2>10. Stays(f, s, f, t)
    <3>1. f.cold = Absent => ~Transient(s)
      BY <2>9 DEF Transient
    <3> QED BY <2>3, <3>1 DEF Stays, FileGrows
  <2>11. CommandGood(y, f, t, w)
    <3>1. t[y.run].status = "running"
      BY <2>3, <2>4, <2>5
    <3> QED BY <1>4, <1>5, <2>3, <2>5, <2>7, <2>8, <3>1 DEF CommandGood, Pcs, AtWork
  <2>12. ASSUME NEW d \in Commands \ {c}, cmd[d] # Idle
         PROVE  /\ Apart(y, cmd[d])
                /\ cmd[d].attempt = i => Undisturbed(cmd[d], f, s, t)
    <3> DEFINE z == cmd[d]
    <3>1. Apart(x, z)
      BY <1>4, <2>12
    <3>2. z.pc = "running" => z.attempt # i
      BY <1>8, <2>12 DEF Running, At
    <3>3. Making(y) => Making(x)
      BY <1>4, <2>5 DEF Making, AtWork
    <3>4. Apart(y, z)
      BY <2>5, <3>1, <3>2, <3>3 DEF Apart
    <3>5. ASSUME z.attempt = i
          PROVE  Undisturbed(z, f, s, t)
      <4>1. CommandGood(z, f, s, plans[z.plan])
        BY <2>12, <3>5 DEF BaseInv, CommandsInv, Placed
      <4>2. x.name = "execute" => ~Making(z)
        BY <1>4, <3>1, <3>5 DEF Apart, Making, AtWork
      <4>3. ~(z.pc = "private")
        <5>1. CASE x.name = "execute"
          BY <4>1, <4>2, <5>1 DEF Making, CommandGood
        <5>2. CASE x.name = "rerun"
          BY <2>8, <4>1, <5>2 DEF CommandGood
        <5> QED BY <1>5, <5>1, <5>2
      <4>4. ~(z.pc \in AtWork /\ z.name = "execute" /\ (f.cold = Absent \/ z.pc = "run"))
        <5>1. CASE x.name = "execute"
          BY <4>2, <5>1 DEF Making
        <5>2. CASE x.name = "rerun"
          BY <2>8, <4>1, <5>2 DEF CommandGood
        <5> QED BY <1>5, <5>1, <5>2
      <4>5. z.pc \in {"running", "judge"} => ((t[z.run].status = "running") <=> (s[z.run].status = "running"))
        <5> HAVE z.pc \in {"running", "judge"}
        <5>1. z.run \in 1 .. Len(s)
          BY <4>1 DEF CommandGood
        <5>2. t[z.run] = s[z.run]
          BY <2>3, <5>1
        <5> QED BY <5>2
      <4> QED BY <4>3, <4>4, <4>5 DEF Undisturbed
    <3> QED BY <3>4, <3>5
  <2>13. runs'[i] = t /\ \A j \in Attempts : j # i => runs'[j] = runs[j]
    BY <1>5, <2>1 DEF BaseInv, RunsInv
  <2>14. \A j \in Attempts : deliveryRun'[j] <= Len(runs'[j]) /\ previousRun'[j] <= Len(runs'[j])
    <3>1. \A j \in Attempts : deliveryRun[j] <= Len(runs[j]) /\ previousRun[j] <= Len(runs[j])
                              /\ deliveryRun[j] \in Nat /\ previousRun[j] \in Nat
      BY DEF BaseInv, RunsInv
    <3>2. \A j \in Attempts : Len(runs[j]) \in Nat /\ Len(runs'[j]) \in Nat /\ Len(runs[j]) <= Len(runs'[j])
      <4>1. \A j \in Attempts : Len(runs[j]) \in Nat
        BY LenProperties DEF BaseInv, RunsInv, SeqGood
      <4>2. Len(t) \in Nat /\ Len(s) <= Len(t)
        BY <1>6, <2>3
      <4> QED BY <2>13, <4>1, <4>2
    <3> QED BY <1>1, <3>1, <3>2
  <2>15. CommandGood(y, files[y.attempt], runs'[y.attempt], plans[y.plan]) /\ Earlier(y, files)
    BY <2>5, <2>11, <2>13 DEF Earlier
  <2>16. deliveryRun' \in [Attempts -> Nat] /\ previousRun' \in [Attempts -> Nat]
    BY <1>1 DEF BaseInv, RunsInv
  <2> HIDE DEF x, n
  <2> QED BY <1>1, <1>2, <1>5, <2>1, <2>3, <2>6, <2>9, <2>10, <2>12, <2>14, <2>15, <2>16, RunStep
<1> QED BY <1>7, <1>8

\* A run that ends takes its own place.
LEMMA EndedRun ==
  ASSUME NEW i \in Attempts, NEW s, NEW n \in 1 .. Len(s), NEW r, SeqGood(i, s), s[n].status = "running",
         r \in Done, r.id = s[n].id, r.code = "transient" => r.status = "failed"
  PROVE  LET t == [s EXCEPT ![n] = r] IN
         /\ SeqGood(i, t) /\ Extends(s, t) /\ Len(t) = Len(s) /\ t[n] = r
         /\ \A m \in 1 .. Len(s) : m # n => t[m] = s[m]
<1> DEFINE t == [s EXCEPT ![n] = r]
<1>1. s \in Seq(RunRecords) /\ r \in RunRecords /\ Len(s) \in Nat /\ s \in [1 .. Len(s) -> RunRecords]
  BY LenProperties DEF SeqGood, RunRecords
<1>2. t \in [1 .. Len(s) -> RunRecords] /\ t[n] = r /\ \A m \in 1 .. Len(s) : m # n => t[m] = s[m]
  BY <1>1
<1> HIDE DEF t
<1>3. t \in Seq(RunRecords) /\ Len(t) = Len(s)
  BY <1>1, <1>2, IsASeq, LenProperties
<1>4. Extends(s, t)
  BY <1>1, <1>2, <1>3 DEF Extends
<1>5. SeqGood(i, t)
  <2>1. ASSUME NEW m \in 1 .. Len(t)
        PROVE  t[m].id = <<i, m>> /\ (t[m].code = "transient" => t[m].status = "failed")
    <3>1. CASE m = n
      BY <1>2, <3>1 DEF SeqGood
    <3>2. CASE m # n
      BY <1>2, <1>3, <3>2 DEF SeqGood
    <3> QED BY <3>1, <3>2
  <2> QED BY <1>3, <2>1 DEF SeqGood
<1> QED BY <1>2, <1>3, <1>4, <1>5 DEF t

\* The run of a command ends, in any way it can.
LEMMA FinishStep ==
  ASSUME BaseInv, NEW c \in Commands, NEW o \in Outcomes, FinishRun(c, o)
  PROVE  BaseInv'
<1> DEFINE x == cmd[c]
           i == x.attempt
           n == x.run
           f == files[i]
           s == runs[i]
           w == plans[x.plan]
           r == [id |-> s[n].id, status |-> o.status, code |-> o.code, inputs |-> s[n].inputs,
                 candidate |-> s[n].candidate, installation |-> s[n].installation, contract |-> o.contract,
                 requests |-> o.requests, cache |-> o.cache, videos |-> o.videos, projection |-> o.projection,
                 leak |-> o.leak]
           t == [s EXCEPT ![n] = r]
           y == On(c, "judge")
<1>1. UNCHANGED <<world, plans, torn, cut, sealed, unfiled, left, met, files>>
  BY DEF FinishRun, Disk, Budget
<1>2. WorldInv'
  BY <1>1, SameWorld DEF BaseInv
<1>3. At(c, "running")
  BY DEF FinishRun
<1>4. /\ x # Idle /\ Shaped(x) /\ x.name \in {"execute", "review", "rerun", "classify"} /\ x.pc = "running"
      /\ x.plan \in PlanPaths /\ x.run \in Nat /\ w # Absent
      /\ CommandGood(x, f, s, w) /\ Earlier(x, files)
      /\ \A d \in Commands \ {c} : cmd[d] # Idle => Apart(x, cmd[d])
  BY <1>3, AtIs DEF Pcs
<1>5. /\ x.name \in {"execute", "rerun"} /\ i \in Attempts /\ w.state = "plan" /\ f.private
      /\ (x.name = "rerun" => Reviewed(f, w) /\ f.cold.run.id[2] < n)
      /\ n \in 1 .. Len(s) /\ s[n].status = "running"
      /\ (x.name = "execute" /\ f.cold = Absent => Len(s) = n)
  BY <1>4 DEF CommandGood, AtWork
<1>6. FileGood(i, f, s) /\ SeqGood(i, s) /\ s \in Seq(RunRecords) /\ Len(s) \in Nat /\ s[n] \in RunRecords
  BY <1>5, LenProperties, ElementOfSeq DEF BaseInv, FilesInv, RunsInv, SeqGood
<1>7. OutcomeOK(o)
  BY GateAssumption DEF Outcomes
<1>8. r \in Done /\ r.id = s[n].id /\ (r.code = "transient" => r.status = "failed")
      /\ r.status = o.status
  <2>1. s[n].id \in Attempts \X Nat
    <3>1. s[n].id = <<i, n>> /\ n \in Nat
      BY <1>4, <1>5, <1>6 DEF SeqGood
    <3> HIDE DEF i, n
    <3> QED BY <1>5, <3>1
  <2>2. /\ s[n].inputs \in {v.inputs : v \in Worlds} /\ s[n].candidate \in {v.candidate : v \in Worlds}
        /\ s[n].installation \in {v.installation : v \in Worlds}
    BY <1>6 DEF RunRecords, Begun, Done
  <2>3. /\ o.status \in {"succeeded", "failed", "removed"} /\ o.code \in {""} \cup {v.code : v \in Outcomes}
        /\ o.leak \in BOOLEAN /\ o.contract \in BOOLEAN /\ o.requests \in [Capabilities -> Nat]
        /\ o.cache \in {v.cache : v \in Outcomes} /\ o.videos \in Nat /\ o.projection \in {v.projection : v \in Outcomes}
    BY <1>7 DEF OutcomeOK
  <2>4. r \in Done
    BY <2>1, <2>2, <2>3 DEF Done
  <2> QED BY <1>7, <2>4 DEF OutcomeOK
<1>9. runs' = [runs EXCEPT ![i] = t]
  BY DEF FinishRun
<1>10. Shaped(y) /\ Like(y, x) /\ y.pc = "judge"
  BY <1>4, OnShape DEF On
<1>11. cmd' = [cmd EXCEPT ![c] = y]
  BY DEF FinishRun, Goes
<1>12. o.status \in {"succeeded", "failed"}
  BY <1>7 DEF OutcomeOK
<1> HIDE DEF r
<1>13. SeqGood(i, t) /\ Extends(s, t) /\ Len(t) = Len(s) /\ t[n] = r /\ \A m \in 1 .. Len(s) : m # n => t[m] = s[m]
  BY <1>5, <1>6, <1>8, EndedRun
<1> HIDE DEF t, y
<1>14. Stays(f, s, f, t)
  <2>1. f.cold = Absent => ~Transient(s)
    <3> HAVE f.cold = Absent
    <3>1. Transient(s) => n = 1 /\ s[1].status = "failed"
      BY <1>5 DEF Transient
    <3> QED BY <1>5, <3>1
  <2> QED BY <1>13, <2>1 DEF Stays, FileGrows
<1>15. f.cold = Absent => Len(t) <= 1
  BY <1>6, <1>13 DEF FileGood
<1>16. y.name = x.name /\ y.plan = x.plan /\ y.attempt = i /\ y.run = n
  BY <1>10 DEF Like
<1>17. CommandGood(y, f, t, w)
  <2>1. t[y.run].status # "running"
    BY <1>8, <1>12, <1>13, <1>16
  <2> QED BY <1>4, <1>5, <1>10, <1>13, <1>16, <2>1 DEF CommandGood, Pcs, AtWork
<1>18. ASSUME NEW d \in Commands \ {c}, cmd[d] # Idle
       PROVE  /\ Apart(y, cmd[d])
              /\ cmd[d].pc # "failing" /\ cmd[d].attempt = i => Undisturbed(cmd[d], f, s, t)
  <2> DEFINE z == cmd[d]
  <2>1. Apart(x, z)
    BY <1>4, <1>18
  <2>2. Making(y) => Making(x)
    BY <1>4, <1>10, <1>16 DEF Making, AtWork
  <2>3. Apart(y, z)
    BY <1>10, <1>16, <2>1, <2>2 DEF Apart
  <2>4. ASSUME z.pc # "failing", z.attempt = i
        PROVE  Undisturbed(z, f, s, t)
    <3>1. CommandGood(z, f, s, plans[z.plan])
      BY <1>18, <2>4 DEF BaseInv, CommandsInv, Placed
    <3>2. z.pc \in {"running", "judge"} => ((t[z.run].status = "running") <=> (s[z.run].status = "running"))
      <4> HAVE z.pc \in {"running", "judge"}
      <4>1. z.run \in 1 .. Len(s) /\ (z.pc = "running" <=> s[z.run].status = "running")
        BY <3>1 DEF CommandGood
      <4>2. z.pc # "running"
        BY <1>4, <2>1, <2>4 DEF Apart
      <4>3. z.run # n
        BY <1>5, <4>1, <4>2
      <4>4. t[z.run] = s[z.run]
        BY <1>13, <4>1, <4>3
      <4> QED BY <4>4
    <3> QED BY <1>13, <3>2 DEF Undisturbed
  <2> QED BY <2>3, <2>4
<1>19. runs'[i] = t /\ \A j \in Attempts : j # i => runs'[j] = runs[j]
  BY <1>5, <1>9 DEF BaseInv, RunsInv
<1>20. /\ deliveryRun' \in [Attempts -> Nat] /\ previousRun' \in [Attempts -> Nat]
       /\ \A j \in Attempts : deliveryRun'[j] <= Len(runs'[j]) /\ previousRun'[j] <= Len(runs'[j])
  <2>1. \A j \in Attempts : /\ deliveryRun[j] <= Len(runs[j]) /\ previousRun[j] <= Len(runs[j])
                            /\ Len(runs'[j]) = Len(runs[j])
    BY <1>13, <1>19 DEF BaseInv, RunsInv
  <2>2. deliveryRun \in [Attempts -> Nat] /\ previousRun \in [Attempts -> Nat] /\ n \in Nat
    BY <1>4 DEF BaseInv, RunsInv
  <2>3. CASE o.status = "succeeded"
    <3>1. deliveryRun' = [deliveryRun EXCEPT ![i] = n] /\ previousRun' = [previousRun EXCEPT ![i] = deliveryRun[i]]
      BY <2>3 DEF FinishRun
    <3> HIDE DEF n
    <3>2. n <= Len(runs'[i])
      BY <1>5, <1>6, <2>1
    <3> QED BY <1>5, <2>1, <2>2, <3>1, <3>2
  <2>4. CASE o.status # "succeeded"
    <3>1. deliveryRun' = deliveryRun /\ previousRun' = previousRun
      BY <2>4 DEF FinishRun
    <3> QED BY <2>1, <2>2, <3>1
  <2> QED BY <2>3, <2>4
<1>21. CommandGood(y, files[y.attempt], runs'[y.attempt], plans[y.plan]) /\ Earlier(y, files)
  BY <1>10, <1>16, <1>17, <1>19 DEF Earlier
<1> HIDE DEF x, n
<1> QED BY <1>1, <1>2, <1>5, <1>9, <1>11, <1>13, <1>14, <1>15, <1>18, <1>20, <1>21, RunStep

-----------------------------------------------------------------------------
(* The verdicts                                                             *)

\* What an attempt keeps of the validator is written down, and its runs scrubbed at most.
LEMMA CheckedStep ==
  ASSUME BaseInv, NEW c \in Commands, NEW i \in Attempts, NEW k, NEW ACTION y,
         k = [cold |-> k.cold, previous |-> k.previous, warm |-> k.warm], files[i].private,
         cmd' = [cmd EXCEPT ![c] = y], files' = [files EXCEPT ![i] = [files[i] EXCEPT !.checked = k]],
         runs' = runs \/ runs' = [runs EXCEPT ![i] = Cleaned(i)],
         UNCHANGED <<plans, sealed, deliveryRun, previousRun>>, WorldInv',
         y # Idle => CommandGood(y, files'[y.attempt], runs'[y.attempt], plans[y.plan]) /\ Earlier(y, files'),
         y # Idle => \A d \in Commands \ {c} : cmd[d] # Idle => Apart(y, cmd[d])
  PROVE  BaseInv'
<1> DEFINE g == [files[i] EXCEPT !.checked = k]
           t == runs'[i]
<1>1. FileGood(i, files[i], runs[i]) /\ SeqGood(i, runs[i]) /\ runs[i] \in Seq(RunRecords)
  BY DEF BaseInv, FilesInv, RunsInv, SeqGood
<1>2. /\ FileGood(i, g, runs[i]) /\ Stays(files[i], runs[i], g, runs[i])
      /\ g.cold = files[i].cold /\ g.workspace = files[i].workspace
  BY <1>1, CheckedGood
<1>3. \A j \in Attempts : files'[j] = IF j = i THEN g ELSE files[j]
  BY DEF BaseInv, FilesInv
<1>4. files' = [j \in Attempts |-> files'[j]] /\ runs' = [j \in Attempts |-> runs'[j]]
  BY DEF BaseInv, FilesInv, RunsInv
<1>5. \A j \in Attempts : j # i => runs'[j] = runs[j]
  BY DEF BaseInv, RunsInv
<1>6. t = runs[i] \/ t = Cleaned(i)
  BY DEF BaseInv, RunsInv
<1>7. Scrubs(runs[i], runs[i])
  BY <1>1, LenProperties DEF Scrubs, Extends
<1>8. SeqGood(i, t) /\ Scrubs(runs[i], t)
  BY <1>1, <1>6, <1>7, CleanedFacts
<1> HIDE DEF g, t
<1>9. t \in Seq(RunRecords) /\ Len(t) = Len(runs[i])
  BY <1>8 DEF SeqGood, Scrubs
<1>10. RunsInv'
  <2>1. \A j \in Attempts : SeqGood(j, runs'[j]) /\ Len(runs'[j]) = Len(runs[j])
    BY <1>5, <1>8, <1>9 DEF BaseInv, RunsInv, t
  <2> QED BY <1>4, <2>1 DEF BaseInv, RunsInv, SeqGood
<1>11. /\ Stays(g, runs[i], g, t) /\ FileGood(i, g, t)
       /\ Stays(files[i], runs[i], files[i], t)
       /\ \A x, w : CommandGood(x, files[i], runs[i], w) => Undisturbed(x, files[i], runs[i], t)
  BY <1>1, <1>2, <1>8, <1>9, ScrubStays
<1>12. Stays(files[i], runs[i], g, t)
  BY <1>2, <1>11 DEF Stays
<1>13. ASSUME NEW j \in Attempts
       PROVE  Stays(files[j], runs[j], files'[j], runs'[j]) /\ FileGood(j, files'[j], runs'[j])
  <2>1. CASE j = i
    BY <1>3, <1>11, <1>12, <2>1 DEF t
  <2>2. CASE j # i
    <3>1. Stays(files[j], runs[j], files[j], runs[j])
      <4>1. Extends(runs[j], runs[j])
        BY LenProperties DEF Extends, BaseInv, RunsInv, SeqGood
      <4> QED BY <4>1 DEF Stays, FileGrows
    <3> QED BY <1>3, <1>5, <2>2, <3>1 DEF BaseInv, FilesInv
  <2> QED BY <2>1, <2>2
<1>14. \A j \in Attempts : files'[j].workspace /\ ~files[j].workspace =>
          \A m \in Attempts : m < j => files[m].workspace /\ Excusing(files[m])
  BY <1>2, <1>3
<1>15. ASSUME NEW d \in Commands \ {c}, cmd[d] # Idle, cmd[d].pc # "failing"
       PROVE  Undisturbed(cmd[d], files[cmd[d].attempt], runs[cmd[d].attempt], runs'[cmd[d].attempt])
  <2> DEFINE x == cmd[d]
             a == cmd[d].attempt
  <2>1. a \in Attempts /\ CommandGood(x, files[a], runs[a], plans[x.plan])
    BY <1>15 DEF BaseInv, CommandsInv, Placed, CommandGood
  <2>2. CASE a = i
    <3> HIDE DEF x
    <3>1. Undisturbed(x, files[a], runs[a], t)
      BY <1>11, <2>1, <2>2
    <3> QED BY <2>2, <3>1 DEF t, x
  <2>3. CASE a # i
    BY <1>5, <2>1, <2>3 DEF Undisturbed
  <2> QED BY <2>2, <2>3
<1> QED BY <1>4, <1>10, <1>13, <1>14, <1>15, BaseStep

\* What the validator says is no reason that another step has.
LEMMA Validations ==
  ASSUME NEW v
  PROVE  Validation(v) \notin Refusals /\ Validation(v) # "run.failed"
BY DEF Validation, Refusals

\* The command at work on a judgment.
Judging(x, f, s, w) ==
    /\ x # Idle /\ Shaped(x) /\ x.pc = "judge" /\ x.plan \in PlanPaths /\ x.run \in Nat /\ w # Absent
    /\ x.attempt \in Attempts /\ w.state = "plan" /\ f.private /\ x.run \in 1 .. Len(s) /\ s[x.run].status # "running"
    /\ x.name = "rerun" => Reviewed(f, w) /\ f.cold.run.id[2] < x.run
    /\ FileGood(x.attempt, f, s) /\ SeqGood(x.attempt, s)

\* What a command that judges its run knows of it.
LEMMA JudgeIs ==
  ASSUME BaseInv, NEW c \in Commands, At(c, "judge")
  PROVE  Judging(cmd[c], files[cmd[c].attempt], runs[cmd[c].attempt], plans[cmd[c].plan])
<1> DEFINE x == cmd[c]
           f == files[x.attempt]
           s == runs[x.attempt]
           w == plans[x.plan]
<1>1. /\ x # Idle /\ x.pc = "judge" /\ Shaped(x) /\ x.plan \in PlanPaths /\ x.run \in Nat /\ w # Absent
      /\ CommandGood(x, f, s, w)
  BY AtIs DEF Pcs
<1>2. /\ x.attempt \in Attempts /\ w.state = "plan" /\ f.private /\ x.run \in 1 .. Len(s) /\ s[x.run].status # "running"
      /\ x.name = "rerun" => Reviewed(f, w) /\ f.cold.run.id[2] < x.run
  BY <1>1 DEF CommandGood, AtWork
<1> QED BY <1>1, <1>2 DEF Judging, BaseInv, FilesInv, RunsInv

\* The verdict on a cold run: a failure, or a record to be filed.
LEMMA JudgeColdStep ==
  ASSUME BaseInv, NEW c \in Commands, NEW v, JudgeCold(c, v)
  PROVE  BaseInv'
<1> DEFINE x == cmd[c]
           i == x.attempt
           f == files[i]
           s == runs[i]
           w == plans[x.plan]
           r == s[x.run]
           summary == Summary(r, w.facts, FALSE)
           reason == IF summary # "" THEN summary ELSE Validation(v)
           k == [f.checked EXCEPT !.cold = Checked(r)]
           value == [state |-> "cold", attempt |-> i, plan |-> w, run |-> r,
                     projection |-> Projection(r), checked |-> Checked(r)]
           y == Writes(x, value)
<1>1. UNCHANGED <<world, plans, torn, cut, sealed, unfiled, left, met, deliveryRun, previousRun>>
  BY DEF JudgeCold, Disk, Budget
<1>2. WorldInv'
  BY <1>1, SameWorld DEF BaseInv
<1>3. At(c, "judge") /\ x.name = "execute"
  BY DEF JudgeCold
<1>4. Judging(x, f, s, w)
  BY <1>3, JudgeIs
<1>5. reason \notin Refusals /\ (reason = "" => summary = "")
  BY Summaries, Validations
<1>6. /\ reason # "" => files' = files /\ Goes(c, FailsWith(x, reason)) /\ runs' = runs
      /\ reason = "" => /\ files' = [files EXCEPT ![i].checked.cold = Checked(r)]
                        /\ Leaked(i) # {} => Goes(c, FailsWith(x, "credential.evidence_leak"))
                                             /\ runs' = [runs EXCEPT ![i] = Cleaned(i)]
                        /\ Leaked(i) = {} => Goes(c, y) /\ runs' = runs
  BY DEF JudgeCold
<1>7. ASSUME NEW q, q \notin Refusals
      PROVE  LET z == FailsWith(x, q) IN
             /\ z # Idle /\ (\A g, t : CommandGood(z, g, t, w)) /\ (\A fs : Earlier(z, fs)) /\ (\A u : Apart(z, u))
             /\ z.plan = x.plan
  <2>1. Shaped(x) /\ x.plan \in PlanPaths /\ x.run \in Nat /\ w # Absent
    BY <1>4 DEF Judging
  <2>2. FailsWith(x, q).plan = x.plan
    BY <2>1, FailsShape DEF Like
  <2> QED BY <1>3, <1>7, <2>1, <2>2, FailingGood
<1>8. CASE reason # ""
  <2>1. Quiet
    BY <1>6, <1>8, QuietRuns DEF BaseInv
  <2>2. Goes(c, FailsWith(x, reason)) /\ reason \notin Refusals
    BY <1>5, <1>6, <1>8
  <2>3. Shaped(x) /\ x.plan \in PlanPaths /\ x.run \in Nat /\ w # Absent
    BY <1>4 DEF Judging
  <2> HIDE DEF x, reason
  <2> QED BY <1>1, <1>2, <1>3, <2>1, <2>2, <2>3, RefusedStep
<1>9. CASE reason = ""
  <2>0. summary = ""
    BY <1>5, <1>9
  <2>1. /\ files' = [files EXCEPT ![i].checked.cold = Checked(r)]
        /\ Leaked(i) # {} => Goes(c, FailsWith(x, "credential.evidence_leak"))
                             /\ runs' = [runs EXCEPT ![i] = Cleaned(i)]
        /\ Leaked(i) = {} => Goes(c, y) /\ runs' = runs
    BY <1>6, <1>9
  <2>2. files' = [files EXCEPT ![i] = [f EXCEPT !.checked = k]]
    BY <2>1
  <2>3. f.checked = [cold |-> f.checked.cold, previous |-> f.checked.previous, warm |-> f.checked.warm]
    BY <1>4 DEF Judging, FileGood, FileShape
  <2>4. k = [cold |-> k.cold, previous |-> k.previous, warm |-> k.warm]
    <3> DEFINE Of(a, b, e) == [cold |-> a, previous |-> b, warm |-> e]
               With(m) == [m EXCEPT !.cold = Checked(r)]
    <3>1. \A a, b, e : With(Of(a, b, e)) = Of(Checked(r), b, e)
      OBVIOUS
    <3>2. PICK a, b, e : f.checked = Of(a, b, e)
      BY <2>3
    <3> HIDE DEF Of
    <3>3. k = Of(Checked(r), b, e)
      BY <3>1, <3>2
    <3> HIDE DEF k
    <3> QED BY <3>3 DEF Of
  <2> HIDE DEF k
  <2>5. CASE Leaked(i) # {}
    <3> DEFINE z == FailsWith(x, "credential.evidence_leak")
    <3>1. "credential.evidence_leak" \notin Refusals
      BY DEF Refusals
    <3>2. /\ z # Idle /\ (\A g, t : CommandGood(z, g, t, w)) /\ (\A fs : Earlier(z, fs)) /\ (\A u : Apart(z, u))
          /\ z.plan = x.plan
      BY <1>7, <3>1
    <3>3. cmd' = [cmd EXCEPT ![c] = z] /\ runs' = [runs EXCEPT ![i] = Cleaned(i)]
      BY <2>1, <2>5 DEF Goes
    <3> HIDE DEF z, x
    <3>4. CommandGood(z, files'[z.attempt], runs'[z.attempt], plans[z.plan]) /\ Earlier(z, files')
      BY <3>2
    <3>5. i \in Attempts /\ f.private
      BY <1>4 DEF Judging
    <3> QED BY <1>1, <1>2, <2>2, <2>4, <3>2, <3>3, <3>4, <3>5, CheckedStep
  <2>6. CASE Leaked(i) = {}
    <3>1. cmd' = [cmd EXCEPT ![c] = y] /\ runs' = runs
      BY <2>1, <2>6 DEF Goes
    <3>2. ColdGood(i, s, value) /\ value.plan = w
      <4>1. r.leak \in BOOLEAN /\ ~r.leak
        <5>1. r \in RunRecords /\ x.run \in DOMAIN s
          BY <1>4, ElementOfSeq, LenProperties DEF Judging, SeqGood
        <5> QED BY <2>6, <5>1, RunFacts DEF Leaked
      <4>2. x.run \in 1 .. Len(s) /\ w.state = "plan"
        BY <1>4 DEF Judging
      <4> QED BY <2>0, <4>1, <4>2 DEF ColdGood, Projection
    <3>3. Shaped(y) /\ Like(y, x) /\ y.pc = "write" /\ y.value = value
      <4>1. Shaped(x)
        BY <1>4 DEF Judging
      <4> HIDE DEF value
      <4> QED BY <4>1, WritesShape
    <3> HIDE DEF y, value
    <3>4. y.name = x.name /\ y.plan = x.plan /\ y.attempt = i /\ y.run = x.run
      BY <3>3 DEF Like
    <3>5. i \in Attempts /\ f.private /\ FileGood(i, f, s) /\ s \in Seq(RunRecords)
      BY <1>4 DEF Judging, SeqGood
    <3>6. files'[i] = [f EXCEPT !.checked = k]
      BY <2>2, <3>5 DEF BaseInv, FilesInv
    <3>7. files'[i].private
      BY <2>4, <3>5, <3>6, CheckedGood
    <3>8. CommandGood(y, files'[y.attempt], runs'[y.attempt], plans[y.plan])
      <4>1. x.plan \in PlanPaths /\ x.run \in Nat /\ w # Absent /\ w.state = "plan"
        BY <1>4 DEF Judging
      <4>2. CommandGood(y, files'[i], s, w)
        BY <1>3, <3>2, <3>3, <3>4, <3>5, <3>7, <4>1 DEF CommandGood, ValueGood, Pcs, AtWork
      <4> QED BY <3>1, <3>4, <4>2
    <3>9. y # Idle /\ Earlier(y, files') /\ \A u : Apart(y, u)
      <4>1. y # Idle
        BY <3>3 DEF Idle
      <4> QED BY <3>3, <4>1 DEF Earlier, Apart, Making, AtWork
    <3> HIDE DEF x
    <3> QED BY <1>1, <1>2, <2>2, <2>4, <3>1, <3>5, <3>8, <3>9, CheckedStep
  <2> QED BY <2>5, <2>6
<1> QED BY <1>8, <1>9

\* A cache rerun without a reason against it is the same delivery as the cold run, from the same installation.
LEMMA WarmReasons ==
  ASSUME NEW x, NEW r
  PROVE  LET i == x.attempt
             f == files[i] IN
         /\ WarmReason(x, r) \notin Refusals
         /\ WarmReason(x, r) = "" =>
              /\ Summary(r, plans[x.plan].facts, TRUE) = "" /\ r.installation = f.cold.run.installation
              /\ previousRun[i] # 0 /\ Ids(i)[previousRun[i]] = f.cold.run.id
              /\ Projection(r) = f.cold.projection
<1>1. Summary(r, plans[x.plan].facts, TRUE) \notin Refusals
  BY Summaries
<1>2. WarmReason(x, r) \in {Summary(r, plans[x.plan].facts, TRUE), "run.environment_binding_invalid",
                            "cache_rerun.previous_delivery_drift", "cache_rerun.semantic_drift", ""}
  BY DEF WarmReason
<1>3. WarmReason(x, r) \notin Refusals
  BY <1>1, <1>2 DEF Refusals
<1>4. WarmReason(x, r) = "" =>
              /\ Summary(r, plans[x.plan].facts, TRUE) = "" /\ r.installation = files[x.attempt].cold.run.installation
              /\ previousRun[x.attempt] # 0
              /\ Ids(x.attempt)[previousRun[x.attempt]] = files[x.attempt].cold.run.id
              /\ Projection(r) = files[x.attempt].cold.projection
  BY DEF WarmReason
<1> QED BY <1>3, <1>4

\* What the gate knows when a second run passes.
WarmPasses(i, f, r, w) ==
    /\ Summary(r, w.facts, TRUE) = "" /\ r.installation = f.cold.run.installation
    /\ previousRun[i] # 0 /\ Ids(i)[previousRun[i]] = f.cold.run.id
    /\ Projection(r) = f.cold.projection /\ r.videos = f.cold.run.videos
Three(m) == m = [cold |-> m.cold, previous |-> m.previous, warm |-> m.warm]

\* How it goes on: what is kept of the validator is k, what it writes is value.
WarmFails(c, x, i) ==
    \E reason : /\ reason \notin Refusals /\ Goes(c, FailsWith(x, reason))
                /\ runs' = runs \/ runs' = [runs EXCEPT ![i] = Cleaned(i)]
WarmWrites(c, x, i, f, r, w, k, value) ==
    /\ Goes(c, Writes(x, value)) /\ runs' = runs
    /\ WarmPasses(i, f, r, w) /\ Leaked(i) = {}
    /\ k.previous = Checked(f.cold.run) /\ k.warm = Checked(r)
    /\ Three(value.checked)
    /\ value.checked.cold = f.cold.checked /\ value.checked.previous = k.previous
    /\ value.checked.warm = k.warm
    /\ value = [state |-> "passed", attempt |-> i, plan |-> w, phases |-> Phases(i), cold |-> f.cold.run,
                warm |-> r, projection |-> f.cold.projection, checked |-> value.checked]
WarmEnd(c, x, i, f, r, w, k, value) ==
    /\ Three(k) /\ k.cold = f.checked.cold
    /\ files' = [files EXCEPT ![i] = [f EXCEPT !.checked = k]]
    /\ WarmFails(c, x, i) \/ WarmWrites(c, x, i, f, r, w, k, value)

\* How the verdict on a cache rerun ends: a failure, or the pass to be filed.
LEMMA WarmStep ==
  ASSUME NEW c \in Commands, NEW v, NEW u, JudgeWarm(c, v, u),
         Three(files[cmd[c].attempt].checked)
  PROVE  \E k, value : WarmEnd(c, cmd[c], cmd[c].attempt, files[cmd[c].attempt],
                               runs[cmd[c].attempt][cmd[c].run], plans[cmd[c].plan], k, value)
<1> DEFINE x == cmd[c]
           i == x.attempt
           f == files[i]
           r == runs[i][x.run]
           w == plans[x.plan]
           first  == IF WarmReason(x, r) # "" THEN WarmReason(x, r) ELSE Validation(v)
           second == IF first # "" THEN first ELSE Validation(u)
           reason == IF second # "" THEN second
                     ELSE IF r.videos # f.cold.run.videos THEN "independent_validation.failed"
                     ELSE IF Leaked(i) # {} THEN "credential.evidence_leak" ELSE ""
           previous == IF first = "" THEN Checked(f.cold.run) ELSE f.checked.previous
           warm     == IF second = "" THEN Checked(r) ELSE f.checked.warm
           k == [f.checked EXCEPT !.previous = previous, !.warm = warm]
           checked == [k EXCEPT !.cold = f.cold.checked]
           value == [state |-> "passed", attempt |-> i, plan |-> w, phases |-> Phases(i),
                     cold |-> f.cold.run, warm |-> r, projection |-> f.cold.projection, checked |-> checked]
<1>1. /\ files' = [files EXCEPT ![i].checked = k]
      /\ runs' = IF reason = "credential.evidence_leak" THEN [runs EXCEPT ![i] = Cleaned(i)] ELSE runs
      /\ IF reason # "" THEN Goes(c, FailsWith(x, reason)) ELSE Goes(c, Writes(x, value))
  BY DEF JudgeWarm
<1>2. reason \notin Refusals
  <2>1. WarmReason(x, r) \notin Refusals
    BY WarmReasons
  <2>2. first \notin Refusals
    BY <2>1, Validations
  <2> HIDE DEF first
  <2>3. second \notin Refusals
    BY <2>2, Validations
  <2> HIDE DEF second
  <2> QED BY <2>3 DEF Refusals
<1>3. reason = "" => second = "" /\ r.videos = f.cold.run.videos /\ Leaked(i) = {}
  <2> HIDE DEF second
  <2> QED OBVIOUS
<1>4. second = "" => first = ""
  <2> HIDE DEF first
  <2> QED OBVIOUS
<1>5. first = "" => WarmReason(x, r) = ""
  OBVIOUS
<1>6. WarmReason(x, r) = "" =>
              /\ Summary(r, w.facts, TRUE) = "" /\ r.installation = f.cold.run.installation
              /\ previousRun[i] # 0 /\ Ids(i)[previousRun[i]] = f.cold.run.id
              /\ Projection(r) = f.cold.projection
  BY WarmReasons
<1>7. first = "" => previous = Checked(f.cold.run)
  <2> HIDE DEF first
  <2> QED OBVIOUS
<1>8. second = "" => warm = Checked(r)
  <2> HIDE DEF second
  <2> QED OBVIOUS
<1> HIDE DEF reason, first, second, previous, warm
<1>9. /\ Three(k) /\ k.cold = f.checked.cold /\ k.previous = previous /\ k.warm = warm
      /\ Three(checked) /\ checked.cold = f.cold.checked /\ checked.previous = k.previous /\ checked.warm = k.warm
  <2> DEFINE Of(a, b, e) == [cold |-> a, previous |-> b, warm |-> e]
             Previous(m) == [m EXCEPT !.previous = previous]
             Warm(m) == [m EXCEPT !.warm = warm]
             Cold(m) == [m EXCEPT !.cold = f.cold.checked]
  <2>1. \A a, b, e : /\ Previous(Of(a, b, e)) = Of(a, previous, e) /\ Warm(Of(a, b, e)) = Of(a, b, warm)
                     /\ Cold(Of(a, b, e)) = Of(f.cold.checked, b, e)
    OBVIOUS
  <2>2. PICK a, b, e : f.checked = Of(a, b, e)
    BY DEF Three
  <2>3. k = Warm(Previous(f.checked)) /\ checked = Cold(k)
    OBVIOUS
  <2> HIDE DEF Of, Previous, Warm, Cold, k, checked
  <2>4. k = Of(a, previous, warm)
    BY <2>1, <2>2, <2>3
  <2>5. checked = Of(f.cold.checked, previous, warm)
    BY <2>1, <2>3, <2>4
  <2> QED BY <2>2, <2>4, <2>5 DEF Of, Three
<1> HIDE DEF k, checked
<1>10. files' = [files EXCEPT ![i] = [f EXCEPT !.checked = k]]
  BY <1>1
<1>11. value.checked = checked
  OBVIOUS
<1>12. value = [state |-> "passed", attempt |-> i, plan |-> w, phases |-> Phases(i),
                             cold |-> f.cold.run, warm |-> r, projection |-> f.cold.projection,
                             checked |-> value.checked]
  OBVIOUS
<1> HIDE DEF value, x
<1>13. ASSUME reason # ""
       PROVE  WarmEnd(c, x, i, f, r, w, k, value)
  <2>1. Goes(c, FailsWith(x, reason)) /\ (runs' = runs \/ runs' = [runs EXCEPT ![i] = Cleaned(i)])
    BY <1>1, <1>13
  <2>2. WarmFails(c, x, i)
    BY <1>2, <2>1 DEF WarmFails
  <2> QED BY <1>9, <1>10, <2>2 DEF WarmEnd
<1>14. ASSUME reason = ""
       PROVE  WarmEnd(c, x, i, f, r, w, k, value)
  <2>1. Goes(c, Writes(x, value)) /\ runs' = runs
    BY <1>1, <1>14
  <2>2. second = "" /\ first = "" /\ WarmReason(x, r) = "" /\ Leaked(i) = {}
    BY <1>3, <1>4, <1>5, <1>14
  <2>3. WarmPasses(i, f, r, w)
    BY <1>3, <1>6, <1>14, <2>2 DEF WarmPasses
  <2>4. k.previous = Checked(f.cold.run) /\ k.warm = Checked(r)
    BY <1>7, <1>8, <1>9, <2>2
  <2>5. WarmWrites(c, x, i, f, r, w, k, value)
    BY <1>9, <1>11, <1>12, <2>1, <2>2, <2>3, <2>4 DEF WarmWrites
  <2> QED BY <1>9, <1>10, <2>5 DEF WarmEnd
<1>15. WarmEnd(c, x, i, f, r, w, k, value)
  BY <1>13, <1>14
<1> QED BY <1>15 DEF x

\* The verdict on a cache rerun.
LEMMA JudgeWarmStep ==
  ASSUME BaseInv, NEW c \in Commands, NEW v, NEW u, JudgeWarm(c, v, u)
  PROVE  BaseInv'
<1> DEFINE x == cmd[c]
           i == x.attempt
           f == files[i]
           s == runs[i]
           w == plans[x.plan]
           r == s[x.run]
<1>1. UNCHANGED <<world, plans, torn, cut, sealed, unfiled, left, met, deliveryRun, previousRun>>
  BY DEF JudgeWarm, Disk, Budget
<1>2. WorldInv'
  BY <1>1, SameWorld DEF BaseInv
<1>3. At(c, "judge") /\ x.name = "rerun"
  BY DEF JudgeWarm
<1>4. Judging(x, f, s, w)
  BY <1>3, JudgeIs
<1>5. Three(f.checked)
  BY <1>4 DEF Judging, FileGood, FileShape, Three
<1>6. PICK k, value : WarmEnd(c, x, i, f, r, w, k, value)
  BY <1>5, WarmStep
<1> HIDE DEF x
<1>7. /\ Three(k) /\ files' = [files EXCEPT ![i] = [f EXCEPT !.checked = k]]
      /\ WarmFails(c, x, i) \/ WarmWrites(c, x, i, f, r, w, k, value)
  BY <1>6 DEF WarmEnd
<1>8. k = [cold |-> k.cold, previous |-> k.previous, warm |-> k.warm]
  BY <1>7 DEF Three
<1>9. /\ i \in Attempts /\ f.private /\ FileGood(i, f, s) /\ s \in Seq(RunRecords) /\ Shaped(x)
      /\ x.plan \in PlanPaths /\ x.run \in Nat /\ w # Absent /\ w.state = "plan" /\ x.run \in 1 .. Len(s)
      /\ Reviewed(f, w) /\ f.cold.run.id[2] < x.run /\ SeqGood(i, s)
  BY <1>3, <1>4 DEF Judging, SeqGood
<1>10. CASE WarmFails(c, x, i)
  <2>1. PICK reason : /\ reason \notin Refusals /\ Goes(c, FailsWith(x, reason))
                      /\ runs' = runs \/ runs' = [runs EXCEPT ![i] = Cleaned(i)]
    BY <1>10 DEF WarmFails
  <2> DEFINE z == FailsWith(x, reason)
  <2>2. /\ z # Idle /\ (\A g, t : CommandGood(z, g, t, w)) /\ (\A fs : Earlier(z, fs)) /\ (\A y : Apart(z, y))
    BY <1>3, <1>9, <2>1, FailingGood
  <2>3. z.plan = x.plan
    BY <1>9, FailsShape DEF Like
  <2>4. cmd' = [cmd EXCEPT ![c] = z]
    BY <2>1 DEF Goes
  <2> HIDE DEF z
  <2>5. CommandGood(z, files'[z.attempt], runs'[z.attempt], plans[z.plan]) /\ Earlier(z, files')
    BY <2>2, <2>3
  <2> QED BY <1>1, <1>2, <1>7, <1>8, <1>9, <2>1, <2>2, <2>4, <2>5, CheckedStep
<1>11. CASE WarmWrites(c, x, i, f, r, w, k, value)
  <2> DEFINE y == Writes(x, value)
  <2>1. cmd' = [cmd EXCEPT ![c] = y] /\ runs' = runs
    BY <1>11 DEF WarmWrites, Goes
  <2>2. /\ WarmPasses(i, f, r, w) /\ Leaked(i) = {} /\ value.checked.cold = f.cold.checked
        /\ value = [state |-> "passed", attempt |-> i, plan |-> w, phases |-> Phases(i), cold |-> f.cold.run,
                    warm |-> r, projection |-> f.cold.projection, checked |-> value.checked]
    BY <1>11 DEF WarmWrites
  <2>3. Shaped(y) /\ Like(y, x) /\ y.pc = "write" /\ y.value = value
    BY <1>9, WritesShape
  <2> HIDE DEF y
  <2>4. y.name = x.name /\ y.plan = x.plan /\ y.attempt = i /\ y.run = x.run
    BY <2>3 DEF Like
  <2> DEFINE g == [f EXCEPT !.checked = k]
  <2>5. g.private /\ g.cold = f.cold /\ g.review = f.review
    BY <1>8, <1>9, CheckedGood
  <2>6. files'[i] = g
    BY <1>7, <1>9 DEF BaseInv, FilesInv
  <2>7. r.leak \in BOOLEAN /\ ~r.leak
    <3>1. r \in RunRecords /\ x.run \in DOMAIN s
      BY <1>9, ElementOfSeq, LenProperties
    <3> QED BY <2>2, <3>1, RunFacts DEF Leaked
  <2>8. f.cold.projection = f.cold.run.projection /\ f.cold.state = "cold" /\ f.review.state = "review" /\ f.cold.plan = w
    <3>1. f.cold.state = "cold" /\ f.review.state = "review" /\ f.cold.plan = w
      BY <1>9 DEF Reviewed
    <3>2. ColdGood(i, s, f.cold)
      BY <1>9, <3>1 DEF FileGood, Absent, Half
    <3> QED BY <3>1, <3>2 DEF ColdGood
  <2>9. /\ value.state = "passed" /\ value.attempt = i /\ value.plan = w /\ value.phases = <<f.cold, f.review>>
        /\ value.cold = f.cold.run /\ value.warm = r /\ value.projection = f.cold.projection
    BY <2>2 DEF Phases
  <2> HIDE DEF g
  <2>10. PassGood(i, g, s, value)
    <3>1. Summary(r, w.facts, TRUE) = "" /\ r.installation = f.cold.run.installation
          /\ r.projection = f.cold.projection /\ r.videos = f.cold.run.videos
      BY <2>2 DEF WarmPasses, Projection
    <3>2. \E n \in 1 .. Len(s) : s[n] = value.warm /\ value.cold.id[2] < n
      BY <1>9, <2>9
    <3> QED BY <2>2, <2>5, <2>7, <2>8, <2>9, <3>1, <3>2 DEF PassGood
  <2>11. CommandGood(y, files'[y.attempt], runs'[y.attempt], plans[y.plan])
    <3>1. CommandGood(y, g, s, w)
      BY <1>3, <1>9, <2>3, <2>4, <2>5, <2>9, <2>10 DEF CommandGood, ValueGood, Pcs, AtWork
    <3> QED BY <2>1, <2>4, <2>6, <3>1
  <2>12. y # Idle /\ Earlier(y, files') /\ \A z : Apart(y, z)
    <3>1. y # Idle
      BY <2>3 DEF Idle
    <3> QED BY <2>3, <3>1 DEF Earlier, Apart, Making, AtWork
  <2> QED BY <1>1, <1>2, <1>7, <1>8, <1>9, <2>1, <2>11, <2>12, CheckedStep
<1> QED BY <1>7, <1>10, <1>11

-----------------------------------------------------------------------------
(* The records, the kills and the failures                                  *)

\* A file that is not there can be written.
LEMMA NotTaken ==
  ASSUME NEW i, NEW k \in Kinds, ~Taken(i, k)
  PROVE  Vacant(files[i], k)
BY DEF Taken, Vacant, Kinds

\* What the invariant says of one attempt.
LEMMA SameStays ==
  ASSUME BaseInv, NEW i \in Attempts
  PROVE  /\ FileGood(i, files[i], runs[i]) /\ SeqGood(i, runs[i]) /\ runs[i] \in Seq(RunRecords)
         /\ Len(runs[i]) \in Nat
         /\ files[i].private => files[i].workspace
BY Owned, LenProperties DEF BaseInv, FilesInv, RunsInv, SeqGood

\* What a command has found is filed, or half of it.
LEMMA FilingStep ==
  ASSUME BaseInv, NEW c \in Commands, At(c, "write"), ~Taken(cmd[c].attempt, cmd[c].value.state),
         NEW h, h = cmd[c].value \/ h = Half, Goes(c, Idle),
         files' = [files EXCEPT ![cmd[c].attempt] = Filed(files[cmd[c].attempt], cmd[c].value.state, h)],
         UNCHANGED <<runs, deliveryRun, previousRun, plans, sealed>>, WorldInv'
  PROVE  BaseInv'
<1> DEFINE x == cmd[c]
           i == x.attempt
           f == files[i]
           s == runs[i]
           v == x.value
           g == Filed(f, v.state, h)
<1>1. x.pc = "write" /\ CommandGood(x, f, s, plans[x.plan])
  BY AtIs DEF Pcs
<1>2. i \in Attempts /\ f.private /\ ValueGood(i, f, s, v)
  BY <1>1 DEF CommandGood
<1>3. FileGood(i, f, s) /\ s \in Seq(RunRecords) /\ f.workspace
  BY <1>2, SameStays
<1>4. v.state \in Kinds
  BY <1>2, StateOf
<1>5. Vacant(f, v.state)
  BY <1>4, NotTaken
<1>6. FileGood(i, g, s) /\ Stays(f, s, g, s)
  BY <1>2, <1>3, <1>5, FiledGood
<1>7. cmd' = [cmd EXCEPT ![c] = Idle] /\ files' = [files EXCEPT ![i] = g]
  BY DEF Goes
<1> HIDE DEF g, x
<1> QED BY <1>2, <1>3, <1>6, <1>7, FileStep

\* A command writes its record, or finds another in its place.
LEMMA WriteStep ==
  ASSUME BaseInv, NEW c \in Commands, WriteRecord(c)
  PROVE  BaseInv'
<1> DEFINE x == cmd[c]
<1>1. UNCHANGED <<world, plans, torn, cut, sealed, unfiled, left, met, runs, deliveryRun, previousRun>>
  BY DEF WriteRecord, Disk, Budget, Space
<1>2. WorldInv'
  BY <1>1, SameWorld DEF BaseInv
<1>3. At(c, "write")
  BY DEF WriteRecord
<1>4. CASE Taken(x.attempt, x.value.state)
  <2>1. /\ files' = files
        /\ x.reason # "" => Goes(c, Idle)
        /\ x.reason = "" => Goes(c, FailsWith(x, "attempt.write_failed"))
    BY <1>4 DEF WriteRecord
  <2>2. Quiet
    BY <1>1, <2>1, QuietRuns DEF BaseInv
  <2>3. CASE Goes(c, Idle)
    <3>1. cmd' = [cmd EXCEPT ![c] = Idle]
      BY <2>3 DEF Goes
    <3> QED BY <1>1, <1>2, <2>2, <3>1, QuietStep
  <2>4. CASE Goes(c, FailsWith(x, "attempt.write_failed"))
    <3>1. /\ Shaped(x) /\ x.name \in {"execute", "review", "rerun", "classify"} /\ x.plan \in PlanPaths
          /\ x.run \in Nat /\ plans[x.plan] # Absent
      BY <1>3, AtIs DEF Pcs
    <3>2. "attempt.write_failed" \notin Refusals
      BY DEF Refusals
    <3> HIDE DEF x
    <3> QED BY <1>1, <1>2, <2>2, <2>4, <3>1, <3>2, RefusedStep
  <2> QED BY <2>1, <2>3, <2>4
<1>5. CASE ~Taken(x.attempt, x.value.state)
  <2>1. Goes(c, Idle) /\ files' = [files EXCEPT ![x.attempt] = Filed(files[x.attempt], x.value.state, x.value)]
    BY <1>5 DEF WriteRecord
  <2> QED BY <1>1, <1>2, <1>3, <1>5, <2>1, FilingStep
<1> QED BY <1>4, <1>5

\* A command is killed, at worst with half a file or half a run behind it.
LEMMA KillStep ==
  ASSUME BaseInv, NEW c \in Commands, Kill(c)
  PROVE  BaseInv'
<1>1. /\ UNCHANGED <<world, plans, runs, deliveryRun, previousRun, sealed, met, unfiled>>
      /\ left.kills > 0 /\ left' = [left EXCEPT !.kills = @ - 1] /\ Goes(c, Idle)
      /\ cut' = (cut \/ cmd[c].run # 0) /\ (torn' = TRUE \/ torn' = torn)
  BY DEF Kill, Space
<1>2. WorldInv'
  <2>1. MaxLeft \in Nat /\ left.kills \in 0 .. MaxLeft /\ left.kills > 0
    BY <1>1, GateAssumption DEF BaseInv, WorldInv
  <2>2. left.kills - 1 \in 0 .. MaxLeft
    BY <2>1
  <2>3. left' = [changes |-> left.changes, kills |-> left.kills - 1, overlaps |-> left.overlaps]
    BY <1>1 DEF BaseInv, WorldInv
  <2>4. left' \in [changes : 0 .. MaxLeft, kills : 0 .. MaxLeft, overlaps : 0 .. MaxLeft]
    BY <2>2, <2>3 DEF BaseInv, WorldInv
  <2>5. cut' \in BOOLEAN /\ torn' \in BOOLEAN
    BY <1>1 DEF BaseInv, WorldInv
  <2> QED BY <1>1, <2>4, <2>5 DEF BaseInv, WorldInv
<1>3. CASE files' = files
  <2>1. Quiet
    BY <1>1, <1>3, QuietRuns DEF BaseInv
  <2>2. cmd' = [cmd EXCEPT ![c] = Idle]
    BY <1>1 DEF Goes
  <2> QED BY <1>1, <1>2, <2>1, <2>2, QuietStep
<1>4. CASE /\ At(c, "write") /\ ~Taken(cmd[c].attempt, cmd[c].value.state)
           /\ files' = [files EXCEPT ![cmd[c].attempt] = Filed(files[cmd[c].attempt], cmd[c].value.state, Half)]
  BY <1>1, <1>2, <1>4, FilingStep
<1> QED BY <1>3, <1>4 DEF Kill

\* The failure that is recorded, and the runs it names.
LEMMA FailureIs ==
  ASSUME NEW i \in Attempts, NEW reason, NEW phase,
         FileGood(i, files[i], runs[i]), SeqGood(i, runs[i]),
         phase = "cold_run" => files[i].cold = Absent,
         reason = "run.failed" => \A n \in 1 .. Len(runs[i]) : ~runs[i][n].leak
  PROVE  \/ FailureFact(i, reason, phase) = Rejection
         \/ FailureFact(i, reason, phase) = Away /\ phase = "cold_run" /\ files[i].cold = Absent
            /\ Transient(runs[i]) /\ FailedRuns(i) = <<runs[i][1].id>> /\ reason = "run.failed"
         \/ FailureFact(i, reason, phase) = NoLaunch /\ reason = "independent_validation.launch_failed"
<1> DEFINE s == runs[i]
           ids == FailedRuns(i)
           last == CHOOSE n \in DOMAIN s : s[n].id = ids[Len(ids)]
           away == phase = "cold_run" /\ reason = "run.failed" /\ ids # <<>> /\ s[last].code = "transient"
<1>1. s \in Seq(RunRecords) /\ Len(s) \in Nat /\ DOMAIN s = 1 .. Len(s)
  BY LenProperties DEF SeqGood
<1>2. CASE away
  <2>1. FailureFact(i, reason, phase) = Away
    BY <1>2 DEF FailureFact, Away
  <2>2. files[i].cold = Absent /\ Len(s) <= 1
    BY <1>2 DEF FileGood
  <2>3. ids = [n \in 1 .. Len(s) |-> s[n].id]
    BY <1>1, <2>2 DEF FailedRuns, Ids
  <2>4. Len(s) = 1
    <3>1. CASE Len(s) = 0
      <4>1. 1 .. Len(s) = {}
        BY <3>1
      <4>2. ids = <<>>
        BY <2>3, <4>1
      <4> QED BY <1>2, <4>2
    <3> HIDE DEF s
    <3> QED BY <1>1, <2>2, <3>1
  <2>5. ids = <<s[1].id>>
    BY <2>3, <2>4
  <2>6. last = 1
    <3>1. DOMAIN s = {1}
      BY <1>1, <2>4
    <3>2. s[1].id = ids[Len(ids)]
      BY <2>5
    <3> HIDE DEF ids
    <3> QED BY <3>1, <3>2
  <2>7. s[1].code = "transient" /\ s[1].status = "failed" /\ ~s[1].leak
    <3>0. s[last].code = "transient"
      BY <1>2
    <3> HIDE DEF last
    <3>1. s[1].code = "transient" /\ 1 \in 1 .. Len(s)
      BY <2>4, <2>6, <3>0
    <3> QED BY <1>2, <3>1 DEF SeqGood
  <2>8. Transient(s)
    BY <2>4, <2>7 DEF Transient
  <2> QED BY <1>2, <2>1, <2>2, <2>5, <2>8
<1>3. CASE ~away
  BY <1>3 DEF FailureFact, NoLaunch, Rejection
<1> QED BY <1>2, <1>3

\* A command that turns to the last attempt is otherwise the same.
LEMMA AttemptShape ==
  ASSUME NEW x, Shaped(x), NEW i
  PROVE  LET y == [x EXCEPT !.attempt = i] IN
         /\ Shaped(y) /\ y.name = x.name /\ y.plan = x.plan /\ y.attempt = i /\ y.run = x.run /\ y.reason = x.reason
<1> DEFINE y == [x EXCEPT !.attempt = i]
<1>1. PICK a, b, c, d, h, k, n :
        x = [pc |-> a, name |-> b, plan |-> c, attempt |-> d, reason |-> h, value |-> k, run |-> n]
  BY DEF Shaped
<1>2. y = [pc |-> a, name |-> b, plan |-> c, attempt |-> i, reason |-> h, value |-> k, run |-> n]
  BY <1>1
<1> HIDE DEF y
<1>3. Shaped(y) /\ y.name = x.name /\ y.plan = x.plan /\ y.attempt = i /\ y.run = x.run /\ y.reason = x.reason
  BY <1>1, <1>2 DEF Shaped
<1> QED BY <1>3 DEF y

\* What the handler of a failed command does: it scrubs, and writes down the failure.
FailureOf(x, i, reason, w) ==
    [state |-> "failed", attempt |-> i, plan |-> w, phases |-> Phases(i), phase |-> PhaseOf(i),
     runs |-> FailedRuns(i), failure |-> FailureFact(i, reason, PhaseOf(i))]
Recording(c, x, i, reason) ==
    /\ Holds(x.plan) /\ StateReads(x.plan) /\ Pending # {} /\ PhaseFailed(x, i) /\ ~TooManyRuns(i)
    /\ Goes(c, Writes([x EXCEPT !.attempt = i], FailureOf(x, i, reason, plans[x.plan])))
Noticed(x) == Holds(x.plan) /\ x.name \in {"execute", "rerun"} /\ x.reason \notin Refusals

\* How the recording of a failure ends: with a record to be filed, or with none.
LEMMA RecordIs ==
  ASSUME NEW c \in Commands, RecordFailure(c)
  PROVE  \E reason :
           /\ \/ runs' = runs /\ reason = cmd[c].reason
                 /\ (Noticed(cmd[c]) => \A j \in Attempts : Leaked(j) = {})
              \/ runs' = [j \in Attempts |-> Cleaned(j)] /\ reason = "credential.evidence_leak" /\ Noticed(cmd[c])
           /\ Recording(c, cmd[c], Latest, reason) \/ Goes(c, Idle)
           /\ At(c, "failing")
           /\ UNCHANGED <<world, plans, torn, cut, sealed, left, met, files, deliveryRun, previousRun>>
           /\ (unfiled' <=> (unfiled \/ (cmd[c].run # 0 /\ ~Holds(cmd[c].plan)))) /\ unfiled' \in BOOLEAN
<1> DEFINE x == cmd[c]
           i == Latest
           scanned == Holds(x.plan) /\ x.name \in {"execute", "rerun"} /\ x.reason \notin Refusals
           leak == scanned /\ \E j \in Attempts : Leaked(j) # {}
           reason == IF leak THEN "credential.evidence_leak" ELSE x.reason
<1>1. /\ runs' = IF leak THEN [j \in Attempts |-> Cleaned(j)] ELSE runs
      /\ IF Holds(x.plan) /\ StateReads(x.plan) /\ Pending # {} /\ PhaseFailed(x, i) /\ ~TooManyRuns(i)
         THEN Goes(c, Writes([x EXCEPT !.attempt = i], FailureOf(x, i, reason, plans[x.plan])))
         ELSE Goes(c, Idle)
  BY DEF RecordFailure, FailureOf
<1>2. /\ UNCHANGED <<world, plans, torn, cut, sealed, left, met, files, deliveryRun, previousRun>>
      /\ At(c, "failing")
  BY DEF RecordFailure, Budget
<1>3. (unfiled' <=> (unfiled \/ (x.run # 0 /\ ~Holds(x.plan)))) /\ unfiled' \in BOOLEAN
  <2>1. unfiled' = (unfiled \/ (x.run # 0 /\ ~Holds(x.plan)))
    BY Zenon DEF RecordFailure
  <2>2. (unfiled \/ (x.run # 0 /\ ~Holds(x.plan))) \in BOOLEAN
    BY Zenon
  <2> QED BY <2>1, <2>2, Zenon
<1>4. scanned <=> Noticed(x)
  BY Zenon DEF Noticed
<1>5. CASE leak
  <2>1. reason = "credential.evidence_leak" /\ runs' = [j \in Attempts |-> Cleaned(j)] /\ Noticed(x)
    BY <1>1, <1>4, <1>5
  <2> HIDE DEF leak, reason, x
  <2>2. Recording(c, x, i, reason) \/ Goes(c, Idle)
    BY <1>1, Zenon DEF Recording
  <2> QED BY <1>2, <1>3, <2>1, <2>2, Zenon DEF x
<1>6. CASE ~leak
  <2>1. reason = x.reason /\ runs' = runs /\ (Noticed(x) => \A j \in Attempts : Leaked(j) = {})
    BY <1>1, <1>4, <1>6
  <2> HIDE DEF leak, reason, x
  <2>2. Recording(c, x, i, reason) \/ Goes(c, Idle)
    BY <1>1, Zenon DEF Recording
  <2> QED BY <1>2, <1>3, <2>1, <2>2, Zenon DEF x
<1> QED BY <1>5, <1>6

\* A command that fails goes on to record why, or is over.
LEMMA RecordStep ==
  ASSUME BaseInv, NEW c \in Commands, RecordFailure(c)
  PROVE  BaseInv'
<1> DEFINE x == cmd[c]
           i == Latest
           f == files[i]
           s == runs[i]
           w == plans[x.plan]
<1>1. PICK reason :
           /\ \/ runs' = runs /\ reason = x.reason /\ (Noticed(x) => \A j \in Attempts : Leaked(j) = {})
              \/ runs' = [j \in Attempts |-> Cleaned(j)] /\ reason = "credential.evidence_leak" /\ Noticed(x)
           /\ Recording(c, x, i, reason) \/ Goes(c, Idle)
           /\ At(c, "failing")
           /\ UNCHANGED <<world, plans, torn, cut, sealed, left, met, files, deliveryRun, previousRun>>
           /\ unfiled' \in BOOLEAN
  BY RecordIs
<1>2. WorldInv'
  BY <1>1 DEF BaseInv, WorldInv
<1>3. Quiet
  BY <1>1, QuietRuns DEF BaseInv
<1>4. /\ x.pc = "failing" /\ Shaped(x) /\ x.name \in {"execute", "review", "rerun", "classify"} /\ x.plan \in PlanPaths
      /\ x.run \in Nat /\ w # Absent /\ CommandGood(x, files[x.attempt], runs[x.attempt], w)
  BY <1>1, AtIs DEF Pcs
<1>5. x.reason = "run.failed" => x.name \in {"execute", "rerun"}
  BY <1>4 DEF CommandGood
<1>6. CASE Goes(c, Idle)
  <2>1. cmd' = [cmd EXCEPT ![c] = Idle]
    BY <1>6 DEF Goes
  <2> QED BY <1>1, <1>2, <1>3, <2>1, QuietStep
<1>7. CASE Recording(c, x, i, reason)
  <2> DEFINE z == [x EXCEPT !.attempt = i]
             v == FailureOf(x, i, reason, w)
             y == Writes(z, v)
  <2>1. /\ Holds(x.plan) /\ StateReads(x.plan) /\ Pending # {} /\ cmd' = [cmd EXCEPT ![c] = y]
    BY <1>7 DEF Recording, Goes
  <2>2. i \in Attempts /\ w.state = "plan" /\ AttemptReads(i, x.plan) /\ f.private
    BY <1>4, <2>1, PendingIs
  <2>3. Shaped(z) /\ z.name = x.name /\ z.plan = x.plan /\ z.attempt = i /\ z.run = x.run
    BY <1>4, AttemptShape
  <2>4. v.state = "failed" /\ v.attempt = i /\ v.plan = w /\ v.phase = PhaseOf(i) /\ v.runs = FailedRuns(i)
        /\ v.failure = FailureFact(i, reason, PhaseOf(i))
    BY DEF FailureOf
  <2> HIDE DEF z, v
  <2>5. Shaped(y) /\ Like(y, z) /\ y.pc = "write" /\ y.value = v
    BY <2>3, WritesShape
  <2> HIDE DEF y
  <2>6. y.name = x.name /\ y.plan = x.plan /\ y.attempt = i /\ y.run = x.run
    BY <2>3, <2>5 DEF Like
  <2>7. FileGood(i, f, s) /\ SeqGood(i, s) /\ Len(s) \in Nat /\ s \in Seq(RunRecords)
    BY <2>2, SameStays
  <2>8. PhaseOf(i) = "cold_run" => f.cold = Absent
    BY DEF PhaseOf
  <2>9. reason = "run.failed" => runs' = runs /\ \A n \in 1 .. Len(s) : ~s[n].leak
    <3> HAVE reason = "run.failed"
    <3>1. runs' = runs /\ x.reason = "run.failed" /\ (Noticed(x) => \A j \in Attempts : Leaked(j) = {})
      BY <1>1
    <3>2. Noticed(x)
      BY <1>5, <2>1, <3>1 DEF Noticed, Refusals
    <3>3. Leaked(i) = {}
      BY <2>2, <3>1, <3>2
    <3>4. \A n \in 1 .. Len(s) : s[n].leak \in BOOLEAN
      BY <2>7, RunFacts, ElementOfSeq
    <3>5. DOMAIN s = 1 .. Len(s)
      BY <2>7, LenProperties
    <3> QED BY <3>1, <3>3, <3>4, <3>5 DEF Leaked
  <2>10. \/ v.failure = Rejection
         \/ v.failure = Away /\ v.phase = "cold_run" /\ f.cold = Absent
            /\ Transient(s) /\ v.runs = <<s[1].id>> /\ runs' = runs
         \/ v.failure = NoLaunch
    <3>1. \/ FailureFact(i, reason, PhaseOf(i)) = Rejection
          \/ FailureFact(i, reason, PhaseOf(i)) = Away /\ PhaseOf(i) = "cold_run" /\ f.cold = Absent
             /\ Transient(s) /\ FailedRuns(i) = <<s[1].id>> /\ reason = "run.failed"
          \/ FailureFact(i, reason, PhaseOf(i)) = NoLaunch
      BY <2>2, <2>7, <2>8, <2>9, FailureIs
    <3> QED BY <2>4, <2>9, <3>1
  <2>11. FailGood(i, f, runs'[i], v)
    BY <2>4, <2>10 DEF FailGood
  <2>12. CommandGood(y, files[y.attempt], runs'[y.attempt], plans[y.plan])
    BY <1>4, <2>2, <2>4, <2>5, <2>6, <2>11 DEF CommandGood, ValueGood, Pcs, AtWork
  <2>13. y # Idle /\ Earlier(y, files) /\ \A d \in Commands : Apart(y, cmd[d])
    <3>1. y # Idle
      BY <2>5 DEF Idle
    <3> QED BY <2>5, <3>1 DEF Earlier, Apart, Making, AtWork
  <2> QED BY <1>1, <1>2, <1>3, <2>1, <2>12, <2>13, QuietStep
<1> QED BY <1>1, <1>6, <1>7

-----------------------------------------------------------------------------
(* The first part of the invariant holds always                             *)

\* The first part of the invariant holds in an empty directory.
LEMMA BaseStarts ==
  ASSUME GateInit
  PROVE  BaseInv
<1>1. MaxRuns \in Nat
  BY GateAssumption
<1>2. RunsInv
  <2>1. \A i \in Attempts : runs[i] = <<>> /\ SeqGood(i, runs[i])
    BY <1>1, EmptySeq DEF GateInit, SeqGood
  <2> QED BY <2>1 DEF GateInit, RunsInv
<1>3. WorldInv
  BY DEF GateInit, WorldInv, PlanGood
<1>4. FilesInv
  <2>1. \A i \in Attempts : files[i] = NoAttempt /\ runs[i] = <<>>
    BY DEF GateInit
  <2>2. \A i \in Attempts : FileGood(i, NoAttempt, <<>>) /\ ~NoAttempt.workspace
    <3> DEFINE g == NoAttempt
    <3>1. /\ FileShape(g) /\ ~g.workspace /\ ~g.private
          /\ g.cold = Absent /\ g.review = Absent /\ g.record = Absent /\ g.class = Absent
      BY FreshFields
    <3>2. g = NoAttempt
      OBVIOUS
    <3>3. Len(<<>>) = 0
      OBVIOUS
    <3> HIDE DEF g
    <3>4. \A i \in Attempts : FileGood(i, g, <<>>)
      BY <3>1, <3>2, <3>3 DEF FileGood
    <3> QED BY <3>1, <3>4 DEF g
  <2> QED BY <2>1, <2>2 DEF GateInit, FilesInv
<1>5. CommandsInv /\ SealInv
  BY DEF GateInit, CommandsInv, SealInv
<1> QED BY <1>2, <1>3, <1>4, <1>5 DEF BaseInv

\* The first part of the invariant holds after every step, whoever takes it.
LEMMA BaseHolds ==
  ASSUME BaseInv, [GateNext]_gateVars
  PROVE  BaseInv'
<1>1. CASE UNCHANGED gateVars
  BY <1>1 DEF gateVars, BaseInv, RunsInv, WorldInv, FilesInv, CommandsInv, SealInv, SeqGood, Placed
<1>2. CASE WorldChanges
  BY <1>2, WorldStep
<1>3. CASE \E p \in PlanPaths : PreparePlan(p) \/ \E i \in Attempts : Seal(p, i)
  BY <1>3, PrepareStep, SealStep
<1>4. ASSUME NEW c \in Commands, Step(c)
      PROVE  BaseInv'
  <2>1. CASE \E p \in PlanPaths, k \in Refusals \cup {""} : Execute(c, p, k) \/ Rerun(c, p, k)
    <3>1. \A k \in Refusals \cup {""} : k # "run.failed"
      BY DEF Refusals
    <3> QED BY <2>1, <3>1, ExecuteStep, RerunStep
  <2>2. CASE MakeDirectory(c, "workspace", "private") \/ MakeDirectory(c, "private", "run")
    BY <2>2, DirectoryStep
  <2>3. CASE StartRun(c)
    BY <2>3, StartStep
  <2>4. CASE \E o \in Outcomes : FinishRun(c, o)
    BY <2>4, FinishStep
  <2>5. CASE \E v \in Verdicts : JudgeCold(c, v) \/ \E u \in Verdicts : JudgeWarm(c, v, u)
    BY <2>5, JudgeColdStep, JudgeWarmStep
  <2>6. CASE \E p \in PlanPaths, passed \in BOOLEAN : \E run : Review(c, p, run, passed)
    BY <2>6, ReviewStep
  <2>7. CASE \E p \in PlanPaths, i \in Attempts : \E k : Classify(c, p, i, k)
    BY <2>7, ClassifyStep
  <2>8. CASE WriteRecord(c) \/ Kill(c) \/ RecordFailure(c)
    BY <2>8, WriteStep, KillStep, RecordStep
  <2>9. \/ \E p \in PlanPaths, k \in Refusals \cup {""} : Execute(c, p, k) \/ Rerun(c, p, k)
        \/ MakeDirectory(c, "workspace", "private") \/ MakeDirectory(c, "private", "run")
        \/ StartRun(c)
        \/ \E o \in ColdOutcomes : FinishRun(c, o)
        \/ \E o \in WarmOutcomes : FinishRun(c, o)
        \/ \E v \in Verdicts : JudgeCold(c, v) \/ \E u \in Verdicts : JudgeWarm(c, v, u)
        \/ \E p \in PlanPaths, passed \in BOOLEAN : \E run : Review(c, p, run, passed)
        \/ \E p \in PlanPaths, i \in Attempts : \E k : Classify(c, p, i, k)
        \/ WriteRecord(c) \/ Kill(c) \/ RecordFailure(c)
    BY <1>4, Zenon DEF Step
  <2>10. (\E o \in ColdOutcomes : FinishRun(c, o)) \/ (\E o \in WarmOutcomes : FinishRun(c, o))
         => \E o \in Outcomes : FinishRun(c, o)
    BY DEF Outcomes
  <2> QED BY <2>1, <2>2, <2>3, <2>4, <2>5, <2>6, <2>7, <2>8, <2>9, <2>10
<1> QED BY <1>1, <1>2, <1>3, <1>4 DEF GateNext

-----------------------------------------------------------------------------
(* The directory reads back                                                 *)

\* The three failures that an attempt can have, and their classes.
LEMMA FailureClasses ==
  /\ Rejection.class = "candidate_rejected"
  /\ Away.class = "provider_transient" /\ Away.reason = "run.failed" /\ Away.code = "transient"
  /\ NoLaunch.class = "certified_host_infrastructure" /\ NoLaunch.reason = "independent_validation.launch_failed"
  /\ NoLaunch.code = "independent_validation.launch_failed"
BY DEF Rejection, Away, NoLaunch, Unclassified

\* An attempt whose files name the plan reads back for it.
LEMMA ReadOne ==
  ASSUME BaseInv, NEW p, NEW i \in Attempts, files[i].workspace, Reads(files[i], plans[p])
  PROVE  AttemptReads(i, p)
<1> DEFINE f == files[i]
           s == runs[i]
           w == plans[p]
<1>1. FileGood(i, f, s) /\ SeqGood(i, s) /\ s \in Seq(RunRecords) /\ Len(s) \in Nat
  BY SameStays
<1>2. f.private
  BY DEF Reads
<1>3. f.cold # Absent => ColdGood(i, s, f.cold) /\ f.cold.plan = w
  <2>1. f.cold # Absent => f.cold.state = "cold" /\ f.cold.plan = w
    BY DEF Reads
  <2>2. Half.state = "half"
    BY DEF Half
  <2> QED BY <1>1, <2>1, <2>2 DEF FileGood
<1>4. f.cold # Absent => ColdReads(i, p)
  <2> HAVE f.cold # Absent
  <2>1. ColdGood(i, s, f.cold) /\ f.cold.plan = w
    BY <1>3
  <2>2. PICK n \in 1 .. Len(s) : s[n] = f.cold.run
    BY <2>1 DEF ColdGood
  <2>3. f.cold.run \in RunRecords
    BY <1>1, <2>2, ElementOfSeq
  <2>4. /\ f.cold.run.status = "succeeded" /\ Services(f.cold.run, FALSE) /\ f.cold.run.videos # 0
        /\ f.cold.state = "cold" /\ f.cold.attempt = i
    BY <2>1 DEF ColdGood, Summary
  <2>5. f.cold.run.videos > 0
    <3>1. f.cold.run.videos \in Nat
      BY <2>3, <2>4, RunFacts
    <3> QED BY <2>4, <3>1
  <2>6. Asked(f.cold.run) # {}
    BY <2>4 DEF Services, Capabilities
  <2> QED BY <2>1, <2>4, <2>5, <2>6 DEF ColdReads
<1>5. f.review # Absent => f.cold # Absent /\ ReviewReads(i, p)
  <2> HAVE f.review # Absent
  <2>1. f.review.state = "review" /\ f.review.plan = w
    BY DEF Reads
  <2>2. ReviewGood(i, f, f.review)
    BY <1>1, <2>1 DEF FileGood, Absent, Half
  <2>3. f.cold # Absent
    BY <2>2 DEF ReviewGood, Absent
  <2> QED BY <2>1, <2>2, <2>3 DEF ReviewGood, ReviewReads
<1>6. f.record # Absent => PassReads(i, p) \/ FailReads(i, p)
  <2> HAVE f.record # Absent
  <2>1. /\ f.record.state \in {"passed", "failed"} /\ f.record.plan = w
        /\ f.record.state = "failed" => f.record.phases = <<f.cold, f.review>> /\ f.record.phase = PhaseAt(f)
    BY DEF Reads
  <2>2. f.record # Half
    BY <2>1 DEF Half
  <2>3. CASE PassGood(i, f, s, f.record)
    <3>1. Services(f.record.warm, TRUE)
      BY <2>3 DEF PassGood, Summary
    <3>2. Asked(f.record.warm) = {}
      BY <3>1 DEF Services
    <3>3. f.cold # Absent /\ f.review # Absent
      <4>1. f.cold.state = "cold" /\ f.review.state = "review"
        BY <2>3 DEF PassGood
      <4> QED BY <4>1 DEF Absent
    <3>4. PassReads(i, p)
      BY <2>1, <2>3, <3>2, <3>3 DEF PassGood, PassReads, Phases
    <3> QED BY <3>4
  <2>4. CASE FailGood(i, f, s, f.record)
    <3>1. f.record.state = "failed" /\ f.record.attempt = i
      BY <2>4 DEF FailGood
    <3>2. f.record.phases = Phases(i) /\ f.record.phase = PhaseOf(i)
      BY <2>1, <3>1 DEF Phases, PhaseOf, PhaseAt
    <3>3. FailureReads(f.record.failure, f.record.phase)
      <4>1. \/ f.record.failure = Rejection
            \/ f.record.failure = Away /\ f.record.phase = "cold_run"
            \/ f.record.failure = NoLaunch
        BY <2>4 DEF FailGood
      <4> QED BY <4>1, FailureClasses DEF FailureReads
    <3>4. OriginalReads(i, f.record)
      <4>1. CASE f.record.failure.class = "provider_transient"
        <5>1. f.record.failure = Away /\ Transient(s) /\ f.record.runs = <<s[1].id>>
          BY <2>4, <4>1, FailureClasses DEF FailGood
        <5>2. 1 \in DOMAIN s /\ s[1].status = "failed" /\ s[1].code = "transient"
          BY <1>1, <5>1, LenProperties DEF Transient
        <5>3. f.record.runs # <<>> /\ f.record.runs[Len(f.record.runs)] = s[1].id
          BY <5>1
        <5>4. f.record.failure.code = "transient"
          BY <5>1, FailureClasses
        <5> QED BY <5>2, <5>3, <5>4 DEF OriginalReads
      <4>2. CASE f.record.failure.class # "provider_transient"
        BY <4>2 DEF OriginalReads
      <4> QED BY <4>1, <4>2
    <3> QED BY <2>1, <3>1, <3>2, <3>3, <3>4 DEF FailReads
  <2> QED BY <1>1, <2>2, <2>3, <2>4 DEF FileGood
<1>7. f.class # Absent => ClassReads(i, p)
  <2> HAVE f.class # Absent
  <2>1. f.class.state = "class" /\ f.class.plan = w
    BY DEF Reads
  <2>2. ClassGood(i, f, f.class)
    BY <1>1, <2>1 DEF FileGood, Half
  <2> QED BY <2>1, <2>2 DEF ClassGood, ClassReads, Open
<1> QED BY <1>2, <1>4, <1>5, <1>6, <1>7 DEF AttemptReads

\* The directory reads back for a plan when every attempt does.
LEMMA StateIsRead ==
  ASSUME BaseInv, NEW p
  PROVE  StateReads(p) <=> AllRead(files, plans[p])
<1>1. MaxTries \in Nat /\ Latest \in 0 .. MaxTries
  BY LatestIs, GateAssumption
<1>2. ASSUME AllRead(files, plans[p])
      PROVE  StateReads(p)
  <2>1. \A i \in Attempts : Exists(i) <=> i <= Latest
    BY LatestIs
  <2>2. ASSUME NEW i \in 1 .. Latest
        PROVE  AttemptReads(i, p)
    <3>1. i \in Attempts /\ i <= Latest
      BY <1>1 DEF Attempts
    <3>2. files[i].workspace
      BY <3>1, LatestIs
    <3> QED BY <1>2, <3>1, <3>2, ReadOne DEF AllRead
  <2>3. ASSUME NEW i \in 1 .. (Latest - 1)
        PROVE  files[i].record.state = "failed" /\ files[i].class # Absent
    <3>1. i \in Attempts /\ Latest \in Attempts /\ i < Latest
      BY <1>1 DEF Attempts
    <3>2. files[Latest].workspace
      BY <1>1, <3>1, LatestIs
    <3>3. Excusing(files[i])
      BY <3>1, <3>2 DEF BaseInv, FilesInv
    <3> QED BY <3>3 DEF Excusing, Open
  <2> QED BY <2>1, <2>2, <2>3 DEF StateReads
<1>3. ASSUME StateReads(p), NEW i \in Attempts, files[i].workspace
      PROVE  Reads(files[i], plans[p])
  <2>1. i \in 1 .. Latest
    <3>1. i <= Latest
      BY <1>3, LatestIs
    <3> QED BY <1>1, <3>1 DEF Attempts
  <2>2. AttemptReads(i, p)
    BY <1>3, <2>1 DEF StateReads
  <2> DEFINE f == files[i]
  <2>3. f.cold # Absent => f.cold.state = "cold" /\ f.cold.plan = plans[p]
    BY <2>2 DEF AttemptReads, ColdReads
  <2>4. f.review # Absent => f.review.state = "review" /\ f.review.plan = plans[p]
    BY <2>2 DEF AttemptReads, ReviewReads
  <2>5. f.class # Absent => f.class.state = "class" /\ f.class.plan = plans[p]
    BY <2>2 DEF AttemptReads, ClassReads
  <2>6. f.record # Absent => /\ f.record.state \in {"passed", "failed"} /\ f.record.plan = plans[p]
                             /\ f.record.state = "failed" => /\ f.record.phases = <<f.cold, f.review>>
                                                             /\ f.record.phase = PhaseAt(f)
    <3> HAVE f.record # Absent
    <3>1. PassReads(i, p) \/ FailReads(i, p)
      BY <2>2 DEF AttemptReads
    <3>2. CASE PassReads(i, p)
      BY <3>2 DEF PassReads
    <3>3. CASE FailReads(i, p)
      BY <3>3 DEF FailReads, Phases, PhaseOf, PhaseAt
    <3> QED BY <3>1, <3>2, <3>3
  <2>7. f.private
    BY <2>2 DEF AttemptReads
  <2> HIDE DEF f
  <2>8. Reads(f, plans[p])
    BY <2>3, <2>4, <2>5, <2>6, <2>7, Zenon DEF Reads
  <2> QED BY <2>8 DEF f
<1> QED BY <1>2, <1>3 DEF AllRead

\* Where an attempt is open, none has passed.
LEMMA NonePassed ==
  ASSUME BaseInv, NEW i \in Attempts, files[i].workspace, files[i].record.state # "passed", ~Excusing(files[i])
  PROVE  \A j \in Attempts : files[j].record.state # "passed"
<1> SUFFICES ASSUME NEW j \in Attempts, files[j].record.state = "passed"
             PROVE  FALSE
  OBVIOUS
<1>1. MaxTries \in Nat /\ i \in Nat /\ j \in Nat
  BY GateAssumption DEF Attempts
<1>2. files[j].workspace
  BY SameStays DEF FileGood, NoAttempt, Absent
<1>3. CASE i < j
  BY <1>2, <1>3 DEF BaseInv, FilesInv
<1>4. CASE j < i
  <2>1. Excusing(files[j])
    BY <1>4 DEF BaseInv, FilesInv
  <2> QED BY <2>1 DEF Excusing, Open
<1> QED BY <1>1, <1>3, <1>4


-----------------------------------------------------------------------------
(* One command alone: it starts                                             *)

\* A step of the one command there is, which goes on as y or is over.
LEMMA SoloStep ==
  ASSUME BaseInv, BaseInv', NEW c \in Commands, NEW ACTION y, \A d \in Commands \ {c} : cmd[d] = Idle,
         cmd' = [cmd EXCEPT ![c] = y],
         y # Idle => CommandSolo(y, files', runs'[y.attempt], previousRun'[y.attempt], deliveryRun'[y.attempt],
                                 plans'[y.plan]),
         \A i \in Attempts : FileSolo(files'[i], runs'[i], previousRun'[i], deliveryRun'[i]),
         \A i \in Attempts : files'[i].record.state = "passed" => AllRead(files', files'[i].record.plan),
         LegibleInv'
  PROVE  SoloInv'
<1>1. cmd = [d \in Commands |-> cmd[d]]
  BY DEF BaseInv, CommandsInv
<1>2. \A d \in Commands : cmd'[d] = IF d = c THEN y ELSE Idle
  BY <1>1
<1>3. AloneInv'
  BY <1>2 DEF AloneInv
<1>4. \A d \in Commands : cmd'[d] # Idle => Alone(cmd[d])'
  <2> SUFFICES ASSUME NEW d \in Commands, cmd'[d] # Idle
               PROVE  Alone(cmd[d])'
    OBVIOUS
  <2>1. cmd'[d] = y
    BY <1>2
  <2> QED BY <2>1 DEF Alone
<1> QED BY <1>3, <1>4 DEF SoloInv

\* Where one command works and none have met, it is the only one.
LEMMA Only ==
  ASSUME BaseInv, SoloInv, NEW c \in Commands, cmd[c] # Idle
  PROVE  /\ \A d \in Commands \ {c} : cmd[d] = Idle
         /\ Alone(cmd[c])
BY DEF SoloInv, AloneInv

\* A command that starts without meeting another starts alone.
LEMMA FreeIs ==
  ASSUME BaseInv, NEW c \in Commands, Free(c), ~met'
  PROVE  (\A d \in Commands : cmd[d] = Idle) /\ left' = left /\ met' = met
BY DEF Free

\* The runs that a failure names are still there as the runs grow.
LEMMA NamesStay ==
  ASSUME NEW s, NEW t, NEW v, Len(s) \in Nat, Len(t) \in Nat, Extends(s, t), NamesRuns(s, v)
  PROVE  NamesRuns(t, v)
<1>1. \A n \in 1 .. Len(s) : n \in 1 .. Len(t) /\ t[n].id = s[n].id
  BY DEF Extends
<1>2. CASE \E a \in 1 .. Len(s) : v.runs = <<s[a].id>>
  <2>1. PICK a \in 1 .. Len(s) : v.runs = <<s[a].id>>
    BY <1>2
  <2>2. a \in 1 .. Len(t) /\ v.runs = <<t[a].id>>
    BY <1>1, <2>1
  <2> QED BY <2>2 DEF NamesRuns
<1>3. CASE \E a, b \in 1 .. Len(s) : a # b /\ v.runs = <<s[a].id, s[b].id>>
  <2>1. PICK a \in 1 .. Len(s), b \in 1 .. Len(s) : a # b /\ v.runs = <<s[a].id, s[b].id>>
    BY <1>3
  <2>2. a \in 1 .. Len(t) /\ b \in 1 .. Len(t) /\ v.runs = <<t[a].id, t[b].id>>
    BY <1>1, <2>1
  <2> QED BY <2>1, <2>2 DEF NamesRuns
<1> QED BY <1>2, <1>3 DEF NamesRuns

Softens(s, t) == t = s \/ (Scrubs(s, t) /\ \A n \in 1 .. Len(t) : ~t[n].leak)
\* The runs of an attempt that is only scrubbed still support its files.
LEMMA FileSoloStays ==
  ASSUME NEW f, NEW s, NEW t, Len(s) \in Nat, Len(t) \in Nat, Softens(s, t), NEW kept \in Nat, NEW there \in Nat,
         kept <= Len(s), there <= Len(s), FileSolo(f, s, kept, there)
  PROVE  FileSolo(f, t, kept, there)
<1>1. CASE t = s
  BY <1>1
<1>2. CASE Scrubs(s, t) /\ \A n \in 1 .. Len(t) : ~t[n].leak
  <2>1. Extends(s, t)
    BY <1>2 DEF Scrubs
  <2>2. \A n \in 1 .. Len(s) : t[n].id = s[n].id
    BY <2>1 DEF Extends
  <2>3. \A v : PassSolo(f, s, kept, there, v) => PassSolo(f, t, kept, there, v)
    BY <1>2, <2>2 DEF PassSolo
  <2>4. \A v : FailSolo(s, v) => FailSolo(t, v)
    BY <2>1, NamesStay DEF FailSolo
  <2> QED BY <2>3, <2>4 DEF FileSolo
<1> QED BY <1>1, <1>2 DEF Softens

\* A step that leaves the files alone.
LEMMA StillSolo ==
  ASSUME BaseInv, BaseInv', SoloInv, NEW c \in Commands, NEW ACTION y,
         \A d \in Commands \ {c} : cmd[d] = Idle, cmd' = [cmd EXCEPT ![c] = y],
         cmd[c].pc # "private", UNCHANGED <<files, plans, torn, deliveryRun, previousRun>>,
         \A i \in Attempts : Softens(runs[i], runs'[i]),
         y # Idle => CommandSolo(y, files, runs'[y.attempt], previousRun[y.attempt], deliveryRun[y.attempt],
                                 plans[y.plan])
  PROVE  SoloInv'
<1>1. ASSUME NEW i \in Attempts
      PROVE  FileSolo(files'[i], runs'[i], previousRun'[i], deliveryRun'[i])
  <2>1. FileSolo(files[i], runs[i], previousRun[i], deliveryRun[i])
    BY DEF SoloInv
  <2>2. /\ Len(runs[i]) \in Nat /\ previousRun[i] \in Nat /\ deliveryRun[i] \in Nat
        /\ previousRun[i] <= Len(runs[i]) /\ deliveryRun[i] <= Len(runs[i])
    BY SameStays DEF BaseInv, RunsInv
  <2>3. Len(runs'[i]) \in Nat
    BY LenProperties DEF BaseInv, RunsInv, SeqGood
  <2> QED BY <2>1, <2>2, <2>3, FileSoloStays
<1>2. \A i \in Attempts : files'[i].record.state = "passed" => AllRead(files', files'[i].record.plan)
  BY DEF SoloInv
<1>3. LegibleInv'
  <2>1. LegibleInv
    BY DEF SoloInv
  <2>2. Idle.pc = "idle"
    BY DEF Idle
  <2>3. \A d \in Commands : cmd[d].pc # "private"
    BY <2>2
  <2> QED BY <2>1, <2>3 DEF LegibleInv
<1> QED BY <1>1, <1>2, <1>3, SoloStep

\* A command that fails before it has run anything claims nothing.
LEMMA FailingSolo ==
  ASSUME NEW x, Shaped(x), x.run = 0, NEW reason, reason # "independent_validation.launch_failed"
  PROVE  LET y == FailsWith(x, reason) IN
         \A fs, s, kept, there, w : CommandSolo(y, fs, s, kept, there, w)
<1> DEFINE y == FailsWith(x, reason)
<1>1. Like(y, x) /\ y.pc = "failing" /\ (y.reason = reason \/ y.reason = "other")
  BY FailsShape
<1>2. y.run = 0
  BY <1>1 DEF Like
<1> HIDE DEF y
<1>3. \A fs, s, kept, there, w : CommandSolo(y, fs, s, kept, there, w)
  BY <1>1, <1>2 DEF CommandSolo, AtWork
<1> QED BY <1>3 DEF y

\* A command as it starts.
LEMMA CommandFields ==
  ASSUME NEW name, NEW pc, NEW p, NEW i
  PROVE  LET x == Command(name, pc, p, i) IN
         /\ Shaped(x) /\ x.name = name /\ x.pc = pc /\ x.plan = p /\ x.attempt = i /\ x.run = 0 /\ x # Idle
<1> DEFINE x == Command(name, pc, p, i)
<1>1. Shaped(x) /\ x.name = name /\ x.pc = pc /\ x.plan = p /\ x.attempt = i /\ x.run = 0
  BY DEF Command, Shaped
<1>2. x # Idle
  BY DEF Command, Idle
<1> QED BY <1>1, <1>2

\* No command is refused on entry for the launch of the validator.
LEMMA Reasons ==
  ASSUME NEW p
  PROVE  /\ NewAttemptRefused(p) # "independent_validation.launch_failed"
         /\ PendingRefused(p) # "independent_validation.launch_failed"
<1>1. NewAttemptRefused(p) # "independent_validation.launch_failed"
  BY DEF NewAttemptRefused
<1>2. PendingRefused(p) # "independent_validation.launch_failed"
  BY DEF PendingRefused
<1> QED BY <1>1, <1>2

\* A command that starts where none is at work.
LEMMA SomeCommand ==
  ASSUME BaseInv, NEW c \in Commands, Free(c), ~met', UNCHANGED <<plans, torn, deliveryRun, previousRun, files>>,
         BaseInv', SoloInv, NEW ACTION y, Goes(c, y), \A i \in Attempts : Softens(runs[i], runs'[i]),
         y # Idle => CommandSolo(y, files, runs'[y.attempt], previousRun[y.attempt], deliveryRun[y.attempt],
                                 plans[y.plan])
  PROVE  SoloInv'
<1>1. \A d \in Commands : cmd[d] = Idle
  BY FreeIs
<1>2. cmd[c].pc # "private"
  BY <1>1 DEF Idle
<1>3. cmd' = [cmd EXCEPT ![c] = y]
  BY DEF Goes
<1> QED BY <1>1, <1>2, <1>3, StillSolo

\* An execution that starts alone.
LEMMA ExecuteSolo ==
  ASSUME BaseInv, BaseInv', SoloInv, ~met', NEW c \in Commands, NEW p \in PlanPaths, NEW k,
         k # "independent_validation.launch_failed", Execute(c, p, k)
  PROVE  SoloInv'
<1> DEFINE x == Command("execute", "workspace", p, Latest + 1)
<1>1. /\ Free(c) /\ UNCHANGED <<plans, torn, deliveryRun, previousRun, files, runs>>
      /\ \/ \E reason : reason # "independent_validation.launch_failed" /\ Goes(c, FailsWith(x, reason))
         \/ Starting(p) /\ Goes(c, x)
  <2>1. \/ Goes(c, FailsWith(x, k))
        \/ Goes(c, FailsWith(x, "plan.drift"))
        \/ Goes(c, FailsWith(x, NewAttemptRefused(p)))
        \/ NewAttemptRefused(p) = "" /\ Goes(c, x)
    BY DEF Execute
  <2>2. Free(c) /\ UNCHANGED <<plans, torn, deliveryRun, previousRun, files, runs>>
    BY DEF Execute, Disk, Space
  <2>3. "plan.drift" # "independent_validation.launch_failed"
    OBVIOUS
  <2> QED BY <2>1, <2>2, <2>3, Reasons, Refusing, Zenon
<1>2. Shaped(x) /\ x.name = "execute" /\ x.pc = "workspace" /\ x.plan = p /\ x.attempt = Latest + 1 /\ x.run = 0
  BY CommandFields
<1>3. \A i \in Attempts : Softens(runs[i], runs'[i])
  BY <1>1 DEF Softens
<1> HIDE DEF x
<1>4. CASE \E reason : reason # "independent_validation.launch_failed" /\ Goes(c, FailsWith(x, reason))
  <2>1. PICK reason : reason # "independent_validation.launch_failed" /\ Goes(c, FailsWith(x, reason))
    BY <1>4
  <2> DEFINE y == FailsWith(x, reason)
  <2>2. \A fs, s, kept, there, w : CommandSolo(y, fs, s, kept, there, w)
    BY <1>2, <2>1, FailingSolo
  <2> HIDE DEF y
  <2>3. Goes(c, y)
    BY <2>1 DEF y
  <2> QED BY <1>1, <1>3, <2>2, <2>3, SomeCommand
<1>5. CASE Starting(p) /\ Goes(c, x)
  <2>1. AllRead(files, plans[p])
    BY <1>5, StateIsRead DEF Starting
  <2>2. ~files[Latest + 1].workspace
    <3>1. MaxTries \in Nat /\ Latest \in 0 .. MaxTries
      BY GateAssumption, LatestIs
    <3>2. x # Idle
      BY <1>2 DEF Idle, Shaped
    <3>3. CommandGood(x, files'[x.attempt], runs'[x.attempt], plans'[x.plan])
      <4>1. cmd = [d \in Commands |-> cmd[d]]
        BY DEF BaseInv, CommandsInv
      <4>2. cmd'[c] = x
        BY <1>5, <4>1 DEF Goes
      <4> QED BY <3>2, <4>2 DEF BaseInv, CommandsInv, Placed
    <3>4. Latest + 1 \in Attempts
      BY <1>2, <3>3 DEF CommandGood
    <3>5. files[Latest + 1].workspace <=> Latest + 1 <= Latest
      BY <3>4, LatestIs
    <3> QED BY <3>1, <3>5
  <2>3. \A s, kept, there : CommandSolo(x, files, s, kept, there, plans[p])
    BY <1>2, <2>1, <2>2 DEF CommandSolo, AtWork
  <2> QED BY <1>1, <1>2, <1>3, <1>5, <2>3, SomeCommand
<1> QED BY <1>1, <1>4, <1>5

\* The attempt that a review or a rerun turns to is the last one and has no record.
LEMMA PendingOpen ==
  ASSUME BaseInv, NEW p \in PlanPaths, Holds(p), StateReads(p), Pending # {}
  PROVE  /\ Latest \in Attempts /\ files[Latest].workspace /\ files[Latest].record = Absent
         /\ AllRead(files, plans[p]) /\ Latest \in Pending
         /\ files[Latest].cold # Absent /\ files[Latest].review # Absent => Reviewed(files[Latest], plans[p])
<1>1. MaxTries \in Nat /\ Latest \in 0 .. MaxTries /\ Latest \in Attempts
  BY GateAssumption, LatestIs, PendingIs
<1>2. PICK j \in 1 .. Latest : files[j].record = Absent
  BY DEF Pending
<1>3. j = Latest
  <2>1. j \in 1 .. (Latest - 1) => files[j].record.state = "failed"
    BY DEF StateReads
  <2>2. j \notin 1 .. (Latest - 1)
    BY <1>2, <2>1 DEF Absent
  <2> QED BY <1>1, <2>2
<1>4. files[Latest].workspace
  BY <1>1, LatestIs
<1>5. AllRead(files, plans[p])
  BY StateIsRead
<1>6. Latest \in Pending
  BY <1>2, <1>3 DEF Pending
<1>7. Reads(files[Latest], plans[p])
  BY <1>1, <1>4, <1>5 DEF AllRead
<1>8. files[Latest].cold # Absent /\ files[Latest].review # Absent => Reviewed(files[Latest], plans[p])
  BY <1>7 DEF Reads, Reviewed
<1> QED BY <1>1, <1>2, <1>3, <1>4, <1>5, <1>6, <1>8

\* A review that starts alone.
LEMMA ReviewSolo ==
  ASSUME BaseInv, BaseInv', SoloInv, ~met', NEW c \in Commands, NEW p \in PlanPaths, NEW run, NEW passed \in BOOLEAN,
         Review(c, p, run, passed)
  PROVE  SoloInv'
<1> DEFINE x == Command("review", "write", p, Latest)
           v == [state |-> "review", attempt |-> Latest, plan |-> plans[p], cold |-> files[Latest].cold,
                 run |-> run, clips |-> files[Latest].cold.run.videos]
<1>1. /\ Free(c) /\ UNCHANGED <<plans, torn, deliveryRun, previousRun, files, runs>>
      /\ \/ \E reason : reason # "independent_validation.launch_failed" /\ Goes(c, FailsWith(x, reason))
         \/ /\ Holds(p) /\ StateReads(p) /\ Pending # {}
            /\ files[Latest].review = Absent /\ Goes(c, Writes(x, v))
  <2>1. \/ Goes(c, FailsWith(x, "plan.drift"))
        \/ Goes(c, FailsWith(x, PendingRefused(p)))
        \/ Goes(c, FailsWith(x, "review.required"))
        \/ Goes(c, FailsWith(x, "review.already_recorded"))
        \/ Goes(c, FailsWith(x, "review.binding_invalid"))
        \/ Goes(c, FailsWith(x, "review.failed"))
        \/ /\ Holds(p) /\ PendingRefused(p) = "" /\ files[Latest].review = Absent
           /\ Goes(c, Writes(x, v))
    BY DEF Review
  <2>2. Free(c) /\ UNCHANGED <<plans, torn, deliveryRun, previousRun, files, runs>>
    BY DEF Review, Disk, Space
  <2>3. /\ "plan.drift" # "independent_validation.launch_failed"
        /\ "review.required" # "independent_validation.launch_failed"
        /\ "review.already_recorded" # "independent_validation.launch_failed"
        /\ "review.binding_invalid" # "independent_validation.launch_failed"
        /\ "review.failed" # "independent_validation.launch_failed"
    OBVIOUS
  <2> HIDE DEF v
  <2> QED BY <2>1, <2>2, <2>3, Reasons, Refusing, Zenon
<1>2. Shaped(x) /\ x.name = "review" /\ x.pc = "write" /\ x.plan = p /\ x.attempt = Latest /\ x.run = 0
  BY CommandFields
<1>3. \A i \in Attempts : Softens(runs[i], runs'[i])
  BY <1>1 DEF Softens
<1>4. v.state = "review"
  OBVIOUS
<1> HIDE DEF x, v
<1>5. CASE \E reason : reason # "independent_validation.launch_failed" /\ Goes(c, FailsWith(x, reason))
  <2>1. PICK reason : reason # "independent_validation.launch_failed" /\ Goes(c, FailsWith(x, reason))
    BY <1>5
  <2> DEFINE y == FailsWith(x, reason)
  <2>2. \A fs, s, kept, there, w : CommandSolo(y, fs, s, kept, there, w)
    BY <1>2, <2>1, FailingSolo
  <2> HIDE DEF y
  <2>3. Goes(c, y)
    BY <2>1 DEF y
  <2> QED BY <1>1, <1>3, <2>2, <2>3, SomeCommand
<1>6. CASE /\ Holds(p) /\ StateReads(p) /\ Pending # {}
           /\ files[Latest].review = Absent /\ Goes(c, Writes(x, v))
  <2> DEFINE y == Writes(x, v)
  <2>1. Like(y, x) /\ y.pc = "write" /\ y.value = v
    BY <1>2, WritesShape
  <2>2. AllRead(files, plans[p]) /\ files[Latest].record = Absent
    BY <1>6, PendingOpen
  <2> HIDE DEF y
  <2>3. y.name = "review" /\ y.plan = p /\ y.attempt = Latest
    BY <1>2, <2>1 DEF Like
  <2>4. \A s, kept, there : Fits(y, files[Latest], s, kept, there)
    BY <1>4, <1>6, <2>1, <2>2, <2>3 DEF Fits
  <2>5. \A s, kept, there : CommandSolo(y, files, s, kept, there, plans[p])
    BY <2>1, <2>2, <2>3, <2>4 DEF CommandSolo, AtWork
  <2>6. Goes(c, y)
    BY <1>6 DEF y
  <2> QED BY <1>1, <1>3, <2>3, <2>5, <2>6, SomeCommand
<1> QED BY <1>1, <1>5, <1>6

\* A classification that starts alone.
LEMMA ClassifySolo ==
  ASSUME BaseInv, BaseInv', SoloInv, ~met', NEW c \in Commands, NEW p \in PlanPaths, NEW i \in Attempts, NEW class,
         Classify(c, p, i, class)
  PROVE  SoloInv'
<1> DEFINE x == Command("classify", "write", p, i)
           v == [state |-> "class", attempt |-> i, plan |-> plans[p], record |-> files[i].record, class |-> class]
           y == Writes(x, v)
<1>1. /\ Free(c) /\ UNCHANGED <<plans, torn, deliveryRun, previousRun, files, runs>>
      /\ StateReads(p) /\ files[i].class = Absent /\ Goes(c, y)
  BY DEF Classify, Disk, Space
<1>2. Shaped(x) /\ x.name = "classify" /\ x.pc = "write" /\ x.plan = p /\ x.attempt = i
  BY CommandFields
<1>3. \A j \in Attempts : Softens(runs[j], runs'[j])
  BY <1>1 DEF Softens
<1>4. v.state = "class"
  OBVIOUS
<1> HIDE DEF x, v
<1>5. Like(y, x) /\ y.pc = "write" /\ y.value = v
  BY <1>2, WritesShape
<1> HIDE DEF y
<1>6. y.name = "classify" /\ y.plan = p /\ y.attempt = i
  BY <1>2, <1>5 DEF Like
<1>7. \A s, kept, there : Fits(y, files[i], s, kept, there)
  BY <1>1, <1>4, <1>5, <1>6 DEF Fits
<1>8. AllRead(files, plans[p])
  BY <1>1, StateIsRead
<1>9. \A s, kept, there : CommandSolo(y, files, s, kept, there, plans[p])
  BY <1>5, <1>6, <1>7, <1>8 DEF CommandSolo, AtWork
<1> QED BY <1>1, <1>3, <1>6, <1>9, SomeCommand

\* Runs that are scrubbed are the same runs, without their secrets.
LEMMA SoftenedByCleaning ==
  ASSUME BaseInv, \/ runs' = runs
                  \/ \E a \in Attempts : runs' = [runs EXCEPT ![a] = Cleaned(a)]
                  \/ runs' = [i \in Attempts |-> Cleaned(i)]
  PROVE  \A i \in Attempts : Softens(runs[i], runs'[i])
<1> SUFFICES ASSUME NEW i \in Attempts
             PROVE  Softens(runs[i], runs'[i])
  OBVIOUS
<1>1. Scrubs(runs[i], Cleaned(i)) /\ \A n \in 1 .. Len(runs[i]) : ~Cleaned(i)[n].leak
  BY SameStays, CleanedFacts
<1>2. Len(Cleaned(i)) = Len(runs[i])
  BY <1>1 DEF Scrubs
<1>3. Softens(runs[i], Cleaned(i))
  BY <1>1, <1>2 DEF Softens
<1>4. runs'[i] = runs[i] \/ runs'[i] = Cleaned(i)
  <2>1. runs = [j \in Attempts |-> runs[j]]
    BY DEF BaseInv, RunsInv
  <2> QED BY <2>1
<1> QED BY <1>3, <1>4 DEF Softens

\* A cache rerun that starts alone.
LEMMA RerunSolo ==
  ASSUME BaseInv, BaseInv', SoloInv, ~met', NEW c \in Commands, NEW p \in PlanPaths, NEW k,
         k # "independent_validation.launch_failed", Rerun(c, p, k)
  PROVE  SoloInv'
<1> DEFINE i == Latest
           f == files[i]
           x == Command("rerun", "run", p, i)
           refused == IF k # "" THEN k
                      ELSE IF ~Holds(p) THEN "plan.drift"
                      ELSE IF PendingRefused(p) # "" THEN PendingRefused(p)
                      ELSE IF f.cold = Absent \/ f.review = Absent THEN "review.required" ELSE ""
<1>1. Free(c) /\ UNCHANGED <<plans, torn, files, deliveryRun, previousRun>>
  BY DEF Rerun, Disk
<1>2. refused = "" => Holds(p) /\ StateReads(p) /\ Pending # {} /\ f.cold # Absent /\ f.review # Absent
  BY Refusing
<1>3. refused # "independent_validation.launch_failed"
  BY Reasons
<1>4. /\ runs' = IF refused = "" THEN [runs EXCEPT ![i] = Cleaned(i)] ELSE runs
      /\ IF refused # "" THEN Goes(c, FailsWith(x, refused))
         ELSE IF Leaked(i) # {} THEN Goes(c, FailsWith(x, "credential.evidence_leak"))
         ELSE IF ~Kept(i) THEN Goes(c, FailsWith(x, "cold_run.evidence_drift")) ELSE Goes(c, x)
  BY DEF Rerun
<1>5. Shaped(x) /\ x.name = "rerun" /\ x.pc = "run" /\ x.plan = p /\ x.attempt = i /\ x.run = 0
  BY CommandFields
<1> HIDE DEF x, refused
<1>6. \A j \in Attempts : Softens(runs[j], runs'[j])
  <2>1. CASE refused = ""
    <3>1. i \in Attempts
      BY <1>2, <2>1, PendingOpen
    <3> QED BY <1>4, <2>1, <3>1, SoftenedByCleaning
  <2>2. CASE refused # ""
    BY <1>4, <2>2, SoftenedByCleaning
  <2> QED BY <2>1, <2>2
<1>7. CASE \E reason : reason # "independent_validation.launch_failed" /\ Goes(c, FailsWith(x, reason))
  <2>1. PICK reason : reason # "independent_validation.launch_failed" /\ Goes(c, FailsWith(x, reason))
    BY <1>7
  <2> DEFINE y == FailsWith(x, reason)
  <2>2. \A fs, s, kept, there, w : CommandSolo(y, fs, s, kept, there, w)
    BY <1>5, <2>1, FailingSolo
  <2> HIDE DEF y
  <2>3. Goes(c, y)
    BY <2>1 DEF y
  <2> QED BY <1>1, <1>6, <2>2, <2>3, SomeCommand
<1>8. CASE refused = "" /\ Goes(c, x)
  <2>1. i \in Attempts /\ AllRead(files, plans[p]) /\ f.workspace /\ f.record = Absent /\ Reviewed(f, plans[p])
    BY <1>2, <1>8, PendingOpen
  <2>2. Len(runs'[i]) \in Nat
    BY <2>1, LenProperties DEF BaseInv, RunsInv, SeqGood
  <2>3. \A kept, there : CommandSolo(x, files, runs'[i], kept, there, plans[p])
    BY <1>5, <2>1, <2>2 DEF CommandSolo, AtWork
  <2> QED BY <1>1, <1>5, <1>6, <1>8, <2>3, SomeCommand
<1>9. \/ \E reason : reason # "independent_validation.launch_failed" /\ Goes(c, FailsWith(x, reason))
      \/ refused = "" /\ Goes(c, x)
  BY <1>3, <1>4
<1> QED BY <1>7, <1>8, <1>9

-----------------------------------------------------------------------------
(* One command alone: it makes directories                                  *)

\* One attempt that changes reads back, and so do the others.
LEMMA AllReadWith ==
  ASSUME BaseInv, NEW i \in Attempts, NEW g, files' = [files EXCEPT ![i] = g], NEW w,
         ReadBut(files, w, i), g.workspace => Reads(g, w)
  PROVE  AllRead(files', w)
<1>1. \A j \in Attempts : files'[j] = IF j = i THEN g ELSE files[j]
  BY DEF BaseInv, FilesInv
<1> QED BY <1>1 DEF AllRead, ReadBut

\* c is the only command at work.
Single(c) == \A d \in Commands \ {c} : cmd[d] = Idle
\* A step that changes the files of one attempt.
LEMMA OneFileSolo ==
  ASSUME BaseInv, BaseInv', SoloInv, NEW c \in Commands, NEW ACTION y, Single(c), Goes(c, y),
         NEW i \in Attempts, NEW g, files' = [files EXCEPT ![i] = g], UNCHANGED <<plans, deliveryRun, previousRun>>,
         \A j \in Attempts : Softens(runs[j], runs'[j]),
         y # Idle => CommandSolo(y, files', runs'[y.attempt], previousRun[y.attempt], deliveryRun[y.attempt],
                                 plans[y.plan]),
         FileSolo(g, runs'[i], previousRun[i], deliveryRun[i]),
         \A j \in Attempts : files[j].record.state # "passed",
         g.record.state = "passed" => AllRead(files', g.record.plan),
         NEW p \in PlanPaths, torn' \/ y.pc = "private" \/ (plans[p].state = "plan" /\ AllRead(files', plans[p]))
  PROVE  SoloInv'
<1>0. cmd' = [cmd EXCEPT ![c] = y] /\ \A d \in Commands \ {c} : cmd[d] = Idle
  BY DEF Goes, Single
<1>1. \A j \in Attempts : files'[j] = IF j = i THEN g ELSE files[j]
  BY DEF BaseInv, FilesInv
<1>2. ASSUME NEW j \in Attempts
      PROVE  FileSolo(files'[j], runs'[j], previousRun'[j], deliveryRun'[j])
  <2>1. CASE j = i
    BY <1>1, <2>1
  <2>2. CASE j # i
    <3>1. FileSolo(files[j], runs[j], previousRun[j], deliveryRun[j])
      BY DEF SoloInv
    <3>2. /\ Len(runs[j]) \in Nat /\ previousRun[j] \in Nat /\ deliveryRun[j] \in Nat
          /\ previousRun[j] <= Len(runs[j]) /\ deliveryRun[j] <= Len(runs[j])
      BY SameStays DEF BaseInv, RunsInv
    <3>3. Len(runs'[j]) \in Nat
      BY LenProperties DEF BaseInv, RunsInv, SeqGood
    <3>4. FileSolo(files[j], runs'[j], previousRun[j], deliveryRun[j])
      BY <3>1, <3>2, <3>3, FileSoloStays
    <3> QED BY <1>1, <2>2, <3>4
  <2> QED BY <2>1, <2>2
<1>3. \A j \in Attempts : files'[j].record.state = "passed" => AllRead(files', files'[j].record.plan)
  BY <1>1
<1>4. LegibleInv'
  <2>1. cmd'[c] = y
    BY <1>0 DEF BaseInv, CommandsInv
  <2> QED BY <2>1 DEF LegibleInv
<1>5. y # Idle => CommandSolo(y, files', runs'[y.attempt], previousRun'[y.attempt], deliveryRun'[y.attempt],
                              plans'[y.plan])
  OBVIOUS
<1> QED BY <1>0, <1>2, <1>3, <1>4, <1>5, SoloStep

\* The command at work, as the second part of the invariant knows it.
LEMMA AtSolo ==
  ASSUME BaseInv, SoloInv, NEW c \in Commands, NEW pc \in Pcs, At(c, pc)
  PROVE  LET x == cmd[c] IN
         /\ \A d \in Commands \ {c} : cmd[d] = Idle
         /\ CommandSolo(x, files, runs[x.attempt], previousRun[x.attempt], deliveryRun[x.attempt], plans[x.plan])
<1>1. cmd[c] # Idle
  BY DEF At, Pcs, AtWork, Idle
<1> QED BY <1>1, Only DEF Alone

\* An attempt that has only its directories reads back for every plan.
LEMMA ReadsFresh ==
  /\ ~Entered.private /\ Entered.workspace /\ Entered.record = Absent /\ Entered.cold = Absent /\ Entered.class = Absent
  /\ LET g == Fresh(TRUE, TRUE) IN
     /\ \A w : Reads(g, w)
     /\ g.workspace /\ g.record = Absent /\ g.cold = Absent /\ g.class = Absent
<1> DEFINE g == Fresh(TRUE, TRUE)
<1>1. /\ g.private /\ g.workspace /\ g.cold = Absent /\ g.review = Absent /\ g.record = Absent /\ g.class = Absent
  BY FreshFields
<1>2. /\ ~Entered.private /\ Entered.workspace /\ Entered.record = Absent /\ Entered.cold = Absent
      /\ Entered.class = Absent
  BY FreshFields DEF Entered
<1> HIDE DEF g
<1>3. \A w : Reads(g, w)
  BY <1>1 DEF Reads
<1> QED BY <1>1, <1>2, <1>3 DEF g

\* An attempt with neither a record nor a cold run claims nothing.
LEMMA Blank ==
  ASSUME NEW f, NEW s, NEW kept, NEW there, f.record = Absent, f.cold = Absent
  PROVE  FileSolo(f, s, kept, there)
BY DEF FileSolo, Absent

\* The directories of an attempt, made by the one command there is.
LEMMA DirectorySolo ==
  ASSUME BaseInv, BaseInv', SoloInv, NEW c \in Commands,
         MakeDirectory(c, "workspace", "private") \/ MakeDirectory(c, "private", "run")
  PROVE  SoloInv'
<1> DEFINE x == cmd[c]
           i == x.attempt
           f == files[i]
           w == plans[x.plan]
<1>1. UNCHANGED <<plans, torn, runs, deliveryRun, previousRun>>
  BY DEF MakeDirectory, Disk, Space
<1>2. x.pc \in {"workspace", "private"} /\ At(c, x.pc)
  BY DEF MakeDirectory, At
<1>3. /\ Shaped(x) /\ x.plan \in PlanPaths
      /\ CommandGood(x, f, runs[i], w) /\ Earlier(x, files)
  BY <1>2, AtIs DEF Pcs
<1>4. x.name = "execute" /\ x.run = 0 /\ i \in Attempts /\ w.state = "plan"
  BY <1>2, <1>3 DEF CommandGood
<1>5. /\ \A d \in Commands \ {c} : cmd[d] = Idle
      /\ x.pc = "workspace" => AllRead(files, w) /\ ~f.workspace
      /\ x.pc = "private" => f = Entered /\ ReadBut(files, w, i)
  BY <1>2, AtSolo DEF Pcs, CommandSolo
<1>6. \A j \in Attempts : Softens(runs[j], runs'[j])
  BY <1>1 DEF Softens
<1>7. /\ FileGood(i, f, runs[i]) /\ runs[i] \in Seq(RunRecords) /\ Len(runs[i]) \in Nat
      /\ i \in Nat /\ MaxTries \in Nat
  BY <1>4, SameStays, GateAssumption DEF Attempts
<1>8. CASE x.pc = "workspace"
  <2> DEFINE y == On(c, "private")
             g == [f EXCEPT !.workspace = TRUE]
  <2>1. files' = [files EXCEPT ![i] = g] /\ Goes(c, y)
    BY <1>5, <1>8 DEF MakeDirectory, At
  <2>2. g = Entered
    BY <1>5, <1>7, <1>8, MadeGood
  <2>3. Like(y, x) /\ y.pc = "private"
    BY <1>3, OnShape DEF On
  <2> HIDE DEF y, g
  <2>4. y.name = "execute" /\ y.attempt = i /\ y.run = 0 /\ y.plan = x.plan
    BY <1>4, <2>3 DEF Like
  <2>5. \A j \in Attempts : files'[j] = IF j = i THEN g ELSE files[j]
    BY <2>1 DEF BaseInv, FilesInv
  <2>6. ReadBut(files', w, i)
    BY <1>5, <1>8, <2>5 DEF ReadBut, AllRead
  <2>7. \A s, kept, there : CommandSolo(y, files', s, kept, there, w)
    BY <1>4, <2>2, <2>3, <2>4, <2>5, <2>6 DEF CommandSolo, AtWork
  <2>8. \A j \in Attempts : files[j].record.state # "passed"
    <3> SUFFICES ASSUME NEW j \in Attempts, files[j].record.state = "passed"
                 PROVE  FALSE
      OBVIOUS
    <3>1. files[j].workspace
      BY SameStays DEF FileGood, NoAttempt, Absent
    <3>2. j \in Nat
      BY DEF Attempts
    <3>3. CASE j < i
      <4>1. Excusing(files[j])
        BY <1>3, <1>8, <3>3 DEF Earlier
      <4> QED BY <4>1 DEF Excusing, Open
    <3>4. CASE i < j
      <4>1. f.workspace
        BY <1>4, <3>1, <3>4 DEF BaseInv, FilesInv
      <4> QED BY <1>5, <1>8, <4>1
    <3>5. CASE i = j
      BY <1>5, <1>8, <3>1, <3>5
    <3> QED BY <1>7, <3>2, <3>3, <3>4, <3>5
  <2>9. \A s, kept, there : FileSolo(g, s, kept, there)
    BY <2>2, ReadsFresh, Blank
  <2>10. g.record.state # "passed"
    BY <2>2, ReadsFresh DEF Absent
  <2>11. Single(c)
    BY <1>5 DEF Single
  <2> HIDE DEF x
  <2> QED BY <1>1, <1>3, <1>4, <1>5, <1>6, <2>1, <2>3, <2>4, <2>7, <2>8, <2>9, <2>10, <2>11, OneFileSolo
<1>9. CASE x.pc = "private"
  <2> DEFINE y == On(c, "run")
             g == [f EXCEPT !.private = TRUE]
  <2>0. f = Entered /\ ~f.private /\ f.workspace /\ f.record = Absent /\ f.cold = Absent /\ f.class = Absent
    BY <1>5, <1>9, ReadsFresh
  <2>1. files' = [files EXCEPT ![i] = g] /\ Goes(c, y)
    BY <1>9, <2>0 DEF MakeDirectory, At
  <2>2. g = Fresh(TRUE, TRUE)
    BY <1>7, <2>0, MadeGood
  <2>3. Like(y, x) /\ y.pc = "run"
    BY <1>3, OnShape DEF On
  <2> HIDE DEF y, g
  <2>4. y.name = "execute" /\ y.attempt = i /\ y.run = 0 /\ y.plan = x.plan
    BY <1>4, <2>3 DEF Like
  <2>5. \A j \in Attempts : files'[j] = IF j = i THEN g ELSE files[j]
    BY <2>1 DEF BaseInv, FilesInv
  <2>6. Reads(g, w) /\ g.workspace /\ g.record = Absent /\ g.cold = Absent
    BY <2>2, ReadsFresh
  <2>7. AllRead(files', w)
    BY <1>4, <1>5, <1>9, <2>1, <2>6, AllReadWith
  <2>8. \A kept, there : CommandSolo(y, files', runs[i], kept, there, w)
    BY <1>4, <1>7, <2>3, <2>4, <2>5, <2>6, <2>7 DEF CommandSolo, AtWork
  <2>9. \A j \in Attempts : files[j].record.state # "passed"
    <3>1. files[i].record.state # "passed" /\ ~Excusing(files[i])
      BY <2>0 DEF Excusing, Absent
    <3> QED BY <1>4, <2>0, <3>1, NonePassed
  <2>10. \A s, kept, there : FileSolo(g, s, kept, there)
    BY <2>6, Blank
  <2>11. g.record.state # "passed"
    BY <2>6 DEF Absent
  <2>12. Single(c)
    BY <1>5 DEF Single
  <2> HIDE DEF x
  <2> QED BY <1>1, <1>3, <1>4, <1>5, <1>6, <2>1, <2>3, <2>4, <2>7, <2>8, <2>9, <2>10, <2>11, <2>12, OneFileSolo
<1> QED BY <1>2, <1>8, <1>9

-----------------------------------------------------------------------------
(* One command alone: it runs, judges, writes and fails                     *)

\* The runs of an attempt without a record may change.
LEMMA OpenFile ==
  ASSUME NEW f, NEW s, NEW kept, NEW there, NEW t, NEW old, NEW now, FileSolo(f, s, kept, there), f.record = Absent
  PROVE  FileSolo(f, t, old, now)
BY DEF FileSolo, Absent

\* A step of a run, which changes the workspace of an attempt that is open.
LEMMA RunSolo ==
  ASSUME BaseInv, BaseInv', SoloInv, NEW c \in Commands, NEW ACTION y,
         \A d \in Commands \ {c} : cmd[d] = Idle, cmd' = [cmd EXCEPT ![c] = y],
         cmd[c].pc # "private", UNCHANGED <<files, plans, torn>>, NEW i \in Attempts, files[i].record = Absent,
         \A j \in Attempts \ {i} : runs'[j] = runs[j] /\ previousRun'[j] = previousRun[j]
                                   /\ deliveryRun'[j] = deliveryRun[j],
         y # Idle => CommandSolo(y, files, runs'[y.attempt], previousRun'[y.attempt], deliveryRun'[y.attempt],
                                 plans[y.plan])
  PROVE  SoloInv'
<1>1. ASSUME NEW j \in Attempts
      PROVE  FileSolo(files'[j], runs'[j], previousRun'[j], deliveryRun'[j])
  <2>1. FileSolo(files[j], runs[j], previousRun[j], deliveryRun[j])
    BY DEF SoloInv
  <2>2. CASE j = i
    BY <2>1, <2>2, OpenFile
  <2>3. CASE j # i
    BY <2>1, <2>3
  <2> QED BY <2>2, <2>3
<1>2. \A j \in Attempts : files'[j].record.state = "passed" => AllRead(files', files'[j].record.plan)
  BY DEF SoloInv
<1>3. LegibleInv'
  <2>1. LegibleInv
    BY DEF SoloInv
  <2>2. Idle.pc = "idle"
    BY DEF Idle
  <2>3. \A d \in Commands : cmd[d].pc # "private"
    BY <2>2
  <2> QED BY <2>1, <2>3 DEF LegibleInv
<1>4. y # Idle => CommandSolo(y, files', runs'[y.attempt], previousRun'[y.attempt], deliveryRun'[y.attempt],
                              plans'[y.plan])
  OBVIOUS
<1> QED BY <1>1, <1>2, <1>3, <1>4, SoloStep

\* What a command at work knows of its attempt.
LEMMA WorkingIs ==
  ASSUME BaseInv, SoloInv, NEW c \in Commands, NEW pc \in AtWork, At(c, pc)
  PROVE  LET x == cmd[c]
             f == files[x.attempt] IN
         /\ \A d \in Commands \ {c} : cmd[d] = Idle
         /\ x.attempt \in Attempts /\ f.workspace /\ f.private /\ f.record = Absent /\ AllRead(files, plans[x.plan])
         /\ Shaped(x) /\ x.pc = pc /\ x.plan \in PlanPaths /\ plans[x.plan].state = "plan"
         /\ x.name \in {"execute", "rerun"}
         /\ x.name = "execute" => f.cold = Absent
         /\ x.name = "rerun"   => Reviewed(f, plans[x.plan])
         /\ x.run \in Nat /\ x.run <= Len(runs[x.attempt])
         /\ pc \in {"running", "judge"} => x.run \in 1 .. Len(runs[x.attempt])
         /\ \A j \in Attempts : files[j].record.state # "passed"
<1> DEFINE x == cmd[c]
           f == files[x.attempt]
<1>1. pc \in Pcs /\ x.pc = pc
  BY DEF AtWork, Pcs, At
<1>2. /\ \A d \in Commands \ {c} : cmd[d] = Idle
      /\ CommandSolo(x, files, runs[x.attempt], previousRun[x.attempt], deliveryRun[x.attempt], plans[x.plan])
  BY <1>1, AtSolo
<1>3. /\ AllRead(files, plans[x.plan]) /\ x.attempt \in Attempts /\ f.workspace /\ f.record = Absent
      /\ x.run <= Len(runs[x.attempt]) /\ x.name \in {"execute", "rerun"}
      /\ x.name = "execute" => f.cold = Absent
      /\ x.name = "rerun"   => Reviewed(f, plans[x.plan])
  BY <1>1, <1>2 DEF CommandSolo
<1>4. /\ Shaped(x) /\ x.plan \in PlanPaths /\ x.run \in Nat
      /\ CommandGood(x, f, runs[x.attempt], plans[x.plan])
  BY <1>1, AtIs
<1>5. plans[x.plan].state = "plan" /\ f.private
      /\ (pc \in {"running", "judge"} => x.run \in 1 .. Len(runs[x.attempt]))
  BY <1>1, <1>4 DEF CommandGood, AtWork
<1>6. f.record.state # "passed" /\ ~Excusing(f)
  BY <1>3 DEF Excusing, Open, Absent
<1>7. \A j \in Attempts : files[j].record.state # "passed"
  BY <1>3, <1>6, NonePassed
<1> QED BY <1>1, <1>2, <1>3, <1>4, <1>5, <1>7

\* What starting a run changes.
LEMMA StartIs ==
  ASSUME BaseInv, BaseInv', SoloInv, NEW c \in Commands, StartRun(c)
  PROVE  LET x == cmd[c]
             i == x.attempt
             y == [On(c, "running") EXCEPT !.run = Len(runs[i]) + 1] IN
         /\ Goes(c, y) /\ Shaped(y) /\ y.name = x.name /\ y.plan = x.plan /\ y.attempt = i
         /\ y.run = Len(runs[i]) + 1 /\ y.pc = "running"
         /\ Len(runs[i]) \in Nat /\ Len(runs'[i]) = Len(runs[i]) + 1 /\ \A j \in Attempts \ {i} : runs'[j] = runs[j]
<1> DEFINE x == cmd[c]
           i == x.attempt
           f == files[i]
           w == plans[x.plan]
           y == [On(c, "running") EXCEPT !.run = Len(runs[i]) + 1]
<1>1. At(c, "run") /\ UNCHANGED <<plans, torn, files, deliveryRun, previousRun>>
  BY DEF StartRun, Disk
<1>2. "run" \in AtWork
  BY DEF AtWork
<1>3. /\ \A d \in Commands \ {c} : cmd[d] = Idle
      /\ i \in Attempts /\ f.workspace /\ f.private /\ f.record = Absent /\ AllRead(files, w)
      /\ Shaped(x) /\ x.pc = "run" /\ x.plan \in PlanPaths /\ w.state = "plan" /\ x.name \in {"execute", "rerun"}
      /\ x.name = "execute" => f.cold = Absent
      /\ x.name = "rerun"   => Reviewed(f, w)
  BY <1>1, <1>2, WorkingIs
<1>4. ~Running(i)
  <2>1. \A d \in Commands : ~At(d, "running")
    BY <1>3 DEF At, Idle
  <2> QED BY <2>1 DEF Running
<1>5. PICK r : runs' = [runs EXCEPT ![i] = Append(runs[i], r)]
  BY <1>4 DEF StartRun
<1>6. Goes(c, y)
  BY <1>4 DEF StartRun
<1>7. Shaped(y) /\ y.name = x.name /\ y.plan = x.plan /\ y.attempt = i /\ y.run = Len(runs[i]) + 1 /\ y.pc = "running"
  <2> DEFINE z == On(c, "running")
  <2>1. Shaped(z) /\ Like(z, x) /\ z.pc = "running"
    BY <1>3, OnShape DEF On
  <2> HIDE DEF z
  <2>2. LET u == [z EXCEPT !.run = Len(runs[i]) + 1] IN
        Shaped(u) /\ u.name = z.name /\ u.plan = z.plan /\ u.attempt = z.attempt
        /\ u.run = Len(runs[i]) + 1 /\ u.pc = z.pc
    BY <2>1, RunningShape
  <2> QED BY <2>1, <2>2 DEF z, Like
<1>8. runs'[i] = Append(runs[i], r) /\ (\A j \in Attempts \ {i} : runs'[j] = runs[j])
  BY <1>3, <1>5 DEF BaseInv, RunsInv
<1>9. runs[i] \in Seq(RunRecords) /\ Len(runs[i]) \in Nat
  BY <1>3, SameStays
<1>10. Len(runs'[i]) = Len(runs[i]) + 1
  <2>1. runs'[i] \in Seq(RunRecords)
    BY <1>3 DEF BaseInv, RunsInv, SeqGood
  <2>2. Len(runs[i]) + 1 <= Len(runs'[i])
    BY <1>8, <1>9
  <2> QED BY <1>8, <1>9
<1> QED BY <1>6, <1>7, <1>8, <1>9, <1>10

\* The one command there is starts its run.
LEMMA StartSolo ==
  ASSUME BaseInv, BaseInv', SoloInv, NEW c \in Commands, StartRun(c)
  PROVE  SoloInv'
<1> DEFINE x == cmd[c]
           i == x.attempt
           f == files[i]
           w == plans[x.plan]
<1>1. At(c, "run") /\ UNCHANGED <<plans, torn, files, deliveryRun, previousRun>>
  BY DEF StartRun, Disk
<1>2. "run" \in AtWork
  BY DEF AtWork
<1>3. /\ \A d \in Commands \ {c} : cmd[d] = Idle
      /\ i \in Attempts /\ f.workspace /\ f.private /\ f.record = Absent /\ AllRead(files, w)
      /\ Shaped(x) /\ x.pc = "run" /\ x.plan \in PlanPaths /\ w.state = "plan" /\ x.name \in {"execute", "rerun"}
      /\ x.name = "execute" => f.cold = Absent
      /\ x.name = "rerun"   => Reviewed(f, w)
  BY <1>1, <1>2, WorkingIs
<1>4. PICK y : /\ Goes(c, y) /\ y.name = x.name /\ y.plan = x.plan /\ y.attempt = i
               /\ y.run = Len(runs[i]) + 1 /\ y.pc = "running" /\ Len(runs[i]) \in Nat
               /\ Len(runs'[i]) = Len(runs[i]) + 1 /\ \A j \in Attempts \ {i} : runs'[j] = runs[j]
  BY StartIs
<1>5. y.pc # "judge" /\ y.pc # "failing" /\ y.pc # "write" /\ y.pc # "workspace" /\ y.pc # "private" /\ y.pc \in AtWork
  BY <1>4 DEF AtWork
<1>6. \A kept, there : CommandSolo(y, files, runs'[i], kept, there, w)
  BY <1>3, <1>4, <1>5 DEF CommandSolo
<1>7. cmd' = [cmd EXCEPT ![c] = y] /\ x.pc # "private"
  BY <1>3, <1>4 DEF Goes
<1> HIDE DEF x
<1> QED BY <1>1, <1>3, <1>4, <1>6, <1>7, RunSolo DEF x

\* The run of the one command there is ends.
LEMMA FinishSolo ==
  ASSUME BaseInv, BaseInv', SoloInv, NEW c \in Commands, NEW o \in Outcomes, FinishRun(c, o)
  PROVE  SoloInv'
<1> DEFINE x == cmd[c]
           i == x.attempt
           n == x.run
           f == files[i]
           w == plans[x.plan]
           r == [id |-> runs[i][n].id, status |-> o.status, code |-> o.code, inputs |-> runs[i][n].inputs,
                 candidate |-> runs[i][n].candidate, installation |-> runs[i][n].installation,
                 contract |-> o.contract, requests |-> o.requests, cache |-> o.cache, videos |-> o.videos,
                 projection |-> o.projection, leak |-> o.leak]
           y == On(c, "judge")
<1>1. At(c, "running") /\ UNCHANGED <<plans, torn, files>> /\ Goes(c, y)
  BY DEF FinishRun, Disk
<1>2. "running" \in AtWork
  BY DEF AtWork
<1>3. /\ \A d \in Commands \ {c} : cmd[d] = Idle
      /\ i \in Attempts /\ f.workspace /\ f.private /\ f.record = Absent /\ AllRead(files, w)
      /\ Shaped(x) /\ x.pc = "running" /\ x.plan \in PlanPaths /\ w.state = "plan" /\ x.name \in {"execute", "rerun"}
      /\ x.name = "execute" => f.cold = Absent
      /\ x.name = "rerun"   => Reviewed(f, w)
      /\ n \in Nat /\ n \in 1 .. Len(runs[i])
  BY <1>1, <1>2, WorkingIs
<1>4. runs' = [runs EXCEPT ![i] = [runs[i] EXCEPT ![n] = r]] /\ r.status = o.status
  BY DEF FinishRun
<1> HIDE DEF r
<1>5. runs[i] \in Seq(RunRecords) /\ Len(runs[i]) \in Nat
  BY <1>3, SameStays
<1>6. runs'[i] = [runs[i] EXCEPT ![n] = r] /\ (\A j \in Attempts \ {i} : runs'[j] = runs[j])
  BY <1>3, <1>4 DEF BaseInv, RunsInv
<1>7. Len(runs'[i]) = Len(runs[i]) /\ runs'[i][n] = r
  BY <1>3, <1>5, <1>6
<1>8. /\ \A j \in Attempts \ {i} : previousRun'[j] = previousRun[j] /\ deliveryRun'[j] = deliveryRun[j]
      /\ o.status = "succeeded" => deliveryRun'[i] = n
  <2>1. IF o.status = "succeeded"
        THEN deliveryRun' = [deliveryRun EXCEPT ![i] = n] /\ previousRun' = [previousRun EXCEPT ![i] = deliveryRun[i]]
        ELSE UNCHANGED <<deliveryRun, previousRun>>
    BY DEF FinishRun
  <2> QED BY <1>3, <2>1 DEF BaseInv, RunsInv
<1>9. Like(y, x) /\ y.pc = "judge"
  BY <1>3, OnShape DEF On
<1> HIDE DEF y
<1>10. y.name = x.name /\ y.plan = x.plan /\ y.attempt = i /\ y.run = n
  BY <1>9 DEF Like
<1>11. \A kept : CommandSolo(y, files, runs'[i], kept, deliveryRun'[i], w)
  BY <1>3, <1>4, <1>7, <1>8, <1>9, <1>10 DEF CommandSolo, AtWork
<1>12. cmd' = [cmd EXCEPT ![c] = y] /\ cmd[c].pc # "private"
  BY <1>1, <1>3 DEF Goes
<1>13. CommandSolo(y, files, runs'[y.attempt], previousRun'[y.attempt], deliveryRun'[y.attempt], plans[y.plan])
  BY <1>10, <1>11
<1> HIDE DEF x, i
<1> QED BY <1>1, <1>3, <1>6, <1>8, <1>12, <1>13, RunSolo

\* A command that fails over its run still knows its attempt.
LEMMA FailedAtWork ==
  ASSUME NEW x, Shaped(x), NEW reason, NEW fs, NEW s, NEW w, AllRead(fs, w), x.attempt \in Attempts,
         fs[x.attempt].workspace, fs[x.attempt].record = Absent, x.run # 0, x.run <= Len(s),
         x.name \in {"execute", "rerun"}, x.name = "execute" => fs[x.attempt].cold = Absent,
         x.name = "rerun" => Reviewed(fs[x.attempt], w)
  PROVE  LET y == FailsWith(x, reason) IN
         y.attempt = x.attempt /\ y.plan = x.plan /\ \A kept, there : CommandSolo(y, fs, s, kept, there, w)
<1> DEFINE y == FailsWith(x, reason)
<1>1. Like(y, x) /\ y.pc = "failing"
  BY FailsShape
<1> HIDE DEF y
<1>2. y.name = x.name /\ y.plan = x.plan /\ y.attempt = x.attempt /\ y.run = x.run
  BY <1>1 DEF Like
<1>3. \A kept, there : CommandSolo(y, fs, s, kept, there, w)
  BY <1>1, <1>2 DEF CommandSolo, AtWork
<1> QED BY <1>2, <1>3 DEF y

\* A command that goes on to write knows what it writes to fit its attempt.
LEMMA WrittenSolo ==
  ASSUME NEW x, Shaped(x), NEW v, NEW fs, NEW s, NEW kept, NEW there, NEW w, AllRead(fs, w),
         \A y : y.value = v /\ y.name = x.name => Fits(y, fs[x.attempt], s, kept, there)
  PROVE  LET y == Writes(x, v) IN
         y.attempt = x.attempt /\ y.plan = x.plan /\ CommandSolo(y, fs, s, kept, there, w)
<1> DEFINE y == Writes(x, v)
<1>1. Like(y, x) /\ y.pc = "write" /\ y.value = v
  BY WritesShape
<1> HIDE DEF y
<1>2. y.name = x.name /\ y.plan = x.plan /\ y.attempt = x.attempt
  BY <1>1 DEF Like
<1>3. CommandSolo(y, fs, s, kept, there, w)
  BY <1>1, <1>2 DEF CommandSolo, AtWork
<1> QED BY <1>2, <1>3 DEF y

\* g is f with other validations; the one of the cold run is the one that was filed.
Rejudged(f, g) ==
    /\ g.cold.state = "cold" => g.checked.cold = g.cold.checked
    /\ g.cold = f.cold /\ g.review = f.review /\ g.record = f.record /\ g.class = f.class
    /\ g.workspace = f.workspace /\ g.private = f.private
\* A verdict, which rewrites what the attempt keeps of the validator.
LEMMA CheckedSolo ==
  ASSUME BaseInv, BaseInv', SoloInv, NEW c \in Commands, At(c, "judge"), NEW i, i = cmd[c].attempt, NEW g,
         Rejudged(files[i], g), files' = [files EXCEPT ![i] = g],
         runs' = runs \/ runs' = [runs EXCEPT ![i] = Cleaned(i)],
         UNCHANGED <<plans, torn, deliveryRun, previousRun>>, NEW ACTION y, Goes(c, y),
         CommandSolo(y, files', runs'[y.attempt], previousRun[y.attempt], deliveryRun[y.attempt], plans[y.plan])
  PROVE  SoloInv'
<1> DEFINE x == cmd[c]
           f == files[i]
           w == plans[x.plan]
<1>1. "judge" \in AtWork
  BY DEF AtWork
<1>2. /\ \A d \in Commands \ {c} : cmd[d] = Idle
      /\ i \in Attempts /\ f.workspace /\ f.private /\ f.record = Absent /\ AllRead(files, w)
      /\ Shaped(x) /\ x.pc = "judge" /\ x.plan \in PlanPaths /\ w.state = "plan" /\ x.name \in {"execute", "rerun"}
      /\ x.name = "execute" => f.cold = Absent
      /\ x.name = "rerun"   => Reviewed(f, w)
      /\ x.run \in 1 .. Len(runs[i]) /\ \A j \in Attempts : files[j].record.state # "passed"
  BY <1>1, WorkingIs
<1>3. FileGood(i, f, runs[i]) /\ runs[i] \in Seq(RunRecords) /\ Len(runs[i]) \in Nat
  BY <1>2, SameStays
<1>4. /\ g.cold = f.cold /\ g.review = f.review /\ g.record = f.record /\ g.class = f.class
      /\ g.workspace = f.workspace /\ g.private = f.private
  BY DEF Rejudged
<1>5. Reads(f, w)
  BY <1>2 DEF AllRead
<1>6. Reads(g, w)
  BY <1>4, <1>5 DEF Reads, PhaseAt
<1>8. AllRead(files', w)
  <2>1. ReadBut(files, w, i)
    BY <1>2 DEF AllRead, ReadBut
  <2> HIDE DEF x
  <2> QED BY <1>2, <1>6, <2>1, AllReadWith
<1>9. files'[i] = g
  BY <1>2 DEF BaseInv, FilesInv
<1>10. \A j \in Attempts : Softens(runs[j], runs'[j])
  BY <1>2, SoftenedByCleaning
<1>12. \A s, kept, there : FileSolo(g, s, kept, there)
  <2>1. g.cold.state = "cold" => g.checked.cold = g.cold.checked
    BY DEF Rejudged
  <2> QED BY <1>2, <1>4, <2>1 DEF FileSolo, Absent
<1>13. g.record.state # "passed"
  BY <1>2, <1>4 DEF Absent
<1>15. Single(c)
  BY <1>2 DEF Single
<1>17. x.plan \in PlanPaths /\ i \in Attempts
  BY <1>2
<1>18. \A j \in Attempts : files[j].record.state # "passed"
  BY <1>2
<1>19. FileSolo(g, runs'[i], previousRun[i], deliveryRun[i])
  BY <1>12
<1>20. torn' \/ y.pc = "private" \/ (plans[x.plan].state = "plan" /\ AllRead(files', plans[x.plan]))
  BY <1>2, <1>8
<1>21. g.record.state = "passed" => AllRead(files', g.record.plan)
  BY <1>13
<1>22. y # Idle => CommandSolo(y, files', runs'[y.attempt], previousRun[y.attempt], deliveryRun[y.attempt],
                               plans[y.plan])
  OBVIOUS
<1>23. UNCHANGED <<plans, deliveryRun, previousRun>>
  OBVIOUS
<1> HIDE DEF x, f
<1> QED BY <1>10, <1>15, <1>17, <1>18, <1>19, <1>20, <1>21, <1>22, <1>23, OneFileSolo

\* A verdict ends with a failure or with a record that fits.
LEMMA JudgedSolo ==
  ASSUME BaseInv, BaseInv', SoloInv, NEW c \in Commands, At(c, "judge"), NEW i, i = cmd[c].attempt, NEW g,
         Rejudged(files[i], g), files' = [files EXCEPT ![i] = g],
         runs' = runs \/ runs' = [runs EXCEPT ![i] = Cleaned(i)],
         UNCHANGED <<plans, torn, deliveryRun, previousRun>>,
         \/ \E reason : Goes(c, FailsWith(cmd[c], reason))
         \/ \E v : /\ Goes(c, Writes(cmd[c], v))
                   /\ \A y : y.value = v /\ y.name = cmd[c].name =>
                        Fits(y, g, runs'[i], previousRun[i], deliveryRun[i])
  PROVE  SoloInv'
<1> DEFINE x == cmd[c]
           f == files[i]
           w == plans[x.plan]
<1>1. "judge" \in AtWork
  BY DEF AtWork
<1>2. /\ \A d \in Commands \ {c} : cmd[d] = Idle
      /\ i \in Attempts /\ f.workspace /\ f.private /\ f.record = Absent /\ AllRead(files, w)
      /\ Shaped(x) /\ x.pc = "judge" /\ x.plan \in PlanPaths /\ w.state = "plan" /\ x.name \in {"execute", "rerun"}
      /\ x.name = "execute" => f.cold = Absent
      /\ x.name = "rerun"   => Reviewed(f, w)
      /\ x.run \in 1 .. Len(runs[i]) /\ \A j \in Attempts : files[j].record.state # "passed"
  BY <1>1, WorkingIs
<1>3. FileGood(i, f, runs[i]) /\ runs[i] \in Seq(RunRecords) /\ Len(runs[i]) \in Nat
  BY <1>2, SameStays
<1>4. /\ g.cold = f.cold /\ g.review = f.review /\ g.record = f.record /\ g.class = f.class
      /\ g.workspace = f.workspace /\ g.private = f.private
  BY DEF Rejudged
<1>5. Reads(f, w)
  BY <1>2 DEF AllRead
<1>6. Reads(g, w)
  BY <1>4, <1>5 DEF Reads, PhaseAt
<1>8. AllRead(files', w)
  <2>1. ReadBut(files, w, i)
    BY <1>2 DEF AllRead, ReadBut
  <2> HIDE DEF x
  <2> QED BY <1>2, <1>6, <2>1, AllReadWith
<1>9. files'[i] = g
  BY <1>2 DEF BaseInv, FilesInv
<1>10. \A j \in Attempts : Softens(runs[j], runs'[j])
  BY <1>2, SoftenedByCleaning
<1>11. Len(runs'[i]) = Len(runs[i])
  BY <1>2, <1>10 DEF Softens, Scrubs
<1>12. CASE \E reason : Goes(c, FailsWith(x, reason))
  <2>1. PICK reason : Goes(c, FailsWith(x, reason))
    BY <1>12
  <2> DEFINE z == FailsWith(x, reason)
  <2>2. /\ z.attempt = i /\ z.plan = x.plan
        /\ \A kept, there : CommandSolo(z, files', runs'[i], kept, there, w)
    <3>1. Reviewed(f, w) => Reviewed(g, w)
      BY <1>4 DEF Reviewed
    <3>4. /\ files'[x.attempt].workspace /\ files'[x.attempt].record = Absent
          /\ x.name = "execute" => files'[x.attempt].cold = Absent
          /\ x.name = "rerun" => Reviewed(files'[x.attempt], w)
      BY <1>2, <1>4, <1>9, <3>1
    <3>2. x.run # 0 /\ x.run <= Len(runs'[i])
      BY <1>2, <1>11
    <3>5. x.attempt = i
      OBVIOUS
    <3> HIDE DEF x
    <3> QED BY <1>2, <1>8, <3>2, <3>4, <3>5, FailedAtWork
  <2> HIDE DEF z
  <2>3. CommandSolo(z, files', runs'[z.attempt], previousRun[z.attempt], deliveryRun[z.attempt], plans[z.plan])
    BY <2>2
  <2>4. Goes(c, z)
    BY <2>1 DEF z
  <2> HIDE DEF x
  <2> QED BY <2>3, <2>4, CheckedSolo
<1>13. CASE \E v : /\ Goes(c, Writes(x, v))
                  /\ \A y : y.value = v /\ y.name = x.name =>
                       Fits(y, g, runs'[i], previousRun[i], deliveryRun[i])
  <2>1. PICK v : /\ Goes(c, Writes(x, v))
                 /\ \A y : y.value = v /\ y.name = x.name =>
                      Fits(y, g, runs'[i], previousRun[i], deliveryRun[i])
    BY <1>13
  <2> DEFINE z == Writes(x, v)
  <2>2. /\ z.attempt = i /\ z.plan = x.plan
        /\ CommandSolo(z, files', runs'[i], previousRun[i], deliveryRun[i], w)
    <3>1. \A y : y.value = v /\ y.name = x.name =>
             Fits(y, files'[x.attempt], runs'[i], previousRun[i], deliveryRun[i])
      BY <1>9, <2>1
    <3>5. x.attempt = i
      OBVIOUS
    <3> HIDE DEF x
    <3> QED BY <1>2, <3>5, <1>8, <3>1, WrittenSolo
  <2> HIDE DEF z
  <2>3. CommandSolo(z, files', runs'[z.attempt], previousRun[z.attempt], deliveryRun[z.attempt], plans[z.plan])
    BY <2>2
  <2>4. Goes(c, z)
    BY <2>1 DEF z
  <2> HIDE DEF x
  <2> QED BY <2>3, <2>4, CheckedSolo
<1> QED BY <1>12, <1>13

\* Keeping what the validator says changes nothing else of an attempt.
LEMMA CheckedFields ==
  ASSUME NEW f, FileShape(f), NEW k
  PROVE  LET g == [f EXCEPT !.checked = k] IN
         /\ g.checked = k /\ g.cold = f.cold /\ g.review = f.review /\ g.record = f.record /\ g.class = f.class
         /\ g.workspace = f.workspace /\ g.private = f.private
<1> DEFINE Of(a, b, c, d, e, h, l) ==
             [workspace |-> a, private |-> b, cold |-> c, review |-> d, record |-> e, class |-> h, checked |-> l]
           With(r) == [r EXCEPT !.checked = k]
<1>1. \A a, b, c, d, e, h, l : With(Of(a, b, c, d, e, h, l)) = Of(a, b, c, d, e, h, k)
  OBVIOUS
<1> HIDE DEF With
<1>2. PICK a, b, c, d, e, h, l : f = Of(a, b, c, d, e, h, l)
  BY DEF FileShape
<1>3. With(f) = Of(a, b, c, d, e, h, k)
  BY <1>1, <1>2
<1>4. /\ f.workspace = a /\ f.private = b /\ f.cold = c /\ f.review = d /\ f.record = e /\ f.class = h
  BY <1>2
<1>5. LET g == With(f) IN
      /\ g.checked = k /\ g.cold = f.cold /\ g.review = f.review /\ g.record = f.record /\ g.class = f.class
      /\ g.workspace = f.workspace /\ g.private = f.private
  BY <1>3, <1>4
<1> QED BY <1>5 DEF With

\* The verdict on a cold run, by the one command there is.
LEMMA JudgeColdSolo ==
  ASSUME BaseInv, BaseInv', SoloInv, NEW c \in Commands, NEW v, JudgeCold(c, v)
  PROVE  SoloInv'
<1> DEFINE x == cmd[c]
           i == x.attempt
           f == files[i]
           w == plans[x.plan]
           r == runs[i][x.run]
           summary == Summary(r, w.facts, FALSE)
           reason == IF summary # "" THEN summary ELSE Validation(v)
           k == [f.checked EXCEPT !.cold = Checked(r)]
           value == [state |-> "cold", attempt |-> i, plan |-> w, run |-> r,
                     projection |-> Projection(r), checked |-> Checked(r)]
<1>1. At(c, "judge") /\ x.name = "execute" /\ UNCHANGED <<plans, torn, deliveryRun, previousRun>>
  BY DEF JudgeCold, Disk
<1>2. "judge" \in AtWork
  BY DEF AtWork
<1>3. i \in Attempts /\ f.private /\ f.record = Absent /\ f.cold = Absent
  BY <1>1, <1>2, WorkingIs
<1>4. /\ reason # "" => files' = files /\ Goes(c, FailsWith(x, reason)) /\ runs' = runs
      /\ reason = "" => /\ files' = [files EXCEPT ![i].checked.cold = Checked(r)]
                        /\ Leaked(i) # {} => Goes(c, FailsWith(x, "credential.evidence_leak"))
                                             /\ runs' = [runs EXCEPT ![i] = Cleaned(i)]
                        /\ Leaked(i) = {} => Goes(c, Writes(x, value)) /\ runs' = runs
  BY DEF JudgeCold
<1>5. FileGood(i, f, runs[i]) /\ runs[i] \in Seq(RunRecords)
  BY <1>3, SameStays
<1>6. CASE reason # ""
  <2>1. files' = [files EXCEPT ![i] = f] /\ runs' = runs /\ \E q : Goes(c, FailsWith(x, q))
    BY <1>3, <1>4, <1>6 DEF BaseInv, FilesInv
  <2>2. Rejudged(f, f)
    BY <1>3 DEF Rejudged, Absent
  <2> HIDE DEF f, reason
  <2> QED BY <1>1, <2>1, <2>2, JudgedSolo DEF f
<1>7. CASE reason = ""
  <2>1. files' = [files EXCEPT ![i] = [f EXCEPT !.checked = k]]
    BY <1>4, <1>7
  <2>2. \/ (\E q : Goes(c, FailsWith(x, q))) /\ runs' = [runs EXCEPT ![i] = Cleaned(i)]
        \/ Goes(c, Writes(x, value)) /\ runs' = runs
    <3> HIDE DEF value
    <3> QED BY <1>4, <1>7
  <2>3. f.checked = [cold |-> f.checked.cold, previous |-> f.checked.previous, warm |-> f.checked.warm]
    BY <1>5 DEF FileGood, FileShape
  <2>4. k = [cold |-> k.cold, previous |-> k.previous, warm |-> k.warm] /\ k.cold = Checked(r)
    <3> DEFINE Of(a, b, e) == [cold |-> a, previous |-> b, warm |-> e]
               With(m) == [m EXCEPT !.cold = Checked(r)]
    <3>1. \A a, b, e : With(Of(a, b, e)) = Of(Checked(r), b, e)
      OBVIOUS
    <3>2. PICK a, b, e : f.checked = Of(a, b, e)
      BY <2>3
    <3> HIDE DEF Of
    <3>3. k = Of(Checked(r), b, e)
      BY <3>1, <3>2
    <3> HIDE DEF k
    <3> QED BY <3>3 DEF Of
  <2> HIDE DEF k
  <2> DEFINE g == [f EXCEPT !.checked = k]
  <2>5. /\ g.checked = k /\ g.cold = f.cold /\ g.review = f.review /\ g.record = f.record /\ g.class = f.class
        /\ g.workspace = f.workspace /\ g.private = f.private
    <3>1. FileShape(f)
      BY <1>5 DEF FileGood
    <3> HIDE DEF f
    <3> QED BY <3>1, CheckedFields
  <2>6. files' = [files EXCEPT ![i] = g]
    BY <2>1
  <2> HIDE DEF g
  <2>7. Rejudged(f, g)
    BY <1>3, <2>5 DEF Rejudged, Absent
  <2>8. value.state = "cold" /\ value.checked = Checked(r)
    OBVIOUS
  <2> HIDE DEF value
  <2>9. ASSUME NEW y, y.value = value, y.name = x.name, NEW s, NEW kept, NEW there
        PROVE  Fits(y, g, s, kept, there)
    BY <1>1, <1>3, <2>4, <2>5, <2>8, <2>9 DEF Fits
  <2>10. \/ \E q : Goes(c, FailsWith(cmd[c], q))
         \/ \E u : /\ Goes(c, Writes(cmd[c], u))
                   /\ \A y : y.value = u /\ y.name = cmd[c].name =>
                        Fits(y, g, runs'[i], previousRun[i], deliveryRun[i])
    BY <2>2, <2>9
  <2>11. runs' = runs \/ runs' = [runs EXCEPT ![i] = Cleaned(i)]
    BY <2>2
  <2> HIDE DEF f
  <2> QED BY <1>1, <2>6, <2>7, <2>10, <2>11, JudgedSolo DEF f
<1> QED BY <1>6, <1>7

\* The verdict on a cache rerun, by the one command there is.
LEMMA JudgeWarmSolo ==
  ASSUME BaseInv, BaseInv', SoloInv, NEW c \in Commands, NEW v, NEW u, JudgeWarm(c, v, u)
  PROVE  SoloInv'
<1> DEFINE x == cmd[c]
           i == x.attempt
           f == files[i]
           s == runs[i]
           w == plans[x.plan]
           r == s[x.run]
<1>1. At(c, "judge") /\ x.name = "rerun" /\ UNCHANGED <<plans, torn, deliveryRun, previousRun>>
  BY DEF JudgeWarm, Disk
<1>2. "judge" \in AtWork
  BY DEF AtWork
<1>3. /\ i \in Attempts /\ f.private /\ f.record = Absent /\ Reviewed(f, w) /\ x.run \in 1 .. Len(s)
      /\ x.pc = "judge" /\ x.run \in Nat
  BY <1>1, <1>2, WorkingIs
<1>4. FileGood(i, f, s) /\ s \in Seq(RunRecords) /\ SeqGood(i, s) /\ Len(s) \in Nat
  BY <1>3, SameStays
<1>5. Three(f.checked)
  BY <1>4 DEF FileGood, FileShape, Three
<1>6. PICK k, value : WarmEnd(c, x, i, f, r, w, k, value)
  BY <1>1, <1>5, WarmStep
<1>7. /\ Three(k) /\ k.cold = f.checked.cold /\ files' = [files EXCEPT ![i] = [f EXCEPT !.checked = k]]
      /\ WarmFails(c, x, i) \/ WarmWrites(c, x, i, f, r, w, k, value)
  BY <1>6 DEF WarmEnd
<1>8. k = [cold |-> k.cold, previous |-> k.previous, warm |-> k.warm]
  BY <1>7 DEF Three
<1>9. f.cold.state = "cold" /\ f.checked.cold = f.cold.checked
  BY <1>3 DEF Reviewed, SoloInv, FileSolo
<1> DEFINE g == [f EXCEPT !.checked = k]
<1>10. /\ g.checked = k /\ g.cold = f.cold /\ g.review = f.review /\ g.record = f.record /\ g.class = f.class
       /\ g.workspace = f.workspace /\ g.private = f.private
  <2>1. FileShape(f)
    BY <1>4 DEF FileGood
  <2> HIDE DEF f
  <2> QED BY <2>1, CheckedFields
<1>11. files' = [files EXCEPT ![i] = g]
  BY <1>7
<1> HIDE DEF g
<1>12. Rejudged(f, g)
  BY <1>7, <1>9, <1>10 DEF Rejudged
<1>13. ASSUME WarmWrites(c, x, i, f, r, w, k, value), NEW y, y.value = value, y.name = x.name
       PROVE  Fits(y, g, s, previousRun[i], deliveryRun[i])
  <2>1. /\ WarmPasses(i, f, r, w) /\ Leaked(i) = {}
        /\ k.previous = Checked(f.cold.run) /\ k.warm = Checked(r)
        /\ Three(value.checked)
        /\ value.checked.cold = f.cold.checked /\ value.checked.previous = k.previous
        /\ value.checked.warm = k.warm
        /\ value = [state |-> "passed", attempt |-> i, plan |-> w, phases |-> Phases(i), cold |-> f.cold.run,
                    warm |-> r, projection |-> f.cold.projection, checked |-> value.checked]
    BY <1>13 DEF WarmWrites
  <2>2. value.state = "passed" /\ value.cold = f.cold.run /\ value.warm = r
    BY <2>1
  <2>3. g.checked = value.checked
    BY <1>7, <1>8, <1>9, <1>10, <2>1 DEF Three
  <2>4. \A n \in 1 .. Len(s) : ~s[n].leak
    BY <1>4, <2>1, LenProperties DEF Leaked
  <2>5. r.status = "succeeded"
    BY <2>1 DEF WarmPasses, Summary
  <2>6. deliveryRun[i] = x.run
    <3>1. CommandSolo(x, files, runs[x.attempt], previousRun[x.attempt], deliveryRun[x.attempt], plans[x.plan])
      BY <1>1, AtSolo DEF Pcs, AtWork
    <3> QED BY <1>3, <2>5, <3>1 DEF CommandSolo
  <2>7. previousRun[i] # 0 /\ s[previousRun[i]].id = f.cold.run.id
    <3>1. previousRun[i] # 0 /\ Ids(i)[previousRun[i]] = f.cold.run.id
      BY <2>1 DEF WarmPasses
    <3>2. previousRun[i] \in 1 .. Len(s)
      BY <1>3, <1>4, <3>1 DEF BaseInv, RunsInv
    <3>3. previousRun[i] \in DOMAIN runs[i]
      BY <1>4, <3>2, LenProperties
    <3> QED BY <3>1, <3>3 DEF Ids
  <2>8. x.run # 0
    BY <1>3
  <2>9. PassSolo(g, s, previousRun[i], deliveryRun[i], value)
    BY <2>1, <2>2, <2>3, <2>4, <2>6, <2>7, <2>8 DEF PassSolo
  <2> QED BY <1>3, <1>10, <1>13, <2>2, <2>9 DEF Fits
<1>14. WarmWrites(c, x, i, f, r, w, k, value) => Goes(c, Writes(x, value)) /\ runs' = runs
  BY DEF WarmWrites
<1>15. WarmFails(c, x, i) => /\ \E q : Goes(c, FailsWith(x, q))
                             /\ runs' = runs \/ runs' = [runs EXCEPT ![i] = Cleaned(i)]
  BY DEF WarmFails
<1>16. \/ \E q : Goes(c, FailsWith(cmd[c], q))
       \/ \E z : /\ Goes(c, Writes(cmd[c], z))
                 /\ \A y : y.value = z /\ y.name = cmd[c].name =>
                      Fits(y, g, runs'[i], previousRun[i], deliveryRun[i])
  BY <1>7, <1>13, <1>14, <1>15
<1>17. runs' = runs \/ runs' = [runs EXCEPT ![i] = Cleaned(i)]
  BY <1>7, <1>14, <1>15
<1> HIDE DEF f, r, s
<1> QED BY <1>1, <1>11, <1>12, <1>16, <1>17, JudgedSolo DEF f

\* An attempt reads back with what is filed there.
LEMMA FiledReads ==
  ASSUME NEW f, NEW w, Reads(f, w), NEW v, v.state \in Kinds, v # Absent, v.plan = w, NEW g, FiledAs(f, v.state, v, g),
         v.state # "class" => f.record = Absent,
         v.state = "failed" => v.phases = <<f.cold, f.review>> /\ v.phase = PhaseAt(f)
  PROVE  Reads(g, w)
<1>1. /\ g.private <=> f.private
      /\ g.cold = IF v.state = "cold" THEN v ELSE f.cold
      /\ g.review = IF v.state = "review" THEN v ELSE f.review
      /\ g.class = IF v.state = "class" THEN v ELSE f.class
      /\ g.record = IF v.state \in {"passed", "failed"} THEN v ELSE f.record
  BY DEF FiledAs
<1>2. /\ g.cold # Absent => g.cold.state = "cold" /\ g.cold.plan = w
      /\ g.review # Absent => g.review.state = "review" /\ g.review.plan = w
      /\ g.class # Absent => g.class.state = "class" /\ g.class.plan = w
  BY <1>1 DEF Reads
<1>3. g.record # Absent => g.record.state \in {"passed", "failed"} /\ g.record.plan = w
  BY <1>1 DEF Reads
<1>4. g.record.state = "failed" => g.record.phases = <<g.cold, g.review>> /\ g.record.phase = PhaseAt(g)
  <2>1. CASE v.state = "failed"
    BY <1>1, <2>1 DEF PhaseAt
  <2>2. CASE v.state = "class"
    BY <1>1, <2>2 DEF PhaseAt, Reads, Absent
  <2>3. CASE v.state \in {"cold", "review", "passed"}
    BY <1>1, <2>3 DEF Absent
  <2> QED BY <2>1, <2>2, <2>3 DEF Kinds
<1>5. g.private
  BY <1>1 DEF Reads
<1> QED BY <1>2, <1>3, <1>4, <1>5 DEF Reads

\* What is filed is supported by the runs of its attempt.
LEMMA FiledSolo ==
  ASSUME NEW f, NEW s, NEW kept, NEW there, FileSolo(f, s, kept, there), NEW x, Fits(x, f, s, kept, there),
         x.value.state \in Kinds, NEW g, FiledAs(f, x.value.state, x.value, g)
  PROVE  FileSolo(g, s, kept, there)
<1> DEFINE v == x.value
<1>1. /\ g.cold = IF v.state = "cold" THEN v ELSE f.cold
      /\ g.record = IF v.state \in {"passed", "failed"} THEN v ELSE f.record
      /\ g.checked = f.checked
  BY DEF FiledAs
<1>2. /\ v.state # "class" => f.record = Absent
      /\ v.state = "cold"   => f.checked.cold = v.checked
      /\ v.state = "passed" => PassSolo(f, s, kept, there, v)
      /\ v.state = "failed" => FailSolo(s, v)
  BY DEF Fits
<1>3. \A u : PassSolo(f, s, kept, there, u) => PassSolo(g, s, kept, there, u)
  BY <1>1 DEF PassSolo
<1>4. g.record.state = "passed" => PassSolo(g, s, kept, there, g.record)
  BY <1>1, <1>2, <1>3 DEF FileSolo
<1>5. g.record.state = "failed" => FailSolo(s, g.record)
  BY <1>1, <1>2 DEF FileSolo
<1>6. g.cold.state = "cold" => g.checked.cold = g.cold.checked
  BY <1>1, <1>2 DEF FileSolo
<1> QED BY <1>4, <1>5, <1>6 DEF FileSolo

\* What a command that writes knows of its attempt.
LEMMA WritingIs ==
  ASSUME BaseInv, SoloInv, NEW c \in Commands, At(c, "write")
  PROVE  LET x == cmd[c]
             i == x.attempt
             f == files[i]
             v == x.value IN
         /\ Single(c) /\ i \in Attempts /\ f.workspace /\ f.private /\ AllRead(files, plans[x.plan]) /\ Reads(f, plans[x.plan])
         /\ x.plan \in PlanPaths /\ plans[x.plan].state = "plan" /\ x.pc = "write"
         /\ Fits(x, f, runs[i], previousRun[i], deliveryRun[i]) /\ ValueGood(i, f, runs[i], v) /\ v.plan = plans[x.plan]
         /\ v.state \in Kinds /\ v # Absent /\ ~Taken(i, v.state)
         /\ \A j \in Attempts : files[j].record.state # "passed"
<1> DEFINE x == cmd[c]
           i == x.attempt
           f == files[i]
           v == x.value
           w == plans[x.plan]
<1>1. /\ \A d \in Commands \ {c} : cmd[d] = Idle
      /\ CommandSolo(x, files, runs[i], previousRun[i], deliveryRun[i], w)
  BY AtSolo DEF Pcs
<1>2. x.pc = "write" /\ x.plan \in PlanPaths /\ CommandGood(x, f, runs[i], w)
  BY AtIs DEF Pcs
<1>3. AllRead(files, w) /\ Fits(x, f, runs[i], previousRun[i], deliveryRun[i])
  BY <1>1, <1>2 DEF CommandSolo
<1>4. f.private /\ i \in Attempts /\ w.state = "plan" /\ ValueGood(i, f, runs[i], v) /\ v.plan = w
  BY <1>2 DEF CommandGood
<1>5. f.workspace /\ FileGood(i, f, runs[i])
  BY <1>4, SameStays
<1>6. Reads(f, w)
  BY <1>3, <1>4, <1>5 DEF AllRead
<1>7. v.state \in Kinds /\ v # Absent /\ (v.state = "class" => Open(f))
  <2>1. v.state = "class" => ClassGood(i, f, v)
    BY <1>4, StateOf
  <2> QED BY <1>4, <2>1, StateOf DEF ClassGood
<1>8. /\ v.state # "class" => f.record = Absent
      /\ v.state = "cold" => f.cold = Absent
      /\ v.state = "review" => f.review = Absent
      /\ v.state = "class" => f.class = Absent
  BY <1>3 DEF Fits
<1>9. ~Taken(i, v.state)
  BY <1>7, <1>8 DEF Kinds, Taken
<1>10. f.record.state # "passed" /\ ~Excusing(f)
  BY <1>7, <1>8 DEF Excusing, Open, Absent
<1>11. \A j \in Attempts : files[j].record.state # "passed"
  BY <1>4, <1>5, <1>10, NonePassed
<1>12. Single(c)
  BY <1>1 DEF Single
<1> QED BY <1>2, <1>3, <1>4, <1>5, <1>6, <1>7, <1>9, <1>11, <1>12

\* The one command there is writes its record.
LEMMA WriteSolo ==
  ASSUME BaseInv, BaseInv', SoloInv, NEW c \in Commands, WriteRecord(c)
  PROVE  SoloInv'
<1> DEFINE x == cmd[c]
           i == x.attempt
           f == files[i]
           v == x.value
           w == plans[x.plan]
           g == Filed(f, v.state, v)
<1>1. At(c, "write") /\ UNCHANGED <<plans, torn, runs, deliveryRun, previousRun>>
  BY DEF WriteRecord, Disk, Space
<1>2. /\ Single(c) /\ i \in Attempts /\ f.workspace /\ f.private /\ AllRead(files, w) /\ Reads(f, w)
      /\ x.plan \in PlanPaths /\ w.state = "plan"
      /\ Fits(x, f, runs[i], previousRun[i], deliveryRun[i]) /\ v.plan = w
      /\ v.state \in Kinds /\ v # Absent /\ ~Taken(i, v.state)
      /\ \A j \in Attempts : files[j].record.state # "passed"
  BY <1>1, WritingIs
<1>3. Goes(c, Idle) /\ files' = [files EXCEPT ![i] = g]
  BY <1>2 DEF WriteRecord
<1>4. FiledAs(f, v.state, v, g)
  <2>1. FileShape(f)
    BY <1>2, SameStays DEF FileGood
  <2> HIDE DEF f, v
  <2> QED BY <1>2, <2>1, FiledFields
<1> HIDE DEF g
<1>5. Reads(g, w)
  <2>1. /\ v.state # "class" => f.record = Absent
        /\ v.state = "failed" => v.phases = <<f.cold, f.review>> /\ v.phase = PhaseAt(f)
    BY <1>2 DEF Fits
  <2> HIDE DEF f, v
  <2> QED BY <1>2, <1>4, <2>1, FiledReads
<1>6. FileSolo(g, runs[i], previousRun[i], deliveryRun[i])
  <2>1. FileSolo(f, runs[i], previousRun[i], deliveryRun[i])
    BY <1>2 DEF SoloInv
  <2> HIDE DEF f, x
  <2> QED BY <1>2, <1>4, <2>1, FiledSolo
<1>7. AllRead(files', w)
  <2>1. ReadBut(files, w, i)
    BY <1>2 DEF AllRead, ReadBut
  <2> HIDE DEF x
  <2> QED BY <1>2, <1>3, <1>5, <2>1, AllReadWith
<1>8. g.record.state = "passed" => AllRead(files', g.record.plan)
  <2>1. g.record = v \/ g.record = f.record
    BY <1>4 DEF FiledAs
  <2>2. f.record.state # "passed"
    BY <1>2
  <2> QED BY <1>2, <1>7, <2>1, <2>2
<1>9. \A j \in Attempts : Softens(runs[j], runs'[j])
  BY <1>1 DEF Softens
<1>10. UNCHANGED <<plans, deliveryRun, previousRun>> /\ runs'[i] = runs[i]
  BY <1>1
<1> HIDE DEF x
<1> QED BY <1>2, <1>3, <1>6, <1>7, <1>8, <1>9, <1>10, OneFileSolo

\* The one command there is is killed; half a file marks the directory as torn.
LEMMA KillSolo ==
  ASSUME BaseInv, BaseInv', SoloInv, NEW c \in Commands, Kill(c)
  PROVE  SoloInv'
<1> DEFINE x == cmd[c]
           i == x.attempt
<1>1. /\ UNCHANGED <<plans, runs, deliveryRun, previousRun>> /\ cmd[c] # Idle
      /\ Goes(c, Idle)
      /\ \/ ~At(c, "private") /\ UNCHANGED <<files, torn>>
         \/ At(c, "private") /\ torn' = TRUE /\ UNCHANGED files
         \/ /\ At(c, "write") /\ torn' = TRUE
            /\ files' = [files EXCEPT ![i] = Filed(files[i], x.value.state, Half)]
  BY DEF Kill, Space
<1>2. Single(c) /\ cmd' = [cmd EXCEPT ![c] = Idle]
  BY <1>1, Only DEF Single, Goes
<1>3. \A j \in Attempts : Softens(runs[j], runs'[j])
  BY <1>1 DEF Softens
<1>4. CASE ~At(c, "private") /\ UNCHANGED <<files, torn>>
  BY <1>1, <1>2, <1>3, <1>4, StillSolo DEF Single, At
<1>5. CASE At(c, "private") /\ torn' = TRUE /\ UNCHANGED files
  <2>1. \A j \in Attempts : FileSolo(files'[j], runs'[j], previousRun'[j], deliveryRun'[j])
    BY <1>1, <1>5 DEF SoloInv
  <2>2. \A j \in Attempts : files'[j].record.state = "passed" => AllRead(files', files'[j].record.plan)
    BY <1>5 DEF SoloInv
  <2>3. LegibleInv'
    BY <1>5 DEF LegibleInv
  <2>4. \A d \in Commands \ {c} : cmd[d] = Idle
    BY <1>2 DEF Single
  <2> QED BY <1>2, <2>1, <2>2, <2>3, <2>4, SoloStep
<1>6. CASE /\ At(c, "write") /\ torn' = TRUE
           /\ files' = [files EXCEPT ![i] = Filed(files[i], x.value.state, Half)]
  <2> DEFINE f == files[i]
             k == x.value.state
             g == Filed(f, k, Half)
  <2>1. /\ i \in Attempts /\ k \in Kinds /\ x.plan \in PlanPaths /\ Fits(x, f, runs[i], previousRun[i], deliveryRun[i])
        /\ \A j \in Attempts : files[j].record.state # "passed"
    BY <1>6, WritingIs
  <2>2. FiledAs(f, k, Half, g)
    <3>1. FileShape(f)
      BY <2>1, SameStays DEF FileGood
    <3> HIDE DEF f, k
    <3> QED BY <2>1, <3>1, FiledFields
  <2>3. files' = [files EXCEPT ![i] = g]
    BY <1>6
  <2> HIDE DEF g
  <2>4. Half.state = "half"
    BY DEF Half
  <2>5. /\ g.record = Half \/ g.record = f.record
        /\ g.cold = Half \/ g.cold = f.cold
        /\ g.checked = f.checked
    BY <2>2 DEF FiledAs
  <2>6. FileSolo(f, runs[i], previousRun[i], deliveryRun[i])
    BY <2>1 DEF SoloInv
  <2>7. g.record.state # "passed"
    BY <2>1, <2>4, <2>5
  <2>8. FileSolo(g, runs'[i], previousRun[i], deliveryRun[i])
    BY <1>1, <2>4, <2>5, <2>6, <2>7 DEF FileSolo
  <2>9. UNCHANGED <<plans, deliveryRun, previousRun>> /\ torn'
    BY <1>1, <1>6
  <2> HIDE DEF x
  <2> QED BY <1>1, <1>2, <1>3, <2>1, <2>3, <2>7, <2>8, <2>9, OneFileSolo
<1> QED BY <1>1, <1>4, <1>5, <1>6

\* A number that is one or more and not more than one.
LEMMA OneIs ==
  \A n \in Nat : 1 <= n /\ ~(n > 1) => n = 1
OBVIOUS

\* A failure names a run that is there, or two.
LEMMA NamesFailed ==
  ASSUME BaseInv, NEW i \in Attempts, NEW v, v.runs = FailedRuns(i), ~TooManyRuns(i), 1 <= Len(runs[i]),
         files[i].cold = Absent \/ files[i].cold.state = "cold"
  PROVE  NamesRuns(runs[i], v)
<1> DEFINE s == runs[i]
           f == files[i]
<1>1. FileGood(i, f, s) /\ s \in Seq(RunRecords) /\ Len(s) \in Nat /\ DOMAIN s = 1 .. Len(s)
  BY SameStays, LenProperties
<1>2. CASE f.cold = Absent
  <2>1. Len(s) = 1
    <3>1. ~(Len(s) > 1)
      BY <1>2 DEF TooManyRuns
    <3>2. Len(s) \in Nat /\ 1 <= Len(s)
      BY <1>1
    <3>3. \A n \in Nat : 1 <= n /\ ~(n > 1) => n = 1
      BY OneIs
    <3> HIDE DEF s
    <3> QED BY <3>1, <3>2, <3>3, Zenon
  <2>2. FailedRuns(i) = [n \in 1 .. Len(s) |-> s[n].id]
    BY <1>1, <1>2 DEF FailedRuns, Ids
  <2>3. FailedRuns(i) = <<s[1].id>>
    BY <2>1, <2>2
  <2>4. 1 \in 1 .. Len(s)
    BY <2>1
  <2> QED BY <2>3, <2>4 DEF NamesRuns
<1>3. CASE f.cold.state = "cold"
  <2> DEFINE k == f.cold.run.id
             more == {n \in DOMAIN s : s[n].id # k}
  <2>1. ColdGood(i, s, f.cold) /\ f.cold # Absent
    BY <1>1, <1>3 DEF FileGood, Absent, Half
  <2>2. PICK n \in 1 .. Len(s) : s[n].id = k
    BY <2>1 DEF ColdGood
  <2>3. FailedRuns(i) = IF more = {} THEN <<k>> ELSE <<k, s[CHOOSE m \in more : TRUE].id>>
    BY <2>1 DEF FailedRuns
  <2>4. CASE more = {}
    <3>1. v.runs = <<s[n].id>>
      BY <2>2, <2>3, <2>4
    <3> QED BY <3>1 DEF NamesRuns
  <2>5. CASE more # {}
    <3>1. PICK m : m \in more /\ m = CHOOSE q \in more : TRUE
      BY <2>5
    <3>2. m \in 1 .. Len(s) /\ m # n
      BY <1>1, <2>2, <3>1
    <3>3. v.runs = <<s[n].id, s[m].id>>
      BY <2>2, <2>3, <2>5, <3>1
    <3> QED BY <3>2, <3>3 DEF NamesRuns
  <2> QED BY <2>4, <2>5
<1> QED BY <1>2, <1>3

\* A command that failed in a run worked on the last attempt.
LEMMA FailedOnLatest ==
  ASSUME BaseInv, NEW i \in Attempts, files[i].workspace, files[i].record = Absent
  PROVE  i = Latest
<1>1. MaxTries \in Nat /\ Latest \in 0 .. MaxTries /\ i \in 1 .. MaxTries /\ i <= Latest
  BY GateAssumption, LatestIs DEF Attempts
<1>2. CASE i < Latest
  <2>1. Latest \in Attempts
    BY <1>1 DEF Attempts
  <2>2. files[Latest].workspace
    BY <1>1, <2>1, LatestIs
  <2>3. Excusing(files[i])
    BY <1>2, <2>1, <2>2 DEF BaseInv, FilesInv
  <2> QED BY <2>3 DEF Excusing, Open, Absent
<1> QED BY <1>1, <1>2

\* Only the launch of the validator fails as the launch of the validator.
LEMMA FailureNames ==
  ASSUME NEW i, NEW reason, NEW phase, FailureFact(i, reason, phase) = NoLaunch
  PROVE  reason = "independent_validation.launch_failed"
<1>1. FailureFact(i, reason, phase) \in {Away, Rejection} \/ reason = "independent_validation.launch_failed"
  BY DEF FailureFact, Away
<1>2. NoLaunch \notin {Away, Rejection}
  BY FailureClasses
<1> QED BY <1>1, <1>2

\* The one command there is records its failure.
LEMMA RecordSolo ==
  ASSUME BaseInv, BaseInv', SoloInv, NEW c \in Commands, RecordFailure(c)
  PROVE  SoloInv'
<1> DEFINE x == cmd[c]
           i == Latest
           f == files[i]
           s == runs[i]
           w == plans[x.plan]
<1>1. PICK reason :
           /\ \/ runs' = runs /\ reason = x.reason
              \/ runs' = [j \in Attempts |-> Cleaned(j)] /\ reason = "credential.evidence_leak"
           /\ Recording(c, x, i, reason) \/ Goes(c, Idle)
           /\ At(c, "failing")
           /\ UNCHANGED <<plans, torn, files, deliveryRun, previousRun>>
  BY RecordIs
<1>2. /\ x.pc = "failing" /\ Shaped(x) /\ x.plan \in PlanPaths /\ x.run \in Nat
  BY <1>1, AtIs DEF Pcs
<1>3. /\ \A d \in Commands \ {c} : cmd[d] = Idle
      /\ CommandSolo(x, files, runs[x.attempt], previousRun[x.attempt], deliveryRun[x.attempt], plans[x.plan])
  BY <1>1, AtSolo DEF Pcs
<1>4. \A j \in Attempts : Softens(runs[j], runs'[j])
  BY <1>1, SoftenedByCleaning
<1>5. CASE Goes(c, Idle)
  <2>1. cmd' = [cmd EXCEPT ![c] = Idle] /\ cmd[c].pc # "private"
    BY <1>2, <1>5 DEF Goes
  <2> QED BY <1>1, <1>3, <1>4, <2>1, StillSolo
<1>6. CASE Recording(c, x, i, reason)
  <2> DEFINE z == [x EXCEPT !.attempt = i]
             v == FailureOf(x, i, reason, w)
             y == Writes(z, v)
  <2>1. /\ Holds(x.plan) /\ StateReads(x.plan) /\ Pending # {} /\ cmd' = [cmd EXCEPT ![c] = y] /\ ~TooManyRuns(i)
    BY <1>6 DEF Recording, Goes
  <2>2. i \in Attempts /\ f.workspace /\ f.record = Absent /\ AllRead(files, w)
    BY <1>2, <2>1, PendingOpen
  <2>3. Shaped(z) /\ z.name = x.name /\ z.plan = x.plan /\ z.attempt = i /\ z.run = x.run
    BY <1>2, AttemptShape
  <2>4. v.state = "failed" /\ v.phases = <<f.cold, f.review>> /\ v.phase = PhaseAt(f) /\ v.runs = FailedRuns(i)
        /\ v.failure = FailureFact(i, reason, PhaseOf(i))
    BY DEF FailureOf, Phases, PhaseOf, PhaseAt
  <2> HIDE DEF z, v
  <2>5. Shaped(y) /\ Like(y, z) /\ y.pc = "write" /\ y.value = v
    BY <2>3, WritesShape
  <2> HIDE DEF y
  <2>6. y.name = x.name /\ y.plan = x.plan /\ y.attempt = i /\ y.run = x.run
    BY <2>3, <2>5 DEF Like
  <2>7. FailSolo(runs'[i], v)
    <3>1. SUFFICES ASSUME v.failure = NoLaunch
                   PROVE  NamesRuns(runs'[i], v)
      BY DEF FailSolo
    <3>2. reason = "independent_validation.launch_failed"
      BY <2>4, <3>1, FailureNames
    <3>3. runs' = runs /\ x.reason = "independent_validation.launch_failed"
      BY <1>1, <3>2
    <3>4. x.run # 0
      BY <1>2, <1>3, <3>3 DEF CommandSolo
    <3>5. /\ x.attempt \in Attempts /\ files[x.attempt].workspace /\ files[x.attempt].record = Absent
          /\ x.run <= Len(runs[x.attempt]) /\ x.name \in {"execute", "rerun"}
          /\ x.name = "execute" => files[x.attempt].cold = Absent
          /\ x.name = "rerun"   => Reviewed(files[x.attempt], w)
      BY <1>2, <1>3, <3>4 DEF CommandSolo
    <3>6. x.attempt = i
      BY <3>5, FailedOnLatest
    <3>7. Len(s) \in Nat
      BY <2>2, SameStays
    <3>8. 1 <= Len(s)
      BY <1>2, <3>4, <3>5, <3>6, <3>7
    <3>9. f.cold = Absent \/ f.cold.state = "cold"
      BY <3>5, <3>6 DEF Reviewed
    <3>10. NamesRuns(s, v)
      <4> HIDE DEF i
      <4> QED BY <2>1, <2>2, <2>4, <3>8, <3>9, NamesFailed
    <3> QED BY <3>3, <3>10
  <2>8. \A kept, there : Fits(y, f, runs'[i], kept, there)
    BY <2>2, <2>4, <2>5, <2>7 DEF Fits
  <2>9. \A kept, there : CommandSolo(y, files, runs'[i], kept, there, w)
    BY <2>2, <2>5, <2>6, <2>8 DEF CommandSolo, AtWork
  <2>10. y # Idle => CommandSolo(y, files, runs'[y.attempt], previousRun[y.attempt], deliveryRun[y.attempt], plans[y.plan])
    BY <2>6, <2>9
  <2>11. x.pc # "private"
    BY <1>2
  <2> HIDE DEF i
  <2> QED BY <1>1, <1>3, <1>4, <2>1, <2>10, <2>11, StillSolo
<1> QED BY <1>1, <1>5, <1>6

-----------------------------------------------------------------------------
(* The second part of the invariant holds as long as no two commands meet   *)

\* What no command does: the host changes, a plan is written, an attempt is sealed.
LEMMA QuietSolo ==
  ASSUME SoloInv, UNCHANGED <<files, runs, deliveryRun, previousRun, cmd, torn>>,
         \A p \in PlanPaths : plans[p] # Absent => plans'[p] = plans[p],
         \A c \in Commands : cmd[c] # Idle => cmd[c].plan \in PlanPaths /\ plans[cmd[c].plan] # Absent
  PROVE  SoloInv'
<1>1. AloneInv'
  BY DEF SoloInv, AloneInv
<1>2. ASSUME NEW c \in Commands, cmd'[c] # Idle
      PROVE  Alone(cmd[c])'
  <2>1. Alone(cmd[c]) /\ plans'[cmd[c].plan] = plans[cmd[c].plan]
    BY <1>2 DEF SoloInv
  <2> QED BY <2>1 DEF Alone
<1>3. LegibleInv'
  <2>1. Absent.state # "plan"
    BY DEF Absent
  <2>2. \A p \in PlanPaths : plans[p].state = "plan" => plans'[p] = plans[p]
    BY <2>1
  <2> QED BY <2>2 DEF SoloInv, LegibleInv
<1> QED BY <1>1, <1>2, <1>3 DEF SoloInv

\* The second part of the invariant holds in an empty directory.
LEMMA SoloStarts ==
  ASSUME GateInit
  PROVE  SoloInv
<1>1. \A c \in Commands : cmd[c] = Idle
  BY DEF GateInit
<1>2. \A i \in Attempts : files[i].record = Absent /\ files[i].cold = Absent /\ ~files[i].workspace
  BY DEF GateInit, NoAttempt
<1>3. AloneInv /\ LegibleInv
  BY <1>1, <1>2 DEF AloneInv, LegibleInv
<1>4. \A i \in Attempts : FileSolo(files[i], runs[i], previousRun[i], deliveryRun[i])
  BY <1>2, Blank
<1> QED BY <1>1, <1>2, <1>3, <1>4 DEF SoloInv, Absent

\* The second part of the invariant holds after every step by which no two commands meet.
LEMMA SoloHolds ==
  ASSUME BaseInv, BaseInv', [GateNext]_gateVars, ~met => SoloInv, ~met'
  PROVE  SoloInv'
<1>0. \A c \in Commands : cmd[c] # Idle => cmd[c].plan \in PlanPaths /\ plans[cmd[c].plan] # Absent
  BY DEF BaseInv, CommandsInv, Placed, CommandGood
<1>1. CASE UNCHANGED gateVars
  <2>1. UNCHANGED <<files, runs, deliveryRun, previousRun, cmd, torn, plans, met>>
    BY <1>1 DEF gateVars
  <2> QED BY <1>0, <2>1, QuietSolo
<1>2. CASE WorldChanges
  <2>1. UNCHANGED <<files, runs, deliveryRun, previousRun, cmd, torn, plans, met>>
    BY <1>2 DEF WorldChanges
  <2> QED BY <1>0, <2>1, QuietSolo
<1>3. ASSUME NEW p \in PlanPaths, PreparePlan(p)
      PROVE  SoloInv'
  <2>1. UNCHANGED <<files, runs, deliveryRun, previousRun, cmd, torn, met>>
    BY <1>3 DEF PreparePlan
  <2>2. \A q \in PlanPaths : plans[q] # Absent => plans'[q] = plans[q]
    BY <1>3, PrepareStep
  <2> QED BY <1>0, <2>1, <2>2, QuietSolo
<1>4. ASSUME NEW p \in PlanPaths, NEW i \in Attempts, Seal(p, i)
      PROVE  SoloInv'
  <2>1. UNCHANGED <<files, runs, deliveryRun, previousRun, cmd, torn, plans, met>>
    BY <1>4 DEF Seal
  <2> QED BY <1>0, <2>1, QuietSolo
<1>5. ASSUME NEW c \in Commands, Step(c)
      PROVE  SoloInv'
  <2>0. met => met'
    BY <1>5, Zenon DEF Step, Execute, Rerun, MakeDirectory, StartRun, FinishRun, JudgeCold, JudgeWarm, Review,
       Classify, WriteRecord, Kill, RecordFailure, Free, Budget
  <2>a. SoloInv
    BY <2>0
  <2>1. CASE \E p \in PlanPaths, k \in Refusals \cup {""} : Execute(c, p, k) \/ Rerun(c, p, k)
    <3>1. \A k \in Refusals \cup {""} : k # "independent_validation.launch_failed"
      BY DEF Refusals
    <3> QED BY <2>1, <2>a, <3>1, ExecuteSolo, RerunSolo
  <2>2. CASE MakeDirectory(c, "workspace", "private") \/ MakeDirectory(c, "private", "run")
    BY <2>2, <2>a, DirectorySolo
  <2>3. CASE StartRun(c)
    BY <2>3, <2>a, StartSolo
  <2>4. CASE \E o \in Outcomes : FinishRun(c, o)
    BY <2>4, <2>a, FinishSolo
  <2>5. CASE \E v \in Verdicts : JudgeCold(c, v) \/ \E u \in Verdicts : JudgeWarm(c, v, u)
    BY <2>5, <2>a, JudgeColdSolo, JudgeWarmSolo
  <2>6. CASE \E p \in PlanPaths, passed \in BOOLEAN : \E run : Review(c, p, run, passed)
    BY <2>6, <2>a, ReviewSolo
  <2>7. CASE \E p \in PlanPaths, i \in Attempts : \E k : Classify(c, p, i, k)
    BY <2>7, <2>a, ClassifySolo
  <2>8. CASE WriteRecord(c) \/ Kill(c) \/ RecordFailure(c)
    BY <2>8, <2>a, WriteSolo, KillSolo, RecordSolo
  <2>9. \/ \E p \in PlanPaths, k \in Refusals \cup {""} : Execute(c, p, k) \/ Rerun(c, p, k)
        \/ MakeDirectory(c, "workspace", "private") \/ MakeDirectory(c, "private", "run")
        \/ StartRun(c)
        \/ \E o \in ColdOutcomes : FinishRun(c, o)
        \/ \E o \in WarmOutcomes : FinishRun(c, o)
        \/ \E v \in Verdicts : JudgeCold(c, v) \/ \E u \in Verdicts : JudgeWarm(c, v, u)
        \/ \E p \in PlanPaths, passed \in BOOLEAN : \E run : Review(c, p, run, passed)
        \/ \E p \in PlanPaths, i \in Attempts : \E k : Classify(c, p, i, k)
        \/ WriteRecord(c) \/ Kill(c) \/ RecordFailure(c)
    BY <1>5, Zenon DEF Step
  <2>10. (\E o \in ColdOutcomes : FinishRun(c, o)) \/ (\E o \in WarmOutcomes : FinishRun(c, o))
         => \E o \in Outcomes : FinishRun(c, o)
    BY DEF Outcomes
  <2> QED BY <2>1, <2>2, <2>3, <2>4, <2>5, <2>6, <2>7, <2>8, <2>9, <2>10
<1> QED BY <1>1, <1>2, <1>3, <1>4, <1>5 DEF GateNext

-----------------------------------------------------------------------------
(* The runs are counted                                                     *)

\* As long as no run was cut short and none failed unrecorded, the runs are counted.
Waiting(f) == f.cold.state = "cold" /\ f.record = Absent
Second(x, i) == x # Idle /\ x.name = "rerun" /\ x.attempt = i /\ x.run = 2
Counted(f, n, x, i) ==
    /\ f.record.state = "passed" => n = 2
    /\ Waiting(f) => n = 1 \/ (n = 2 /\ Second(x, i))
SameFile(f, g) ==
    /\ g.record.state = "passed" => f.record.state = "passed"
    /\ Waiting(g) => Waiting(f)

\* The runs of every attempt are counted by what the one command there is does.
LEMMA CountFrom ==
  ASSUME NEW c \in Commands, \A i \in Attempts : Counted(files'[i], Len(runs'[i]), cmd'[c], i)
  PROVE  CountInv'
BY DEF CountInv, Counted, Waiting, Second

\* What the count of the runs says of one attempt, where one command works.
LEMMA CountTo ==
  ASSUME CountInv, NEW c \in Commands, Single(c), NEW i \in Attempts
  PROVE  Counted(files[i], Len(runs[i]), cmd[c], i)
<1>1. \A d \in Commands : Second(cmd[d], i) => d = c
  BY DEF Single, Second
<1>2. (\E d \in Commands : cmd[d] # Idle /\ cmd[d].name = "rerun" /\ cmd[d].attempt = i /\ cmd[d].run = 2)
      => Second(cmd[c], i)
  BY <1>1 DEF Second
<1>3. /\ files[i].record.state = "passed" => Len(runs[i]) = 2
      /\ files[i].cold.state = "cold" /\ files[i].record = Absent =>
           \/ Len(runs[i]) = 1
           \/ Len(runs[i]) = 2 /\ \E d \in Commands : cmd[d] # Idle /\ cmd[d].name = "rerun" /\ cmd[d].attempt = i
                                                        /\ cmd[d].run = 2
  BY DEF CountInv
<1> QED BY <1>2, <1>3, Zenon DEF Counted, Waiting

\* A step that starts no run and files nothing that counts.
LEMMA CountStays ==
  ASSUME BaseInv, BaseInv', CountInv, NEW c \in Commands, Single(c),
         \A i \in Attempts : SameFile(files[i], files'[i]) /\ Len(runs'[i]) = Len(runs[i]),
         \A i \in Attempts : Waiting(files[i]) /\ Len(runs[i]) = 2 /\ Second(cmd[c], i) => Second(cmd'[c], i)
  PROVE  CountInv'
<1>1. \A i \in Attempts : Counted(files'[i], Len(runs'[i]), cmd'[c], i)
  <2> SUFFICES ASSUME NEW i \in Attempts
               PROVE  Counted(files'[i], Len(runs'[i]), cmd'[c], i)
    OBVIOUS
  <2>1. Counted(files[i], Len(runs[i]), cmd[c], i)
    BY CountTo
  <2>2. SameFile(files[i], files'[i]) /\ Len(runs'[i]) = Len(runs[i])
        /\ (Waiting(files[i]) /\ Len(runs[i]) = 2 /\ Second(cmd[c], i) => Second(cmd'[c], i))
    OBVIOUS
  <2> QED BY <2>1, <2>2, Zenon DEF Counted, SameFile
<1> QED BY <1>1, CountFrom

\* A command that does not yet run the cache rerun leaves nothing uncounted.
LEMMA CountFree ==
  ASSUME BaseInv, BaseInv', CountInv, NEW c \in Commands, Free(c), ~met', files' = files,
         \A i \in Attempts : Softens(runs[i], runs'[i])
  PROVE  CountInv'
<1>1. \A d \in Commands : cmd[d] = Idle
  BY FreeIs
<1>2. Single(c) /\ cmd[c] = Idle
  BY <1>1 DEF Single
<1>3. \A i \in Attempts : Len(runs'[i]) = Len(runs[i]) /\ SameFile(files[i], files'[i])
  BY DEF Softens, Scrubs, SameFile
<1> QED BY <1>2, <1>3, CountStays DEF Second

\* An execution or a cache rerun that starts has counted no run yet.
LEMMA StartingCount ==
  ASSUME BaseInv, BaseInv', SoloInv, CountInv, ~met', NEW c \in Commands, NEW p \in PlanPaths, NEW k,
         Execute(c, p, k) \/ Rerun(c, p, k)
  PROVE  CountInv'
<1>1. Free(c) /\ files' = files
  BY DEF Execute, Rerun
<1>2. runs' = runs \/ \E a \in Attempts : runs' = [runs EXCEPT ![a] = Cleaned(a)]
  <2>1. CASE Execute(c, p, k)
    BY <2>1 DEF Execute, Space
  <2>2. CASE Rerun(c, p, k)
    <3> DEFINE i == Latest
               f == files[i]
               refused == IF k # "" THEN k
                          ELSE IF ~Holds(p) THEN "plan.drift"
                          ELSE IF PendingRefused(p) # "" THEN PendingRefused(p)
                          ELSE IF f.cold = Absent \/ f.review = Absent THEN "review.required" ELSE ""
    <3>1. runs' = IF refused = "" THEN [runs EXCEPT ![i] = Cleaned(i)] ELSE runs
      BY <2>2 DEF Rerun
    <3>2. refused = "" => Holds(p) /\ StateReads(p) /\ Pending # {}
      BY Refusing
    <3> HIDE DEF refused
    <3>3. refused = "" => i \in Attempts
      BY <3>2, PendingOpen
    <3> QED BY <3>1, <3>3
  <2> QED BY <2>1, <2>2
<1>3. \A i \in Attempts : Softens(runs[i], runs'[i])
  BY <1>2, SoftenedByCleaning
<1> QED BY <1>1, <1>3, CountFree

\* A review or a classification counts no run.
LEMMA DecidingCount ==
  ASSUME BaseInv, BaseInv', SoloInv, CountInv, ~met', NEW c \in Commands, NEW p \in PlanPaths, NEW a, NEW b,
         Review(c, p, a, b) \/ Classify(c, p, a, b)
  PROVE  CountInv'
<1>1. Free(c) /\ files' = files /\ runs' = runs
  BY DEF Review, Classify, Space
<1> QED BY <1>1, CountFree DEF Softens

\* Making a directory files nothing.
LEMMA MadeSame ==
  ASSUME NEW f, FileShape(f)
  PROVE  SameFile(f, [f EXCEPT !.workspace = TRUE]) /\ SameFile(f, [f EXCEPT !.private = TRUE])
<1> DEFINE g == [f EXCEPT !.workspace = TRUE]
           h == [f EXCEPT !.private = TRUE]
<1>1. g.record = f.record /\ g.cold = f.cold /\ h.record = f.record /\ h.cold = f.cold
  BY DEF FileShape
<1> HIDE DEF g, h
<1>2. SameFile(f, g) /\ SameFile(f, h)
  BY <1>1 DEF SameFile, Waiting
<1> QED BY <1>2 DEF g, h

\* Making a directory counts no run.
LEMMA DirectoryCount ==
  ASSUME BaseInv, BaseInv', SoloInv, CountInv, NEW c \in Commands,
         MakeDirectory(c, "workspace", "private") \/ MakeDirectory(c, "private", "run")
  PROVE  CountInv'
<1> DEFINE x == cmd[c]
           i == x.attempt
           f == files[i]
<1>1. runs' = runs /\ x.pc \in {"workspace", "private"} /\ At(c, x.pc)
      /\ (files' = files \/ files' = [files EXCEPT ![i] = [f EXCEPT !.workspace = TRUE]]
                         \/ files' = [files EXCEPT ![i] = [f EXCEPT !.private = TRUE]])
  BY DEF MakeDirectory, At, Space
<1>2. x.name = "execute" /\ i \in Attempts
  BY <1>1, AtIs DEF Pcs, CommandGood
<1>3. \A d \in Commands \ {c} : cmd[d] = Idle
  BY <1>1, AtSolo DEF Pcs
<1>4. FileShape(f)
  BY <1>2, SameStays DEF FileGood
<1>5. SameFile(f, [f EXCEPT !.workspace = TRUE]) /\ SameFile(f, [f EXCEPT !.private = TRUE])
  BY <1>4, MadeSame
<1>6. \A j \in Attempts : SameFile(files[j], files'[j])
  <2> SUFFICES ASSUME NEW j \in Attempts
               PROVE  SameFile(files[j], files'[j])
    OBVIOUS
  <2> DEFINE g == [f EXCEPT !.workspace = TRUE]
             h == [f EXCEPT !.private = TRUE]
  <2>1. files = [q \in Attempts |-> files[q]] /\ i \in Attempts
    BY <1>2 DEF BaseInv, FilesInv
  <2>0. SameFile(files[i], g) /\ SameFile(files[i], h)
    BY <1>5
  <2>2. files' = files \/ files' = [files EXCEPT ![i] = g] \/ files' = [files EXCEPT ![i] = h]
    BY <1>1
  <2> HIDE DEF f, g, h, x, i
  <2>4. files'[j] = files[j] \/ (j = i /\ (files'[j] = g \/ files'[j] = h))
    BY <2>1, <2>2
  <2>3. SameFile(files[j], files[j])
    BY DEF SameFile
  <2> QED BY <2>0, <2>3, <2>4
<1>7. Single(c) /\ \A j \in Attempts : Len(runs'[j]) = Len(runs[j])
  BY <1>1, <1>3 DEF Single
<1>8. \A j : ~Second(cmd[c], j)
  BY <1>2 DEF Second
<1> QED BY <1>6, <1>7, <1>8, CountStays

\* A run that starts is the first of an execution or the second of a cache rerun.
LEMMA StartCount ==
  ASSUME BaseInv, BaseInv', SoloInv, CountInv, NEW c \in Commands, StartRun(c)
  PROVE  CountInv'
<1> DEFINE x == cmd[c]
           i == x.attempt
           f == files[i]
<1>1. At(c, "run") /\ files' = files
  BY DEF StartRun
<1>2. "run" \in AtWork
  BY DEF AtWork
<1>3. /\ Single(c) /\ i \in Attempts /\ f.record = Absent /\ x.name \in {"execute", "rerun"}
      /\ x.name = "execute" => f.cold = Absent
  BY <1>1, <1>2, WorkingIs DEF Single
<1>4. x.run = 0
  BY <1>1, AtIs DEF Pcs, AtWork, CommandGood
<1>5. PICK y : /\ Goes(c, y) /\ y.name = x.name /\ y.attempt = i /\ y.run = Len(runs[i]) + 1 /\ y.pc = "running"
               /\ Len(runs[i]) \in Nat
               /\ Len(runs'[i]) = Len(runs[i]) + 1 /\ \A j \in Attempts \ {i} : runs'[j] = runs[j]
  BY StartIs
<1>6. cmd'[c] = y /\ y # Idle
  BY <1>5 DEF Goes, BaseInv, CommandsInv, Idle
<1>7. ASSUME NEW j \in Attempts
      PROVE  Counted(files'[j], Len(runs'[j]), cmd'[c], j)
  <2>1. Counted(files[j], Len(runs[j]), x, j) /\ ~Second(x, j)
    BY <1>3, <1>4, CountTo DEF Second
  <2>2. CASE j # i
    <3>1. files'[j] = files[j] /\ runs'[j] = runs[j]
      BY <1>1, <1>5, <2>2
    <3> QED BY <2>1, <3>1 DEF Counted
  <2>3. CASE j = i
    <3>1. files'[j] = f /\ f.record.state # "passed"
      BY <1>1, <1>3, <2>3 DEF Absent
    <3>2. Waiting(f) => y.name = "rerun" /\ Len(runs[i]) = 1
      BY <1>3, <1>5, <2>1, <2>3 DEF Counted, Waiting, Absent
    <3>3. Waiting(f) => Len(runs'[i]) = 2 /\ y.run = 2
      <4>1. 1 + 1 = 2
        OBVIOUS
      <4> QED BY <1>5, <3>2, <4>1, Zenon
    <3> QED BY <1>5, <1>6, <2>3, <3>1, <3>2, <3>3 DEF Counted, Second
  <2> QED BY <2>2, <2>3
<1> QED BY <1>7, CountFrom

\* A run that ends is counted as it was.
LEMMA FinishCount ==
  ASSUME BaseInv, BaseInv', SoloInv, CountInv, NEW c \in Commands, NEW o \in Outcomes, FinishRun(c, o)
  PROVE  CountInv'
<1> DEFINE x == cmd[c]
           i == x.attempt
           y == On(c, "judge")
<1>1. At(c, "running") /\ files' = files /\ Goes(c, y)
  BY DEF FinishRun
<1>2. "running" \in AtWork
  BY DEF AtWork
<1>3. Single(c) /\ i \in Attempts /\ Shaped(x) /\ x.run \in 1 .. Len(runs[i])
  BY <1>1, <1>2, WorkingIs DEF Single
<1>4. \E r : runs' = [runs EXCEPT ![i] = [runs[i] EXCEPT ![x.run] = r]]
  BY DEF FinishRun
<1>5. Like(y, x) /\ y.pc = "judge"
  BY <1>3, OnShape DEF On
<1> HIDE DEF y
<1>6. cmd'[c] = y /\ y # Idle
  BY <1>1, <1>5 DEF Goes, BaseInv, CommandsInv, Idle
<1>7. \A j \in Attempts : Len(runs'[j]) = Len(runs[j])
  <2>1. runs = [j \in Attempts |-> runs[j]] /\ runs[i] \in Seq(RunRecords)
    BY <1>3, SameStays DEF BaseInv, RunsInv
  <2>2. PICK r : runs' = [runs EXCEPT ![i] = [runs[i] EXCEPT ![x.run] = r]]
    BY <1>4
  <2> HIDE DEF x
  <2>3. Len([runs[i] EXCEPT ![x.run] = r]) = Len(runs[i])
    BY <2>1
  <2> QED BY <2>1, <2>2, <2>3
<1>8. \A j \in Attempts : SameFile(files[j], files'[j])
  BY <1>1 DEF SameFile
<1>9. \A j : Second(x, j) => Second(y, j)
  BY <1>5, <1>6 DEF Second, Like
<1> QED BY <1>3, <1>6, <1>7, <1>8, <1>9, CountStays

\* A verdict counts the runs as they were.
LEMMA JudgeCount ==
  ASSUME BaseInv, BaseInv', SoloInv, CountInv, NEW c \in Commands, NEW v, NEW u, JudgeCold(c, v) \/ JudgeWarm(c, v, u)
  PROVE  CountInv'
<1> DEFINE x == cmd[c]
           i == x.attempt
           f == files[i]
<1>1. At(c, "judge") /\ "judge" \in AtWork
  BY DEF JudgeCold, JudgeWarm, AtWork
<1>2. Single(c) /\ i \in Attempts /\ Shaped(x)
  BY <1>1, WorkingIs DEF Single
<1>3. /\ files' = files \/ \E k : files' = [files EXCEPT ![i] = [f EXCEPT !.checked = k]]
      /\ runs' = runs \/ runs' = [runs EXCEPT ![i] = Cleaned(i)]
      /\ \/ \E q : Goes(c, FailsWith(x, q))
         \/ \E q : Goes(c, Writes(x, q))
  <2>1. CASE JudgeCold(c, v)
    BY <2>1 DEF JudgeCold
  <2>2. CASE JudgeWarm(c, v, u)
    BY <2>2 DEF JudgeWarm
  <2> QED BY <2>1, <2>2
<1>4. \A j \in Attempts : Len(runs'[j]) = Len(runs[j])
  BY <1>2, <1>3, SoftenedByCleaning DEF Softens, Scrubs
<1>5. \A j \in Attempts : SameFile(files[j], files'[j])
  <2>1. \A j \in Attempts : SameFile(files[j], files[j])
    BY DEF SameFile
  <2>2. CASE files' = files
    BY <2>1, <2>2
  <2>3. CASE \E k : files' = [files EXCEPT ![i] = [f EXCEPT !.checked = k]]
    <3>1. PICK k : files' = [files EXCEPT ![i] = [f EXCEPT !.checked = k]]
      BY <2>3
    <3> DEFINE g == [f EXCEPT !.checked = k]
    <3>2. FileShape(f)
      BY <1>2, SameStays DEF FileGood
    <3>3. g.cold = f.cold /\ g.record = f.record
      <4> HIDE DEF f
      <4> QED BY <3>2, CheckedFields
    <3>4. files' = [files EXCEPT ![i] = g]
      BY <3>1
    <3> HIDE DEF g
    <3>5. SameFile(files[i], g)
      BY <3>3 DEF SameFile, Waiting
    <3> HIDE DEF f, x
    <3> QED BY <1>2, <2>1, <3>4, <3>5 DEF BaseInv, FilesInv
  <2> QED BY <1>3, <2>2, <2>3
<1>6. PICK y : Goes(c, y) /\ Like(y, x) /\ y.pc \in {"failing", "write"}
  <2>1. CASE \E q : Goes(c, FailsWith(x, q))
    BY <1>2, <2>1, FailsShape
  <2>2. CASE \E q : Goes(c, Writes(x, q))
    BY <1>2, <2>2, WritesShape
  <2> QED BY <1>3, <2>1, <2>2
<1>7. cmd'[c] = y /\ y # Idle
  BY <1>6 DEF Goes, BaseInv, CommandsInv, Idle
<1>8. \A j : Second(x, j) => Second(y, j)
  BY <1>6, <1>7 DEF Second, Like
<1> QED BY <1>2, <1>4, <1>5, <1>7, <1>8, CountStays

\* The numbers from one to one.
LEMMA OneOf ==
  (\A q \in 1 .. 1 : q = 1) /\ ~(1 < 1)
OBVIOUS

\* A number up to one that has a number below or beside it is one.
LEMMA OnlyOne ==
  ASSUME NEW m \in Nat, m <= 1, NEW n \in 1 .. m
  PROVE  m = 1
OBVIOUS

\* A pass needs two runs: the second comes after the first.
LEMMA TwoRuns ==
  ASSUME BaseInv, NEW i \in Attempts, NEW v, PassGood(i, files[i], runs[i], v), Len(runs[i]) = 1
  PROVE  FALSE
<1> DEFINE f == files[i]
           s == runs[i]
<1>1. FileGood(i, f, s) /\ SeqGood(i, s)
  BY SameStays
<1>2. f.cold.state = "cold" /\ v.cold = f.cold.run
  BY DEF PassGood
<1>3. ColdGood(i, s, f.cold)
  BY <1>1, <1>2 DEF FileGood, Absent, Half
<1>4. PICK m \in 1 .. Len(s) : s[m] = f.cold.run
  BY <1>3 DEF ColdGood
<1>5. f.cold.run.id = <<i, m>>
  BY <1>1, <1>4 DEF SeqGood
<1>6. v.cold.id[2] = m
  BY <1>2, <1>5
<1>7. PICK n \in 1 .. Len(s) : v.cold.id[2] < n
  BY DEF PassGood
<1>8. m = 1 /\ n = 1
  <2>1. \A q \in 1 .. 1 : q = 1
    BY OneOf
  <2>2. m \in 1 .. 1 /\ n \in 1 .. 1
    BY <1>4, <1>7
  <2> QED BY <2>1, <2>2, Zenon
<1>9. 1 < 1
  BY <1>6, <1>7, <1>8, Zenon
<1> QED BY <1>9, OneOf

\* A pass is filed after the second run, a cold run after the first.
LEMMA WriteCount ==
  ASSUME BaseInv, BaseInv', SoloInv, CountInv, NEW c \in Commands, WriteRecord(c)
  PROVE  CountInv'
<1> DEFINE x == cmd[c]
           i == x.attempt
           f == files[i]
           s == runs[i]
           v == x.value
           g == Filed(f, v.state, v)
<1>1. At(c, "write") /\ runs' = runs
  BY DEF WriteRecord, Space
<1>2. /\ Single(c) /\ i \in Attempts /\ Fits(x, f, s, previousRun[i], deliveryRun[i]) /\ ValueGood(i, f, s, v)
      /\ v.state \in Kinds /\ v # Absent /\ ~Taken(i, v.state)
  BY <1>1, WritingIs
<1>3. Goes(c, Idle) /\ files' = [files EXCEPT ![i] = g]
  BY <1>2 DEF WriteRecord
<1>4. FiledAs(f, v.state, v, g)
  <2>1. FileShape(f)
    BY <1>2, SameStays DEF FileGood
  <2> HIDE DEF f, v
  <2> QED BY <1>2, <2>1, FiledFields
<1> HIDE DEF g
<1>5. /\ files'[i] = g /\ \A j \in Attempts : j # i => files'[j] = files[j]
      /\ cmd'[c] = Idle
  <2> HIDE DEF x
  <2> QED BY <1>2, <1>3 DEF Goes, BaseInv, FilesInv, CommandsInv
<1>6. \A j \in Attempts : Counted(files[j], Len(runs[j]), x, j)
  BY <1>2, CountTo
<1>7. FileGood(i, f, s) /\ Len(s) \in Nat
  BY <1>2, SameStays
<1>8. Counted(g, Len(s), Idle, i)
  <2>1. CASE v.state = "cold"
    <3>1. g.record = Absent /\ f.cold = Absent
      BY <1>2, <1>4, <2>1 DEF FiledAs, Fits
    <3>2. Len(s) <= 1
      BY <1>7, <3>1 DEF FileGood
    <3>3. ColdGood(i, s, v)
      BY <1>2, <2>1, StateOf
    <3>4. PICK n \in 1 .. Len(s) : TRUE
      BY <3>3 DEF ColdGood
    <3>5. Len(s) = 1
      <4> HIDE DEF s
      <4> QED BY <1>7, <3>2, <3>4, OnlyOne
    <3> QED BY <3>1, <3>5 DEF Counted, Absent
  <2>2. CASE v.state \in {"review", "class"}
    <3>1. g.record = f.record /\ g.cold = f.cold
      BY <1>4, <2>2 DEF FiledAs
    <3>2. x.name # "rerun"
      BY <1>2, <2>2 DEF Fits
    <3>3. Counted(f, Len(s), x, i) /\ ~Second(x, i)
      BY <1>2, <1>6, <3>2 DEF Second
    <3> QED BY <3>1, <3>3 DEF Counted, Waiting
  <2>3. CASE v.state = "passed"
    <3>1. PassGood(i, f, s, v) /\ f.record = Absent
      BY <1>2, <2>3, StateOf DEF Fits
    <3>2. Waiting(f)
      BY <3>1 DEF PassGood, Waiting
    <3>3. Len(s) = 1 \/ Len(s) = 2
      BY <1>2, <1>6, <3>2 DEF Counted
    <3>4. Len(s) # 1
      <4> HIDE DEF x
      <4> QED BY <1>2, <3>1, TwoRuns
    <3>5. g.record # Absent
      BY <1>2, <1>4, <2>3 DEF FiledAs
    <3> QED BY <3>3, <3>4, <3>5 DEF Counted, Waiting
  <2>4. CASE v.state = "failed"
    <3>1. g.record = v
      BY <1>4, <2>4 DEF FiledAs
    <3> QED BY <1>2, <2>4, <3>1 DEF Counted, Waiting
  <2> QED BY <1>2, <2>1, <2>2, <2>3, <2>4 DEF Kinds
<1>9. ASSUME NEW j \in Attempts
      PROVE  Counted(files'[j], Len(runs'[j]), cmd'[c], j)
  <2>1. CASE j = i
    BY <1>1, <1>5, <1>8, <2>1
  <2>2. CASE j # i
    <3>1. Counted(files[j], Len(runs[j]), x, j) /\ ~Second(x, j)
      BY <1>6, <2>2 DEF Second
    <3> QED BY <1>1, <1>5, <2>2, <3>1 DEF Counted
  <2> QED BY <2>1, <2>2
<1> QED BY <1>9, CountFrom

\* A command that is killed without a trace had no second run to account for.
LEMMA KillCount ==
  ASSUME BaseInv, BaseInv', SoloInv, CountInv, ~cut', NEW c \in Commands, Kill(c)
  PROVE  CountInv'
<1> DEFINE x == cmd[c]
           i == x.attempt
<1>1. /\ runs' = runs /\ cmd[c] # Idle
      /\ files' = files \/ (At(c, "write") /\ files' = [files EXCEPT ![i] = Filed(files[i], x.value.state, Half)])
  BY DEF Kill, Space
<1>2. x.run = 0
  BY Zenon DEF Kill
<1>3. Single(c) /\ \A j : ~Second(x, j)
  BY <1>1, <1>2, Only DEF Single, Second
<1>4. \A j \in Attempts : SameFile(files[j], files'[j])
  <2>1. \A j \in Attempts : SameFile(files[j], files[j])
    BY DEF SameFile
  <2>2. CASE files' = files
    BY <2>1, <2>2
  <2>3. CASE At(c, "write") /\ files' = [files EXCEPT ![i] = Filed(files[i], x.value.state, Half)]
    <3> DEFINE f == files[i]
               k == x.value.state
               g == Filed(f, k, Half)
    <3>1. i \in Attempts /\ k \in Kinds
      BY <2>3, WritingIs
    <3>2. FiledAs(f, k, Half, g)
      <4>1. FileShape(f)
        BY <3>1, SameStays DEF FileGood
      <4> HIDE DEF f, k
      <4> QED BY <3>1, <4>1, FiledFields
    <3>3. files' = [files EXCEPT ![i] = g]
      BY <2>3
    <3> HIDE DEF g
    <3>4. /\ g.record = Half \/ g.record = f.record
          /\ g.cold = Half \/ g.cold = f.cold
      BY <3>2 DEF FiledAs
    <3>5. SameFile(files[i], g)
      BY <3>4 DEF SameFile, Waiting, Half, Absent
    <3> HIDE DEF f, x
    <3> QED BY <2>1, <3>1, <3>3, <3>5 DEF BaseInv, FilesInv
  <2> QED BY <1>1, <2>2, <2>3
<1>5. \A j \in Attempts : Len(runs'[j]) = Len(runs[j])
  BY <1>1
<1> QED BY <1>3, <1>4, <1>5, CountStays

\* A failure that is filed accounts for the runs before it.
LEMMA RecordCount ==
  ASSUME BaseInv, BaseInv', SoloInv, CountInv, ~unfiled', NEW c \in Commands, RecordFailure(c)
  PROVE  CountInv'
<1> DEFINE x == cmd[c]
           w == plans[x.plan]
<1>1. /\ At(c, "failing") /\ files' = files
      /\ runs' = runs \/ runs' = [j \in Attempts |-> Cleaned(j)]
  BY RecordIs
<1>2. /\ x.pc = "failing" /\ Shaped(x) /\ x.plan \in PlanPaths
      /\ CommandGood(x, files[x.attempt], runs[x.attempt], w)
  BY <1>1, AtIs DEF Pcs
<1>3. /\ Single(c)
      /\ CommandSolo(x, files, runs[x.attempt], previousRun[x.attempt], deliveryRun[x.attempt], w)
  BY <1>1, AtSolo DEF Pcs, Single
<1>4. \A j \in Attempts : Len(runs'[j]) = Len(runs[j]) /\ SameFile(files[j], files'[j])
  BY <1>1, SoftenedByCleaning DEF Softens, Scrubs, SameFile
<1>5. ASSUME NEW i \in Attempts, Waiting(files[i]), Len(runs[i]) = 2, Second(x, i)
      PROVE  Second(cmd'[c], i)
  <2> DEFINE f == files[i]
  <2>1. x.name = "rerun" /\ x.attempt = i /\ x.run = 2 /\ x.run # 0
    BY <1>5 DEF Second
  <2>2. f.workspace /\ f.record = Absent /\ AllRead(files, w) /\ Reviewed(f, w)
    BY <1>2, <1>3, <2>1 DEF CommandSolo
  <2>3. i = Latest
    BY <2>2, FailedOnLatest
  <2>4. Holds(x.plan)
    <3>1. unfiled' = (unfiled \/ (x.run # 0 /\ ~Holds(x.plan)))
      BY Zenon DEF RecordFailure
    <3> QED BY <2>1, <3>1, Zenon
  <2>5. StateReads(x.plan)
    BY <2>2, StateIsRead
  <2>6. Pending # {}
    <3>1. Latest \in 1 .. Latest
      <4>1. MaxTries \in Nat /\ Latest \in 0 .. MaxTries /\ Latest \in 1 .. MaxTries
        BY <2>3, GateAssumption, LatestIs DEF Attempts
      <4> QED BY <4>1
    <3> QED BY <2>2, <2>3, <3>1 DEF Pending
  <2>7. f.cold # Absent /\ f.review # Absent
    BY <2>2 DEF Reviewed, Absent
  <2>8. PhaseFailed(x, Latest)
    <3>1. x.reason \notin Refusals
      BY <1>2, <2>1 DEF CommandGood
    <3>2. PhaseOf(Latest) = "cache_rerun"
      BY <2>3, <2>7 DEF PhaseOf
    <3> QED BY <2>1, <3>1, <3>2 DEF PhaseFailed, Refusals
  <2>9. ~TooManyRuns(Latest)
    <3>1. TooManyRuns(Latest) <=> Len(runs[i]) > 2
      BY <2>3, <2>7 DEF TooManyRuns
    <3>2. ~(2 > 2)
      OBVIOUS
    <3> QED BY <1>5, <3>1, <3>2, Zenon
  <2>10. \E v : Goes(c, Writes([x EXCEPT !.attempt = Latest], v))
    BY <2>4, <2>5, <2>6, <2>8, <2>9, Zenon DEF RecordFailure
  <2>11. PICK v : Goes(c, Writes([x EXCEPT !.attempt = Latest], v))
    BY <2>10
  <2> DEFINE z == [x EXCEPT !.attempt = Latest]
             y == Writes(z, v)
  <2>12. Shaped(z) /\ z.name = x.name /\ z.attempt = Latest /\ z.run = x.run
    BY <1>2, AttemptShape
  <2>13. Goes(c, y)
    BY <2>11
  <2> HIDE DEF z
  <2>14. Like(y, z) /\ y.pc = "write"
    BY <2>12, WritesShape
  <2> HIDE DEF y
  <2>15. cmd'[c] = y /\ y # Idle
    BY <2>13, <2>14 DEF Goes, BaseInv, CommandsInv, Idle
  <2> QED BY <2>1, <2>3, <2>12, <2>14, <2>15 DEF Second, Like
<1> QED BY <1>3, <1>4, <1>5, CountStays

\* What no command does counts no run.
LEMMA QuietCount ==
  ASSUME CountInv, UNCHANGED <<files, runs, cmd>>
  PROVE  CountInv'
BY DEF CountInv

\* The third part of the invariant holds in an empty directory.
LEMMA CountStarts ==
  ASSUME GateInit
  PROVE  CountInv
<1>1. \A i \in Attempts : files[i].record.state # "passed" /\ files[i].cold.state # "cold"
  BY DEF GateInit, NoAttempt, Absent
<1> QED BY <1>1 DEF CountInv

\* The third part of the invariant holds after every step by which none meet, are cut short or go unfiled.
LEMMA CountHolds ==
  ASSUME BaseInv, BaseInv', [GateNext]_gateVars, SoloInv, CountInv, ~met', ~cut', ~unfiled'
  PROVE  CountInv'
<1>1. CASE UNCHANGED gateVars
  BY <1>1, QuietCount DEF gateVars
<1>2. CASE WorldChanges
  BY <1>2, QuietCount DEF WorldChanges
<1>3. CASE \E p \in PlanPaths : PreparePlan(p) \/ \E i \in Attempts : Seal(p, i)
  BY <1>3, QuietCount DEF PreparePlan, Seal
<1>5. ASSUME NEW c \in Commands, Step(c)
      PROVE  CountInv'
  <2>1. CASE \E p \in PlanPaths, k \in Refusals \cup {""} : Execute(c, p, k) \/ Rerun(c, p, k)
    BY <2>1, StartingCount
  <2>2. CASE MakeDirectory(c, "workspace", "private") \/ MakeDirectory(c, "private", "run")
    BY <2>2, DirectoryCount
  <2>3. CASE StartRun(c)
    BY <2>3, StartCount
  <2>4. CASE \E o \in Outcomes : FinishRun(c, o)
    BY <2>4, FinishCount
  <2>5. CASE \E v \in Verdicts : JudgeCold(c, v) \/ \E u \in Verdicts : JudgeWarm(c, v, u)
    BY <2>5, JudgeCount
  <2>6. CASE \E p \in PlanPaths, passed \in BOOLEAN : \E run : Review(c, p, run, passed)
    BY <2>6, DecidingCount
  <2>7. CASE \E p \in PlanPaths, i \in Attempts : \E k : Classify(c, p, i, k)
    BY <2>7, DecidingCount
  <2>8. CASE WriteRecord(c) \/ Kill(c) \/ RecordFailure(c)
    BY <2>8, WriteCount, KillCount, RecordCount
  <2>9. \/ \E p \in PlanPaths, k \in Refusals \cup {""} : Execute(c, p, k) \/ Rerun(c, p, k)
        \/ MakeDirectory(c, "workspace", "private") \/ MakeDirectory(c, "private", "run")
        \/ StartRun(c)
        \/ \E o \in ColdOutcomes : FinishRun(c, o)
        \/ \E o \in WarmOutcomes : FinishRun(c, o)
        \/ \E v \in Verdicts : JudgeCold(c, v) \/ \E u \in Verdicts : JudgeWarm(c, v, u)
        \/ \E p \in PlanPaths, passed \in BOOLEAN : \E run : Review(c, p, run, passed)
        \/ \E p \in PlanPaths, i \in Attempts : \E k : Classify(c, p, i, k)
        \/ WriteRecord(c) \/ Kill(c) \/ RecordFailure(c)
    BY <1>5, Zenon DEF Step
  <2>10. (\E o \in ColdOutcomes : FinishRun(c, o)) \/ (\E o \in WarmOutcomes : FinishRun(c, o))
         => \E o \in Outcomes : FinishRun(c, o)
    BY DEF Outcomes
  <2> QED BY <2>1, <2>2, <2>3, <2>4, <2>5, <2>6, <2>7, <2>8, <2>9, <2>10
<1> QED BY <1>1, <1>2, <1>3, <1>5 DEF GateNext

\* What has happened once has happened: no step undoes the marks.
LEMMA Marks ==
  ASSUME [GateNext]_gateVars
  PROVE  (met => met') /\ (cut => cut') /\ (unfiled => unfiled')
<1>1. CASE UNCHANGED gateVars
  BY <1>1 DEF gateVars
<1>2. CASE WorldChanges \/ \E p \in PlanPaths : PreparePlan(p) \/ \E i \in Attempts : Seal(p, i)
  BY <1>2 DEF WorldChanges, PreparePlan, Seal
<1>3. ASSUME NEW c \in Commands, Step(c)
      PROVE  (met => met') /\ (cut => cut') /\ (unfiled => unfiled')
  <2>1. met => met'
    BY <1>3, Zenon DEF Step, Execute, Rerun, MakeDirectory, StartRun, FinishRun, JudgeCold, JudgeWarm, Review,
       Classify, WriteRecord, Kill, RecordFailure, Free, Budget
  <2>2. cut => cut'
    BY <1>3, Zenon DEF Step, Execute, Rerun, MakeDirectory, StartRun, FinishRun, JudgeCold, JudgeWarm, Review,
       Classify, WriteRecord, Kill, RecordFailure, Disk
  <2>3. unfiled => unfiled'
    BY <1>3, Zenon DEF Step, Execute, Rerun, MakeDirectory, StartRun, FinishRun, JudgeCold, JudgeWarm, Review,
       Classify, WriteRecord, Kill, RecordFailure, Disk
  <2> QED BY <2>1, <2>2, <2>3
<1> QED BY <1>1, <1>2, <1>3 DEF GateNext

\* The invariant holds in an empty directory.
LEMMA GateStarts ==
  ASSUME GateInit
  PROVE  GateInv
BY BaseStarts, SoloStarts, CountStarts DEF GateInv

\* The invariant holds after every step.
LEMMA GateHolds ==
  ASSUME GateInv, [GateNext]_gateVars
  PROVE  GateInv'
<1>1. BaseInv /\ BaseInv'
  BY BaseHolds DEF GateInv
<1>2. (met => met') /\ (cut => cut') /\ (unfiled => unfiled')
  BY Marks
<1>3. ~met' => SoloInv'
  BY <1>1, <1>2, SoloHolds DEF GateInv
<1>4. ~met' /\ ~cut' /\ ~unfiled' => CountInv'
  BY <1>1, <1>2, CountHolds DEF GateInv
<1> QED BY <1>1, <1>3, <1>4 DEF GateInv

-----------------------------------------------------------------------------
(* What passes is earned                                                    *)

\* What the invariant says of a pass and of the attempts before it.
LEMMA PassIs ==
  ASSUME BaseInv, NEW i \in Attempts, files[i].record.state = "passed"
  PROVE  LET f == files[i]
             s == runs[i]
             v == f.record IN
         /\ PassGood(i, f, s, v) /\ ColdGood(i, s, f.cold) /\ ReviewGood(i, f, f.review)
         /\ f.workspace /\ f.private /\ f.class = Absent
<1> DEFINE f == files[i]
           s == runs[i]
           v == f.record
<1>1. FileGood(i, f, s)
  BY SameStays
<1>2. PassGood(i, f, s, v)
  BY <1>1 DEF FileGood, FailGood, Absent, Half
<1>3. f.cold.state = "cold" /\ f.review.state = "review"
  BY <1>2 DEF PassGood
<1>4. ColdGood(i, s, f.cold)
  BY <1>1, <1>3 DEF FileGood, Absent, Half
<1>5. ReviewGood(i, f, f.review)
  BY <1>1, <1>3 DEF FileGood, Absent, Half
<1>6. f.private
  <2>1. Entered.record = Absent
    BY ReadsFresh
  <2> QED BY <1>1, <2>1 DEF FileGood, NoAttempt, Absent
<1>7. f.workspace
  BY <1>6, SameStays
<1>8. f.class = Absent
  BY <1>1 DEF FileGood, Open
<1> QED BY <1>2, <1>4, <1>5, <1>6, <1>7, <1>8

\* A pass names two runs of its attempt, the cold run before the cache rerun.
LEMMA PairOfRuns ==
  ASSUME BaseInv, NEW i \in Attempts, files[i].record.state = "passed"
  PROVE  \E a, b \in 1 .. Len(runs[i]) :
            /\ a < b /\ runs[i][a] = files[i].record.cold /\ runs[i][b] = files[i].record.warm
            /\ runs[i][a].id = <<i, a>> /\ runs[i][b].id = <<i, b>>
<1> DEFINE f == files[i]
           s == runs[i]
           v == f.record
<1>1. PassGood(i, f, s, v) /\ ColdGood(i, s, f.cold)
  BY PassIs
<1>2. SeqGood(i, s)
  BY SameStays
<1>3. PICK a \in 1 .. Len(s) : s[a] = f.cold.run
  BY <1>1 DEF ColdGood
<1>4. v.cold = f.cold.run
  BY <1>1 DEF PassGood
<1>5. PICK b \in 1 .. Len(s) : s[b] = v.warm /\ v.cold.id[2] < b
  BY <1>1 DEF PassGood
<1>6. s[a].id = <<i, a>> /\ s[b].id = <<i, b>>
  BY <1>2 DEF SeqGood
<1>7. v.cold.id[2] = a
  BY <1>3, <1>4, <1>6
<1>8. a < b /\ s[a] = v.cold
  BY <1>3, <1>4, <1>5, <1>7
<1> QED BY <1>5, <1>6, <1>8

\* A run without a reason against it ran the inputs and the candidate of its plan, as the contract asks.
LEMMA SummaryFacts ==
  ASSUME NEW r, NEW w, NEW warm \in BOOLEAN, Summary(r, w, warm) = ""
  PROVE  /\ r.status = "succeeded" /\ r.contract /\ r.inputs = w.inputs /\ r.candidate = w.candidate
         /\ Services(r, warm) /\ CacheFacts(r, warm) /\ r.videos # 0 /\ r.installation = w.installation
<1>1. r.status = "succeeded" /\ Contract(r, w) /\ Services(r, warm) /\ CacheFacts(r, warm) /\ r.videos # 0
      /\ InstalledAs(r, w)
  BY DEF Summary
<1> QED BY <1>1 DEF Contract, InstalledAs

\* A pass was earned: by two runs of its plan and a review of the first.
LEMMA PassEarned ==
  ASSUME BaseInv, NEW i \in Attempts, files[i].record.state = "passed"
  PROVE  Earned(i)
<1> DEFINE f == files[i]
           s == runs[i]
           v == f.record
<1>1. PassGood(i, f, s, v) /\ ColdGood(i, s, f.cold) /\ ReviewGood(i, f, f.review)
  BY PassIs
<1>2. PICK a, b \in 1 .. Len(s) : a < b /\ s[a] = v.cold /\ s[b] = v.warm
  BY PairOfRuns
<1>3. /\ v.plan = f.cold.plan /\ v.cold = f.cold.run /\ ~v.warm.leak /\ ~v.cold.leak
      /\ Summary(v.cold, v.plan.facts, FALSE) = "" /\ Summary(v.warm, v.plan.facts, TRUE) = ""
      /\ v.warm.projection = v.cold.projection
  BY <1>1 DEF PassGood, ColdGood
<1>4. Asked(v.cold) = Capabilities /\ Asked(v.warm) = {}
  BY <1>3, SummaryFacts DEF Services
<1>5. \A x \in {v.cold, v.warm} : /\ x.status = "succeeded" /\ x.inputs = v.plan.facts.inputs
                                  /\ x.installation = v.plan.facts.installation
  <2> DEFINE first == v.cold
             second == v.warm
             w == v.plan.facts
  <2>3. Summary(first, w, FALSE) = "" /\ Summary(second, w, TRUE) = ""
    BY <1>3
  <2> HIDE DEF first, second, w, f, s, v
  <2>4. first.status = "succeeded" /\ first.inputs = w.inputs /\ first.installation = w.installation
    BY <2>3, SummaryFacts
  <2>5. second.status = "succeeded" /\ second.inputs = w.inputs /\ second.installation = w.installation
    BY <2>3, SummaryFacts
  <2> QED BY <2>4, <2>5 DEF first, second, w
<1>6. a \in DOMAIN s /\ b \in DOMAIN s
  BY <1>2, SameStays, LenProperties
<1>7. {a, b} \cap Leaked(i) = {}
  BY <1>2, <1>3 DEF Leaked
<1>8. /\ f.review.state = "review" /\ f.review.run = v.cold.id /\ f.review.plan = v.plan /\ f.cold.plan = v.plan
  BY <1>1, <1>3 DEF ReviewGood
<1>9. v.cold.projection = v.warm.projection
  BY <1>3
<1> HIDE DEF f, s
<1>10. /\ a < b /\ s[a] = v.cold /\ s[b] = v.warm /\ a \in DOMAIN s /\ b \in DOMAIN s
       /\ Asked(v.cold) = Capabilities /\ Asked(v.warm) = {}
       /\ \A x \in {v.cold, v.warm} : /\ x.status = "succeeded" /\ x.inputs = v.plan.facts.inputs
                                      /\ x.installation = v.plan.facts.installation
       /\ v.cold.projection = v.warm.projection /\ {a, b} \cap Leaked(i) = {}
       /\ f.review.state = "review" /\ f.review.run = v.cold.id /\ f.review.plan = v.plan /\ f.cold.plan = v.plan
  BY <1>2, <1>4, <1>5, <1>6, <1>7, <1>8, <1>9
<1> QED BY <1>10 DEF Earned, f, s

\* What the invariant says of an attempt that is excused.
LEMMA ExcusedIs ==
  ASSUME BaseInv, NEW i \in Attempts, Excusing(files[i])
  PROVE  LET f == files[i]
             s == runs[i]
             v == f.record IN
         /\ v.state = "failed" /\ v.attempt = i /\ f.class # Absent
         /\ \/ v.failure = Away /\ v.phase = "cold_run" /\ f.cold = Absent /\ Transient(s) /\ v.runs = <<s[1].id>>
            \/ v.failure = NoLaunch
         /\ f.class = Half \/ ClassGood(i, f, f.class)
<1> DEFINE f == files[i]
           s == runs[i]
           v == f.record
<1>1. FileGood(i, f, s)
  BY SameStays
<1>2. v.state = "failed" /\ v.failure.class # "candidate_rejected" /\ f.class # Absent
  BY DEF Excusing, Open
<1>3. FailGood(i, f, s, v)
  BY <1>1, <1>2 DEF FileGood, PassGood, Absent, Half
<1>4. v.failure # Rejection
  BY <1>2, FailureClasses
<1>5. f.class = Half \/ ClassGood(i, f, f.class)
  BY <1>1, <1>2 DEF FileGood
<1> QED BY <1>2, <1>3, <1>4, <1>5 DEF FailGood

\* Whoever starts another attempt has an excuse for the last one, and it deserves it.
LEMMA EarlierExcused ==
  ASSUME BaseInv, NEW i \in Attempts, NEW j \in Attempts, i < j, files[j].workspace
  PROVE  Excusing(files[i]) /\ Deserved(i)
<1>1. Excusing(files[i])
  BY DEF BaseInv, FilesInv
<1> DEFINE f == files[i]
           s == runs[i]
           v == f.record
<1>2. /\ v.state = "failed" /\ f.class # Absent
      /\ \/ v.failure = Away /\ v.phase = "cold_run" /\ f.cold = Absent /\ Transient(s) /\ v.runs = <<s[1].id>>
         \/ v.failure = NoLaunch
  BY <1>1, ExcusedIs
<1>3. CASE v.failure = Away /\ f.cold = Absent /\ Transient(s)
  <2>1. 1 \in DOMAIN s /\ s[1].status = "failed" /\ s[1].code = "transient"
    BY <1>3, SameStays, LenProperties DEF Transient
  <2>2. v.failure.class = "provider_transient"
    BY <1>3, FailureClasses
  <2>3. \E n \in DOMAIN s : s[n].status = "failed" /\ s[n].code = "transient"
    BY <2>1
  <2>4. v.state = "failed" /\ f.class # Absent /\ f.cold = Absent
    BY <1>2, <1>3
  <2> QED BY <1>1, <2>2, <2>3, <2>4, Zenon DEF Deserved
<1>4. CASE v.failure = NoLaunch
  <2>1. v.failure.reason = "independent_validation.launch_failed" /\ v.state = "failed" /\ f.class # Absent
    BY <1>2, <1>4, FailureClasses
  <2> QED BY <1>1, <2>1, Zenon DEF Deserved
<1> QED BY <1>1, <1>2, <1>3, <1>4

\* What passes is earned, and every attempt before it is excused.
LEMMA EarnedPasses ==
  ASSUME GateInv
  PROVE  PassesAreEarned
<1> SUFFICES ASSUME NEW i \in Attempts
             PROVE  /\ files[i].record.state = "passed" =>
                          /\ Earned(i)
                          /\ ~met /\ ~cut /\ ~unfiled => Len(runs[i]) = 2
                          /\ ~met => Leaked(i) = {}
                    /\ i < Latest => Deserved(i)
  BY DEF PassesAreEarned
<1>0. BaseInv
  BY DEF GateInv
<1>1. ASSUME files[i].record.state = "passed", ~met
      PROVE  Leaked(i) = {}
  <2>1. PassSolo(files[i], runs[i], previousRun[i], deliveryRun[i], files[i].record)
    BY <1>1 DEF GateInv, SoloInv, FileSolo
  <2>2. \A n \in 1 .. Len(runs[i]) : ~runs[i][n].leak
    BY <2>1 DEF PassSolo
  <2> QED BY <1>0, <2>2, SameStays, LenProperties DEF Leaked
<1>2. ASSUME files[i].record.state = "passed", ~met /\ ~cut /\ ~unfiled
      PROVE  Len(runs[i]) = 2
  BY <1>2 DEF GateInv, CountInv
<1>3. ASSUME i < Latest
      PROVE  Deserved(i)
  <2>1. MaxTries \in Nat /\ Latest \in 0 .. MaxTries /\ i \in 1 .. MaxTries
    BY <1>0, GateAssumption, LatestIs DEF Attempts
  <2>2. Latest \in Attempts /\ Latest <= Latest
    BY <1>3, <2>1 DEF Attempts
  <2>3. files[Latest].workspace
    BY <1>0, <2>2, LatestIs
  <2> QED BY <1>0, <1>3, <2>2, <2>3, EarlierExcused
<1> QED BY <1>0, <1>1, <1>2, <1>3, PassEarned

\* What the commands have written reads back, unless they met or one left half a file.
LEMMA LegibleHolds ==
  ASSUME GateInv
  PROVE  Legible
<1> SUFFICES ASSUME ~met, ~torn, Latest > 0
             PROVE  \/ \E p \in PlanPaths : plans[p].state = "plan" /\ StateReads(p)
                    \/ \E c \in Commands : At(c, "private")
  BY DEF Legible
<1>1. BaseInv /\ LegibleInv
  BY DEF GateInv, SoloInv
<1>2. MaxTries \in Nat /\ Latest \in 0 .. MaxTries
  BY <1>1, GateAssumption, LatestIs
<1>3. Latest \in Attempts /\ Latest <= Latest
  BY <1>2 DEF Attempts
<1>4. files[Latest].workspace
  BY <1>1, <1>3, LatestIs
<1>5. \/ \E p \in PlanPaths : plans[p].state = "plan" /\ AllRead(files, plans[p])
      \/ \E c \in Commands : cmd[c].pc = "private"
  BY <1>1, <1>3, <1>4 DEF LegibleInv
<1> QED BY <1>1, <1>5, StateIsRead DEF At

\* A pass is the last attempt there is.
LEMMA OnlyOnePass ==
  ASSUME BaseInv
  PROVE  OnePass
<1>1. ASSUME NEW i \in Attempts, NEW j \in Attempts, files[i].record.state = "passed",
             files[j].record.state = "passed", i < j
      PROVE  FALSE
  <2>1. files[j].workspace
    BY <1>1, PassIs
  <2>2. Excusing(files[i])
    BY <1>1, <2>1, EarlierExcused
  <2> QED BY <1>1, <2>2 DEF Excusing, Open
<1>2. ASSUME NEW i \in Attempts, NEW j \in Attempts, files[i].record.state = "passed",
             files[j].record.state = "passed"
      PROVE  i = j
  <2>1. MaxTries \in Nat /\ i \in Nat /\ j \in Nat
    BY GateAssumption DEF Attempts
  <2>2. ~(i < j) /\ ~(j < i)
    BY <1>1, <1>2
  <2> QED BY <2>1, <2>2
<1>3. ASSUME sealed # 0
      PROVE  files[sealed].record.state = "passed" /\ Earned(sealed) /\ \A j \in 1 .. (sealed - 1) : Deserved(j)
  <2>1. sealed \in Attempts /\ files[sealed].record.state = "passed"
    BY <1>3 DEF BaseInv, SealInv
  <2>2. files[sealed].workspace
    BY <2>1, PassIs
  <2>3. MaxTries \in Nat
    BY GateAssumption
  <2>4. \A j \in 1 .. (sealed - 1) : j \in Attempts /\ j < sealed
    BY <2>1, <2>3 DEF Attempts
  <2> QED BY <2>1, <2>2, <2>4, PassEarned, EarlierExcused
<1> QED BY <1>2, <1>3 DEF OnePass

-----------------------------------------------------------------------------
(* What passes can be sealed, and the theorems                              *)

\* The seal asks of a pass what the gate let it pass for: the plan still describes the host.
LEMMA HostSays ==
  ASSUME NEW p, Holds(p)
  PROVE  CrossCheck(world) /\ PlanSays(p)
<1> DEFINE w == plans[p].facts
<1>1. plans[p].state = "plan" /\ CandidateHolds(w) /\ GatesHold(w) /\ InputsHold(w) /\ ToolsHold(w)
  BY DEF Holds
<1>2. CrossCheck(world)
  BY <1>1 DEF GatesHold, Gated, CrossCheck
<1>3. CandidateSays(w) /\ InstallationSays(w)
  BY <1>1 DEF CandidateHolds, Installed, CandidateSays, InstallationSays
<1>4. GatesSay(w) /\ ToolsSay(w) /\ InputsSay(w)
  BY <1>1 DEF GatesHold, ToolsHold, Equipped, InputsHold, GatesSay, ToolsSay, InputsSay
<1> QED BY <1>1, <1>2, <1>3, <1>4 DEF PlanSays

\* The cache of a run that succeeded is counted as the seal counts it.
LEMMA CacheOK ==
  ASSUME NEW r \in RunRecords, r.status = "succeeded"
  PROVE  /\ DOMAIN r.cache \subseteq Namespaces /\ r.cache \in [DOMAIN r.cache -> [hits : Nat, misses : Nat, writes : Nat]]
         /\ FromCache(r.cache) /\ "transcription_shard" \in DOMAIN r.cache => r.cache["transcription_shard"] = Unused
<1>1. PICK o \in Outcomes : r.cache = o.cache
  BY RunFacts
<1>2. OutcomeOK(o)
  BY GateAssumption DEF Outcomes
<1> QED BY <1>1, <1>2 DEF OutcomeOK

\* A natural number is zero or positive.
LEMMA Positive ==
  \A n \in Nat : (n # 0 => n > 0) /\ (~(n > 0) => n = 0)
OBVIOUS

\* A cold run that the gate let pass says what the seal asks of it.
LEMMA ColdSays ==
  ASSUME NEW r \in RunRecords, NEW w, Summary(r, w, FALSE) = ""
  PROVE  RunSays(r, FALSE) /\ r.videos > 0
<1>1. r.status = "succeeded" /\ Services(r, FALSE) /\ CacheFacts(r, FALSE) /\ r.videos # 0
  BY SummaryFacts
<1>2. r.requests \in [Capabilities -> Nat] /\ r.videos \in Nat
  BY <1>1, RunFacts
<1>3. r.videos > 0
  BY <1>1, <1>2, Positive, Zenon
<1>4. ProvidersSay(r, FALSE)
  <2>1. Asked(r) = Capabilities
    BY <1>1 DEF Services
  <2> QED BY <2>1 DEF Asked, ProvidersSay, ProviderSays
<1>5. CachesSay(r, FALSE)
  <2>1. Filled(r)
    BY <1>1 DEF CacheFacts
  <2>2. DOMAIN r.cache = Namespaces
    BY <2>1 DEF Filled
  <2>3. DOMAIN CacheOf(r, FALSE) = Namespaces /\ \A n \in Namespaces : CacheOf(r, FALSE)[n] = r.cache[n]
    BY <2>2 DEF CacheOf
  <2>4. \A n \in Namespaces : CacheSays(n, r.cache[n], FALSE)
    BY <2>1 DEF Filled, CacheSays
  <2> QED BY <2>3, <2>4 DEF CachesSay
<1> QED BY <1>1, <1>3, <1>4, <1>5 DEF RunSays

\* So does a cache rerun.
LEMMA WarmSays ==
  ASSUME NEW r \in RunRecords, NEW w, Summary(r, w, TRUE) = ""
  PROVE  RunSays(r, TRUE) /\ r.videos > 0
<1>1. r.status = "succeeded" /\ Services(r, TRUE) /\ CacheFacts(r, TRUE) /\ r.videos # 0
  BY SummaryFacts
<1>2. r.requests \in [Capabilities -> Nat] /\ r.videos \in Nat
  BY <1>1, RunFacts
<1>3. r.videos > 0
  BY <1>1, <1>2, Positive, Zenon
<1>4. ProvidersSay(r, TRUE)
  <2>1. Asked(r) = {}
    BY <1>1 DEF Services
  <2>2. \A c \in Capabilities : ~(r.requests[c] > 0) /\ r.requests[c] \in Nat
    BY <1>2, <2>1 DEF Asked
  <2>3. \A c \in Capabilities : r.requests[c] = 0
    BY <2>2, Positive, Zenon
  <2> QED BY <2>3 DEF ProvidersSay, ProviderSays
<1>5. CachesSay(r, TRUE)
  <2>1. Reused(r)
    BY <1>1 DEF CacheFacts
  <2>2. /\ \A n \in DOMAIN r.cache : r.cache[n].misses = 0 /\ r.cache[n].writes = 0
        /\ RequiredHits \subseteq DOMAIN r.cache /\ \A n \in RequiredHits : r.cache[n].hits > 0
    BY <2>1 DEF Reused
  <2>3. DOMAIN r.cache \subseteq Namespaces
    BY <1>1, CacheOK
  <2>4. DOMAIN CacheOf(r, TRUE) = DOMAIN r.cache \cup {"transcription_shard"}
    BY DEF CacheOf
  <2>5. DOMAIN CacheOf(r, TRUE) = Namespaces
    BY <2>2, <2>3, <2>4 DEF RequiredHits, Namespaces
  <2>6. \A n \in RequiredHits : CacheOf(r, TRUE)[n] = r.cache[n] /\ n # "transcription_shard"
    BY <2>2 DEF CacheOf, RequiredHits
  <2>7. \A n \in RequiredHits : CacheSays(n, CacheOf(r, TRUE)[n], TRUE)
    BY <2>2, <2>6 DEF CacheSays
  <2>8. FromCache(r.cache)
    <3>1. "transcript" \in RequiredHits
      BY DEF RequiredHits, Namespaces
    <3> QED BY <2>2, <3>1 DEF FromCache
  <2>9. CacheOf(r, TRUE)["transcription_shard"] = Unused
    <3>1. "transcription_shard" \in DOMAIN r.cache => r.cache["transcription_shard"] = Unused
      BY <1>1, <2>8, CacheOK
    <3> QED BY <3>1 DEF CacheOf
  <2>10. CacheSays("transcription_shard", CacheOf(r, TRUE)["transcription_shard"], TRUE)
    BY <2>9 DEF CacheSays
  <2>11. \A n \in Namespaces : CacheSays(n, CacheOf(r, TRUE)[n], TRUE)
    BY <2>7, <2>10 DEF RequiredHits
  <2> QED BY <2>5, <2>11 DEF CachesSay
<1> QED BY <1>1, <1>3, <1>4, <1>5 DEF RunSays

\* The runs a failure names are runs of its attempt, each once.
WellNamed(i, s, v) ==
    /\ v.runs # <<>> /\ Len(v.runs) \in DOMAIN v.runs
    /\ Cardinality({v.runs[k] : k \in DOMAIN v.runs}) = Len(v.runs)
    /\ \A k \in DOMAIN v.runs : \E n \in 1 .. Len(s) : v.runs[k] = s[n].id /\ s[n].id = <<i, n>>
\* The runs that a failure names are runs of its attempt, by their numbers.
LEMMA NamedRuns ==
  ASSUME NEW i, NEW s, SeqGood(i, s), NEW v, NamesRuns(s, v)
  PROVE  WellNamed(i, s, v)
<1>1. \A n \in 1 .. Len(s) : s[n].id = <<i, n>>
  BY DEF SeqGood
<1>2. CASE \E a \in 1 .. Len(s) : v.runs = <<s[a].id>>
  <2>1. PICK a \in 1 .. Len(s) : v.runs = <<s[a].id>>
    BY <1>2
  <2> DEFINE q == s[a].id
  <2> HIDE DEF q
  <2>2. v.runs = <<q>>
    BY <2>1 DEF q
  <2>3. DOMAIN <<q>> = {1} /\ <<q>>[1] = q /\ Len(<<q>>) = 1 /\ <<q>> # <<>>
    OBVIOUS
  <2>4. {v.runs[k] : k \in DOMAIN v.runs} = {q}
    BY <2>2, <2>3
  <2>5. Cardinality({q}) = 1
    BY FS_Singleton
  <2>6. \A k \in DOMAIN v.runs : v.runs[k] = s[a].id /\ s[a].id = <<i, a>>
    BY <1>1, <2>2, <2>3 DEF q
  <2> QED BY <2>2, <2>3, <2>4, <2>5, <2>6 DEF WellNamed
<1>3. CASE \E a, b \in 1 .. Len(s) : a # b /\ v.runs = <<s[a].id, s[b].id>>
  <2>1. PICK a \in 1 .. Len(s), b \in 1 .. Len(s) : a # b /\ v.runs = <<s[a].id, s[b].id>>
    BY <1>3
  <2> DEFINE q == s[a].id
             r == s[b].id
  <2>0. q # r /\ q = <<i, a>> /\ r = <<i, b>>
    BY <1>1, <2>1
  <2> HIDE DEF q, r
  <2>2. v.runs = <<q, r>>
    BY <2>1 DEF q, r
  <2>3. /\ DOMAIN <<q, r>> = {1, 2} /\ <<q, r>>[1] = q /\ <<q, r>>[2] = r /\ Len(<<q, r>>) = 2 /\ <<q, r>> # <<>>
    OBVIOUS
  <2>4. {v.runs[k] : k \in DOMAIN v.runs} = {q} \cup {r}
    BY <2>2, <2>3
  <2>5. Cardinality({q} \cup {r}) = 2
    <3>1. IsFiniteSet({q}) /\ Cardinality({q}) = 1 /\ r \notin {q}
      BY <2>0, FS_Singleton
    <3>2. Cardinality({q} \cup {r}) = Cardinality({q}) + 1
      BY <3>1, FS_AddElement
    <3> QED BY <3>1, <3>2
  <2>6. \A k \in DOMAIN v.runs : (v.runs[k] = s[a].id /\ s[a].id = <<i, a>>) \/ (v.runs[k] = s[b].id /\ s[b].id = <<i, b>>)
    BY <2>0, <2>2, <2>3 DEF q, r
  <2> QED BY <2>1, <2>2, <2>3, <2>4, <2>5, <2>6 DEF WellNamed
<1> QED BY <1>2, <1>3 DEF NamesRuns

\* An attempt before another is not the other.
LEMMA OneBefore ==
  \A m, n \in 1 .. MaxTries : m < n => n # m
BY GateAssumption

\* An attempt before a pass is excused for the seal too, if its runs ran as planned.
LEMMA FailureExcused ==
  ASSUME BaseInv, SoloInv, NEW i \in Attempts, files[i].record.state = "passed", NEW j \in Attempts, j < i,
         NEW p \in PlanPaths, files[i].record.plan = plans[p], RanAsPlanned(j, p)
  PROVE  Excused(j, p, {files[i].record.cold.id, files[i].record.warm.id})
<1> DEFINE f == files[j]
           s == runs[j]
           v == f.record
           w == plans[p]
           others == {files[i].record.cold.id, files[i].record.warm.id}
           failed == v.runs[Len(v.runs)]
<1>1. files[i].workspace
  BY PassIs
<1>2. Excusing(f) /\ f.workspace
  BY <1>1 DEF BaseInv, FilesInv
<1>3. SeqGood(j, s) /\ Len(s) \in Nat /\ DOMAIN s = 1 .. Len(s)
  BY SameStays, LenProperties
<1>4. /\ v.state = "failed" /\ v.attempt = j /\ f.class # Absent
      /\ \/ v.failure = Away /\ v.phase = "cold_run" /\ f.cold = Absent /\ Transient(s) /\ v.runs = <<s[1].id>>
         \/ v.failure = NoLaunch
      /\ f.class = Half \/ ClassGood(j, f, f.class)
  BY <1>2, ExcusedIs
<1>5. Reads(f, w)
  <2>1. AllRead(files, w)
    BY DEF SoloInv
  <2> QED BY <1>2, <2>1 DEF AllRead
<1>6. /\ f.private /\ v.plan = w /\ v.phases = Phases(j) /\ v.phase = PhaseOf(j)
      /\ f.class.state = "class" /\ f.class.plan = w
  BY <1>4, <1>5 DEF Reads, Phases, PhaseOf, PhaseAt, Absent
<1>7. ClassBound(j, p)
  <2>1. ClassGood(j, f, f.class)
    BY <1>4, <1>6 DEF Half
  <2> QED BY <1>6, <2>1 DEF ClassGood, ClassBound
<1>8. NamesRuns(s, v)
  <2>1. CASE v.failure = NoLaunch
    BY <1>4, <2>1 DEF SoloInv, FileSolo, FailSolo
  <2>2. CASE Transient(s) /\ v.runs = <<s[1].id>>
    <3>1. 1 \in 1 .. Len(s)
      BY <2>2 DEF Transient
    <3> QED BY <2>2, <3>1 DEF NamesRuns
  <2> QED BY <1>4, <2>1, <2>2
<1>9. /\ v.runs # <<>> /\ Len(v.runs) \in DOMAIN v.runs
      /\ Cardinality({v.runs[k] : k \in DOMAIN v.runs}) = Len(v.runs)
      /\ \A k \in DOMAIN v.runs : \E n \in 1 .. Len(s) : v.runs[k] = s[n].id /\ s[n].id = <<j, n>>
  <2>1. SeqGood(j, s)
    BY <1>3
  <2> HIDE DEF s, v
  <2>2. WellNamed(j, s, v)
    BY <1>8, <2>1, NamedRuns
  <2> QED BY <2>2 DEF WellNamed
<1>10. FailedRecordBound(j, p)
  BY <1>4, <1>6, <1>9 DEF FailedRecordBound
<1>11. FailureBound(v.failure, v.phase)
  BY <1>4 DEF FailureBound, Away, NoLaunch
<1>12. v.failure.class = "provider_transient" => Transient(s)
  BY <1>4, FailureClasses
<1>13. ASSUME NEW k \in DOMAIN v.runs
       PROVE  FailedOriginal(j, v.runs[k], p, v.failure.class = "provider_transient" /\ k = Len(v.runs))
  <2>1. PICK n \in 1 .. Len(s) : v.runs[k] = s[n].id
    BY <1>9
  <2>2. n \in DOMAIN s /\ s[n].inputs = w.facts.inputs /\ s[n].installation = w.facts.installation
    BY <1>3 DEF RanAsPlanned
  <2>3. v.failure.class = "provider_transient" => s[n].status = "failed" /\ s[n].code = "transient"
    <3>1. Transient(s) => n = 1
      <4>1. Transient(s) => n \in 1 .. 1
        BY DEF Transient
      <4> QED BY <4>1, OneOf, Zenon
    <3> QED BY <1>12, <3>1 DEF Transient
  <2> HIDE DEF f, s, v
  <2> QED BY <2>1, <2>2, <2>3, Zenon DEF FailedOriginal, s
<1>14. failed \notin others
  <2>1. PICK n : failed = <<j, n>>
    BY <1>9
  <2>2. PICK a, b : files[i].record.cold.id = <<i, a>> /\ files[i].record.warm.id = <<i, b>>
    <3>1. PICK a, b \in 1 .. Len(runs[i]) :
            /\ runs[i][a] = files[i].record.cold /\ runs[i][b] = files[i].record.warm
            /\ runs[i][a].id = <<i, a>> /\ runs[i][b].id = <<i, b>>
      BY PairOfRuns
    <3>2. files[i].record.cold.id = <<i, a>> /\ files[i].record.warm.id = <<i, b>>
      BY <3>1
    <3> QED BY <3>2
  <2>3. i # j
    BY OneBefore DEF Attempts
  <2>4. <<j, n>> # <<i, a>> /\ <<j, n>> # <<i, b>>
    BY <2>3
  <2> HIDE DEF failed
  <2> QED BY <2>1, <2>2, <2>4
<1>15. RetrySays(v.failure, failed, others)
  <2>1. \/ v.failure.class = "provider_transient" /\ v.failure.code = "transient"
        \/ v.failure.class = "certified_host_infrastructure" /\ v.failure.code = "independent_validation.launch_failed"
    BY <1>4, FailureClasses
  <2> QED BY <1>14, <2>1, Zenon DEF RetrySays
<1>16. f.workspace /\ f.private
  BY <1>2, <1>6
<1> QED BY <1>7, <1>10, <1>11, <1>13, <1>15, <1>16, Zenon DEF Excused

\* The directory of a pass has the attempts up to it and no other.
LEMMA DirectoryOf ==
  ASSUME BaseInv, NEW i \in Attempts, files[i].record.state = "passed"
  PROVE  Latest = i /\ (\A j \in 1 .. i : Exists(j))
<1>1. MaxTries \in Nat /\ Latest \in 0 .. MaxTries /\ i \in 1 .. MaxTries /\ i <= Latest
  BY GateAssumption, LatestIs, PassIs DEF Attempts
<1>2. CASE i < Latest
  <2>1. Latest \in Attempts /\ Latest <= Latest
    BY <1>1 DEF Attempts
  <2>2. files[Latest].workspace
    BY <2>1, LatestIs
  <2>3. Excusing(files[i])
    BY <1>2, <2>1, <2>2, EarlierExcused
  <2> QED BY <2>3 DEF Excusing, Open
<1>3. Latest = i
  BY <1>1, <1>2
<1>4. \A j \in 1 .. i : j \in Attempts /\ j <= Latest
  BY <1>1, <1>3 DEF Attempts
<1> QED BY <1>3, <1>4, LatestIs

\* The attempts before an attempt.
LEMMA BeforeIt ==
  \A i \in 1 .. MaxTries : \A j \in 1 .. (i - 1) : j \in 1 .. MaxTries /\ j < i
BY GateAssumption

\* A pass can be sealed while its plan describes the host and what came before it ran as planned.
LEMMA PassSealable ==
  ASSUME BaseInv, SoloInv, NEW i \in Attempts, NEW p \in PlanPaths, files[i].record.state = "passed",
         files[i].record.plan = plans[p], Holds(p), \A j \in 1 .. (i - 1) : RanAsPlanned(j, p)
  PROVE  Sealable(i, p)
<1> DEFINE f == files[i]
           s == runs[i]
           v == f.record
           w == plans[p]
           cold == v.cold
           warm == v.warm
<1>1. CrossCheck(world) /\ PlanSays(p)
  BY HostSays
<1>2. /\ PassGood(i, f, s, v) /\ ColdGood(i, s, f.cold) /\ ReviewGood(i, f, f.review)
      /\ f.workspace /\ f.private /\ f.class = Absent
  BY PassIs
<1>3. /\ v.state = "passed" /\ v.attempt = i /\ v.plan = w
      /\ f.cold.state = "cold" /\ f.review.state = "review"
      /\ v.plan = f.cold.plan /\ v.phases = <<f.cold, f.review>> /\ cold = f.cold.run
      /\ Summary(warm, w.facts, TRUE) = ""
      /\ warm.installation = cold.installation /\ warm.projection = cold.projection
      /\ warm.videos = cold.videos
      /\ v.projection = f.cold.projection /\ v.checked.cold = f.cold.checked
  BY <1>2 DEF PassGood
<1>4. /\ f.cold.attempt = i /\ Summary(cold, w.facts, FALSE) = "" /\ f.cold.projection = cold.projection
      /\ f.cold.checked = Checked(cold)
  BY <1>2, <1>3 DEF ColdGood
<1>5. /\ f.review.attempt = i /\ f.review.cold = f.cold /\ f.review.run = cold.id /\ f.review.clips = cold.videos
      /\ f.review.plan = w
  BY <1>2, <1>3 DEF ReviewGood
<1>6. PassSolo(f, s, previousRun[i], deliveryRun[i], v) /\ f.checked.cold = f.cold.checked
  BY <1>3 DEF SoloInv, FileSolo
<1>7. /\ previousRun[i] # 0 /\ s[previousRun[i]].id = cold.id /\ deliveryRun[i] # 0 /\ s[deliveryRun[i]].id = warm.id
      /\ f.checked = v.checked /\ v.checked.warm = Checked(warm) /\ v.checked.previous = Checked(cold)
  BY <1>6 DEF PassSolo
<1>8. PICK a, b \in 1 .. Len(s) : a < b /\ s[a] = cold /\ s[b] = warm /\ s[a].id = <<i, a>> /\ s[b].id = <<i, b>>
  BY PairOfRuns
<1>9. s \in Seq(RunRecords) /\ Len(s) \in Nat /\ DOMAIN s = 1 .. Len(s)
  BY SameStays, LenProperties
<1>10. cold \in RunRecords /\ warm \in RunRecords /\ a \in DOMAIN s /\ b \in DOMAIN s
  <2> HIDE DEF s, cold, warm
  <2> QED BY <1>8, <1>9, ElementOfSeq
<1>11. PassBound(i, p) /\ ColdBound(i, p)
  BY <1>2, <1>3, <1>4 DEF PassBound, ColdBound
<1>12. ReviewBound(i, p) /\ v.phases = Phases(i)
  BY <1>3, <1>5 DEF ReviewBound, ReviewSays, Phases
<1>13. BoundRun(i, cold, previousRun[i], p, FALSE)
  <2>1. RunSays(cold, FALSE) /\ cold.videos > 0
    <3> HIDE DEF cold
    <3> QED BY <1>4, <1>10, ColdSays
  <2>2. ManifestBound(i, cold, p)
    <3>1. /\ cold.contract /\ cold.inputs = w.facts.inputs /\ cold.candidate = w.facts.candidate
          /\ cold.installation = w.facts.installation
      <4> DEFINE facts == w.facts
      <4>1. Summary(cold, facts, FALSE) = ""
        BY <1>4
      <4> HIDE DEF cold, facts
      <4>2. /\ cold.contract /\ cold.inputs = facts.inputs /\ cold.candidate = facts.candidate
            /\ cold.installation = facts.installation
        BY <4>1, SummaryFacts
      <4> QED BY <4>2 DEF facts
    <3>2. \E n \in DOMAIN runs[i] : runs[i][n] = cold
      BY <1>8, <1>10
    <3> HIDE DEF cold
    <3> QED BY <3>1, <3>2 DEF ManifestBound
  <2>3. DeliveryBound(i, cold, previousRun[i])
    <3>1. previousRun[i] \in DOMAIN runs[i]
      BY <1>7, <1>9 DEF BaseInv, RunsInv
    <3> QED BY <1>7, <2>1, <3>1 DEF DeliveryBound, Ids
  <2> QED BY <2>1, <2>2, <2>3 DEF BoundRun
<1>14. BoundRun(i, warm, deliveryRun[i], p, TRUE)
  <2>1. RunSays(warm, TRUE) /\ warm.videos > 0
    <3> HIDE DEF warm
    <3> QED BY <1>3, <1>10, WarmSays
  <2>2. ManifestBound(i, warm, p)
    <3>1. /\ warm.contract /\ warm.inputs = w.facts.inputs /\ warm.candidate = w.facts.candidate
          /\ warm.installation = w.facts.installation
      <4> DEFINE facts == w.facts
      <4>1. Summary(warm, facts, TRUE) = ""
        BY <1>3
      <4> HIDE DEF warm, facts
      <4>2. /\ warm.contract /\ warm.inputs = facts.inputs /\ warm.candidate = facts.candidate
            /\ warm.installation = facts.installation
        BY <4>1, SummaryFacts
      <4> QED BY <4>2 DEF facts
    <3>2. \E n \in DOMAIN runs[i] : runs[i][n] = warm
      BY <1>8, <1>10
    <3> HIDE DEF warm
    <3> QED BY <3>1, <3>2 DEF ManifestBound
  <2>3. DeliveryBound(i, warm, deliveryRun[i])
    <3>1. deliveryRun[i] \in DOMAIN runs[i]
      BY <1>7, <1>9 DEF BaseInv, RunsInv
    <3> QED BY <1>7, <2>1, <3>1 DEF DeliveryBound, Ids
  <2> QED BY <2>1, <2>2, <2>3 DEF BoundRun
<1>15. RunPair(cold, warm)
  <2>1. cold.id # warm.id
    BY <1>8
  <2> QED BY <1>3, <2>1 DEF RunPair
<1>16. ValidationsBound(i)
  <2>1. \A r : DeliverySays(Checked(r), r)
    BY DEF DeliverySays, Checked
  <2>2. /\ f.checked.cold = Checked(cold) /\ f.checked.warm = Checked(warm) /\ f.checked.previous = f.checked.cold
        /\ v.checked = f.checked /\ f.cold.checked = f.checked.cold
    BY <1>4, <1>6, <1>7
  <2> QED BY <2>1, <2>2 DEF ValidationsBound
<1>17. SameMeaning(cold, warm) /\ v.projection = Projection(cold) /\ f.cold.projection = v.projection
  BY <1>3, <1>4 DEF SameMeaning, Projection
<1>18. RetryHistory(i, p)
  <2>1. Latest = i /\ \A j \in 1 .. i : Exists(j)
    BY DirectoryOf
  <2>2. ASSUME NEW j \in 1 .. (i - 1)
        PROVE  Excused(j, p, {cold.id, warm.id})
    <3>1. j \in Attempts /\ j < i
      BY BeforeIt DEF Attempts
    <3>2. RanAsPlanned(j, p)
      OBVIOUS
    <3> QED BY <1>3, <3>1, <3>2, FailureExcused
  <2> QED BY <1>2, <2>1, <2>2 DEF RetryHistory
<1> HIDE DEF cold, warm
<1>19. /\ CrossCheck(world) /\ PlanSays(p) /\ PassBound(i, p) /\ ColdBound(i, p) /\ ReviewBound(i, p)
       /\ v.phases = Phases(i) /\ BoundRun(i, cold, previousRun[i], p, FALSE)
       /\ BoundRun(i, warm, deliveryRun[i], p, TRUE) /\ RunPair(cold, warm) /\ ValidationsBound(i)
       /\ SameMeaning(cold, warm) /\ v.projection = Projection(cold) /\ f.cold.projection = v.projection
       /\ RetryHistory(i, p)
  BY <1>1, <1>11, <1>12, <1>13, <1>14, <1>15, <1>16, <1>17, <1>18, Zenon
<1> QED BY <1>19, Zenon DEF Sealable, cold, warm

\* The host is one there may be, what is sealed is an attempt, and the runs of every
\* attempt are counted within the bounds: GateTypeOK, whatever the commands do.
THEOREM GateTypeCorrect == GateSpec => []GateTypeOK
<1>1. GateInit => BaseInv
  BY BaseStarts
<1>2. BaseInv /\ [GateNext]_gateVars => BaseInv'
  BY BaseHolds
<1>3. BaseInv => GateTypeOK
  <2> SUFFICES ASSUME BaseInv
               PROVE  GateTypeOK
    OBVIOUS
  <2>1. world \in Worlds /\ \A n \in DOMAIN left : left[n] \in 0 .. MaxLeft
    BY DEF BaseInv, WorldInv
  <2>2. sealed \in 0 .. MaxTries
    BY GateAssumption DEF BaseInv, SealInv, Attempts
  <2>3. \A i \in Attempts : /\ deliveryRun[i] \in 0 .. Len(runs[i]) /\ previousRun[i] \in 0 .. Len(runs[i])
                            /\ Len(runs[i]) <= MaxRuns
    BY LenProperties DEF BaseInv, RunsInv, SeqGood
  <2> QED BY <2>1, <2>2, <2>3 DEF GateTypeOK
<1> QED BY <1>1, <1>2, <1>3, PTL DEF GateSpec

\* What the release gate lets pass is earned, no sequence of commands locks it, one
\* attempt passes, and what passes can be sealed: GateSound, for any commands, plans,
\* hosts, outcomes of the runs and numbers of attempts.
THEOREM GateIsSound == GateSpec => []GateSound
<1>1. GateInit => GateInv
  BY GateStarts
<1>2. GateInv /\ [GateNext]_gateVars => GateInv'
  BY GateHolds
<1>3. GateInv => GateSound
  <2> SUFFICES ASSUME GateInv
               PROVE  GateSound
    OBVIOUS
  <2>1. BaseInv
    BY DEF GateInv
  <2>2. PassesCanBeSealed
    <3> SUFFICES ASSUME NEW i \in Attempts, NEW p \in PlanPaths, files[i].record.state = "passed",
                        files[i].record.plan = plans[p], Holds(p), ~met, \A j \in 1 .. (i - 1) : RanAsPlanned(j, p)
                 PROVE  Sealable(i, p)
      BY DEF PassesCanBeSealed
    <3>1. SoloInv
      BY DEF GateInv
    <3> QED BY <2>1, <3>1, PassSealable
  <2> QED BY <2>1, <2>2, EarnedPasses, LegibleHolds, OnlyOnePass DEF GateSound
<1> QED BY <1>1, <1>2, <1>3, PTL DEF GateSpec

-----------------------------------------------------------------------------
(* The delivery.                                                             *)

\* The build reads and writes before there is anything to verify.
Building   == at \in ReadSteps \cup BuildSteps
InCallback == at \in {"callback", "effect", "exchange", "swap"}
Verifying    == at \in {"load", "relate", "measure", "reinspect"}

\* Where the index stands within the files its step is repeated for.
IndexInv ==
    /\ at \in {"open", "export", "measure"} => Clips # <<>>
    /\ at \in {"export", "measure"} => index <= Len(Clips)
    /\ at \in {"write", "load"} => index <= Len(Docs)
    /\ at = "hash" => index <= Len(Clips) + Len(Docs)

\* A revision is never used twice, so a file that has the revision it had in an
\* earlier inspection has the content it had there.
Snapshot(d) ==
    \A n \in Names :
        /\ d[n].revision <= edits + 1
        /\ d[n].revision = 0 => d[n] = Missing(n)
        /\ d[n].revision = dir[n].revision => d[n] = dir[n]

TreesInv ==
    /\ Snapshot(dir) /\ Snapshot(tree) /\ Snapshot(evidence.tree)
    /\ Building => tree = Empty /\ evidence = NoEvidence

\* What verification has compared so far holds of every file that has not
\* changed since the first inspection.
Untouched(n) == tree[n].revision = dir[n].revision /\ tree[n].revision > 0
Before(s, i) == {s[j] : j \in 1 .. i - 1}
Compared ==
    IF at = "load" THEN Before(Docs, index)
    ELSE IF at = "relate" THEN DocFiles
    ELSE IF at = "measure" THEN DocFiles \cup Before(Clips, index)
    ELSE IF at = "reinspect" THEN Files
    ELSE {}
InManifest(n) == n = "manifest" \/ (n \in Files /\ read[n] # "absent")

VerifyInv ==
    /\ Verifying => (Untouched("manifest") => read = tree["manifest"].is)
    /\ \A f \in Compared : Untouched(f) => tree[f].is = read[f]
    /\ at \in {"measure", "reinspect"} => \A n \in Names : tree[n].revision > 0 <=> InManifest(n)

\* What a verified delivery is bound to.
EvidenceInv ==
    /\ at \in PublishSteps \/ callback # "idle" => evidence.bound
    /\ evidence.bound =>
         /\ evidence.tree["manifest"].is = evidence.contents
         /\ \A f \in Files : evidence.tree[f].is = evidence.contents[f]
         /\ evidence.tree[Alien].revision = 0
    /\ at = "swap" \/ visible = "new" => late \/ SameTree(evidence.tree)

\* The capability, the callback and what the operator sees.
CapabilityInv ==
    /\ callback = "active" <=> InCallback
    /\ callback = "over" => at = "ended"
    /\ callback = "idle" => proof = "none" /\ ~reached /\ (at = "ended" => result # "published")
    /\ callback = "active" => proof = "publishing"
    /\ callback = "over" => /\ proof # "publishing"
                            /\ proof = "published" <=> reached
                            /\ result = "published" <=> reached
    /\ visible = "new" <=> reached
    /\ at \in {"effect", "exchange", "swap"} => ~reached

\* What was made of the recording, and what was made where nobody interfered.
Written ==
    IF at = "export" THEN Before(Clips, index)
    ELSE IF at = "cut" THEN ClipFiles
    ELSE IF at = "write" THEN ClipFiles \cup Before(Docs, index)
    ELSE IF at = "manifest" \/ at \in VerifySteps \cup PublishSteps \/ callback # "idle" THEN Files
    ELSE {}

BuildInv ==
    /\ source = "same" => derived = {}
    /\ derived # {} => at \in {"described", "heard", "export", "cut", "ended"} /\ callback = "idle"
    /\ edits = 0 => \A f \in Written : dir[f].is = "rendered"

Trees ==
    {d \in [Names -> [is : Contents \cup Listings, revision : Nat]] :
        d["manifest"].is \in Listings /\ \A n \in Names \ {"manifest"} : d[n].is \in Contents}

TypesInv ==
    /\ at \in ReadSteps \cup BuildSteps \cup VerifySteps \cup PublishSteps \cup {"ended"}
    /\ index \in 1 .. Len(Clips) + Len(Docs) + 1
    /\ source \in {"same", "changed"} /\ derived \subseteq Readers
    /\ declared \in Listings /\ read \in Listings
    /\ dir \in Trees /\ tree \in Trees
    /\ evidence \in [tree : Trees, contents : Listings, bound : BOOLEAN]
    /\ proof \in {"none", "publishing", "published", "revoked"}
    /\ callback \in {"idle", "active", "over"}
    /\ visible \in {"old", "new", "unknown"}
    /\ reached \in BOOLEAN /\ stopped \in BOOLEAN /\ late \in BOOLEAN
    /\ result \in {"none", "published", "failed", "interrupted"} /\ edits \in 0 .. MaxEdits

ChainInv == TypesInv /\ IndexInv /\ TreesInv /\ VerifyInv /\ EvidenceInv /\ CapabilityInv /\ BuildInv

-----------------------------------------------------------------------------
LEMMA ChainSteps ==
    /\ ReadSteps = {"analyse", "listen", "open", "describe", "hear", "export", "described", "heard", "cut"}
    /\ Readers = {"description", "audio", "clips"}
    /\ OpenStep["description"] = "analyse" /\ OpenStep["audio"] = "listen" /\ OpenStep["clips"] = "open"
    /\ ReadStep["description"] = "describe" /\ ReadStep["audio"] = "hear" /\ ReadStep["clips"] = "export"
    /\ CheckStep["description"] = "described" /\ CheckStep["audio"] = "heard" /\ CheckStep["clips"] = "cut"
    /\ AfterCheck["description"] = "listen" /\ AfterCheck["audio"] = "render" /\ AfterCheck["clips"] = "write"
  <1>1. /\ OpenStep["description"] = "analyse" /\ OpenStep["audio"] = "listen" /\ OpenStep["clips"] = "open"
        /\ ReadStep["description"] = "describe" /\ ReadStep["audio"] = "hear" /\ ReadStep["clips"] = "export"
        /\ CheckStep["description"] = "described" /\ CheckStep["audio"] = "heard" /\ CheckStep["clips"] = "cut"
        /\ AfterCheck["description"] = "listen" /\ AfterCheck["audio"] = "render" /\ AfterCheck["clips"] = "write"
    BY DEF OpenStep, ReadStep, CheckStep, AfterCheck
  <1>2. {OpenStep[r] : r \in Readers} = {"analyse", "listen", "open"}
    BY <1>1 DEF Readers
  <1>3. {ReadStep[r] : r \in Readers} = {"describe", "hear", "export"}
    BY <1>1 DEF Readers
  <1>4. {CheckStep[r] : r \in Readers} = {"described", "heard", "cut"}
    BY <1>1 DEF Readers
  <1>5. ReadSteps = {"analyse", "listen", "open", "describe", "hear", "export", "described", "heard", "cut"}
    BY <1>2, <1>3, <1>4 DEF ReadSteps
  <1>. QED  BY <1>1, <1>5 DEF Readers

\* The files by their places.
LEMMA FilesByPlace ==
    /\ Len(Clips) \in Nat /\ Len(Docs) \in Nat \ {0}
    /\ \A i \in 1 .. Len(Clips) : Clips[i] \in ClipFiles
    /\ \A i \in 1 .. Len(Docs) : Docs[i] \in DocFiles
    /\ ClipFiles = {Clips[i] : i \in 1 .. Len(Clips)}
    /\ DocFiles = {Docs[i] : i \in 1 .. Len(Docs)}
    /\ (Clips = <<>>) <=> (Len(Clips) = 0)
    /\ Clips = <<>> => ClipFiles = {}
  <1>1. /\ Clips \in Seq(ClipFiles) /\ Docs \in Seq(DocFiles) /\ Docs # <<>>
    BY FilesAssumption
  <1>2. ClipFiles = {Clips[i] : i \in DOMAIN Clips} /\ DocFiles = {Docs[i] : i \in DOMAIN Docs}
    BY DEF ClipFiles, DocFiles, Range
  <1>3. DOMAIN Clips = 1 .. Len(Clips) /\ DOMAIN Docs = 1 .. Len(Docs) /\ Len(Clips) \in Nat /\ Len(Docs) \in Nat
    BY <1>1
  <1>4. Len(Docs) # 0 /\ ((Clips = <<>>) <=> (Len(Clips) = 0))
    BY <1>1
  <1>. QED  BY <1>2, <1>3, <1>4

LEMMA NamesOfFiles ==
    /\ "manifest" \in Names /\ Alien \in Names /\ Files \subseteq Names
    /\ "manifest" \notin Files /\ Alien \notin Files /\ Alien # "manifest"
    /\ Files = ClipFiles \cup DocFiles /\ Names = Files \cup {"manifest", Alien}
  BY FilesAssumption DEF Names, Files

\* What a tree holds.
LEMMA TreeTypes ==
    ASSUME NEW d \in Trees
    PROVE  /\ d["manifest"].is \in Listings
           /\ \A n \in Names : d[n].revision \in Nat
           /\ \A n \in Names \ {"manifest"} : d[n].is \in Contents
           /\ DOMAIN d = Names
  BY DEF Trees

LEMMA BeforeAreFiles ==
    ASSUME NEW i \in Nat
    PROVE  /\ i <= Len(Clips) => Before(Clips, i) \subseteq ClipFiles
           /\ i <= Len(Docs) => Before(Docs, i) \subseteq DocFiles
  BY FilesByPlace DEF Before

LEMMA TypesAreTypeOK == TypesInv => ChainTypeOK
  <1>. SUFFICES ASSUME TypesInv PROVE ChainTypeOK
    OBVIOUS
  <1>1. \A d \in {dir, tree, evidence.tree} :
            /\ DOMAIN d = Names /\ d["manifest"].is \in Listings
            /\ \A n \in Names \ {"manifest"} : d[n].is \in Contents
            /\ \A n \in Names : d[n].revision \in Nat
    BY TreeTypes DEF TypesInv
  <1>. QED  BY <1>1 DEF TypesInv, ChainTypeOK

\* A file that is put into a tree of revisions, or out of it.
Held(d, n, is, revision) == [d EXCEPT ![n] = File(is, revision)]

LEMMA FileInTree ==
    ASSUME NEW d \in Trees, NEW n \in Names, NEW is, NEW revision \in Nat,
           n = "manifest" => is \in Listings, n # "manifest" => is \in Contents
    PROVE  /\ Held(d, n, is, revision) \in Trees
           /\ Held(d, n, is, revision)[n] = File(is, revision)
           /\ Held(d, n, is, revision)[n].is = is /\ Held(d, n, is, revision)[n].revision = revision
           /\ \A m \in Names \ {n} : Held(d, n, is, revision)[m] = d[m]
  <1>. DEFINE e == Held(d, n, is, revision)
  <1>1. d \in [Names -> [is : Contents \cup Listings, revision : Nat]] /\ d["manifest"].is \in Listings
        /\ \A m \in Names \ {"manifest"} : d[m].is \in Contents
    BY DEF Trees
  <1>2. File(is, revision) \in [is : Contents \cup Listings, revision : Nat]
        /\ File(is, revision).is = is /\ File(is, revision).revision = revision
    BY DEF File
  <1>3. e \in [Names -> [is : Contents \cup Listings, revision : Nat]] /\ e[n] = File(is, revision)
        /\ \A m \in Names \ {n} : e[m] = d[m]
    BY <1>1, <1>2 DEF Held
  <1>. HIDE DEF e
  <1>4. e["manifest"].is \in Listings /\ \A m \in Names \ {"manifest"} : e[m].is \in Contents
    BY <1>1, <1>2, <1>3, NamesOfFiles
  <1>5. e \in Trees
    BY <1>3, <1>4 DEF Trees
  <1>. QED  BY <1>2, <1>3, <1>5 DEF e

LEMMA EmptyTypes ==
    /\ NoListing \in Listings /\ Empty \in Trees
    /\ NoEvidence \in [tree : Trees, contents : Listings, bound : BOOLEAN]
    /\ NoEvidence.tree = Empty /\ ~NoEvidence.bound
    /\ \A n \in Names : Empty[n] = Missing(n) /\ Empty[n].revision = 0
  <1>1. NoListing \in Listings
    BY DEF NoListing, Listings, Contents
  <1>2. \A n \in Names : Missing(n) \in [is : Contents \cup Listings, revision : Nat]
                         /\ Missing(n).is = (IF n = "manifest" THEN NoListing ELSE "absent") /\ Missing(n).revision = 0
    BY <1>1 DEF Missing, File, Contents
  <1>3. Empty \in [Names -> [is : Contents \cup Listings, revision : Nat]] /\ \A n \in Names : Empty[n] = Missing(n)
    BY <1>2 DEF Empty
  <1>4. Empty \in Trees
    BY <1>1, <1>2, <1>3, NamesOfFiles DEF Trees, Contents
  <1>. QED  BY <1>1, <1>2, <1>3, <1>4 DEF NoEvidence

\* Where the trees stay, a step from the build to the build or away from it
\* leaves what is known of them.
LEMMA TreesStay ==
    ASSUME TreesInv, UNCHANGED <<dir, tree, evidence, edits>>, Building' => Building
    PROVE  TreesInv'
  BY DEF TreesInv, Snapshot, Missing, File

\* Where nothing is published the callback is idle.
LEMMA IdleBefore ==
    ASSUME CapabilityInv, ~InCallback, at # "ended", TypesInv
    PROVE  callback = "idle" /\ proof = "none" /\ ~reached /\ visible # "new"
  BY DEF CapabilityInv, TypesInv

\* A step before the callback finds the run cancelled or fails.
LEMMA StopKeeps ==
    ASSUME ChainInv, ~InCallback, at # "ended", Fails \/ Interrupted,
           UNCHANGED <<derived, dir, declared, readVars, publishVars, surroundings>>
    PROVE  ChainInv'
  <1>1. /\ at' = "ended" /\ index' = index /\ result' \in {"failed", "interrupted"}
        /\ UNCHANGED <<derived, dir, declared, read, tree, evidence, proof, callback, reached, visible, source,
                       stopped, edits, late>>
    BY DEF Fails, Interrupted, End, readVars, publishVars, surroundings
  <1>2. callback = "idle" /\ proof = "none" /\ ~reached /\ visible # "new"
    BY IdleBefore DEF ChainInv
  <1>3. TypesInv'
    BY <1>1 DEF ChainInv, TypesInv
  <1>4. IndexInv'
    BY <1>1 DEF IndexInv
  <1>5. TreesInv'
    BY <1>1, TreesStay, ChainSteps DEF ChainInv, Building, BuildSteps
  <1>6. VerifyInv'
    BY <1>1 DEF VerifyInv, Verifying, Compared
  <1>7. EvidenceInv'
    BY <1>1, <1>2 DEF ChainInv, EvidenceInv, PublishSteps
  <1>8. CapabilityInv'
    BY <1>1, <1>2 DEF ChainInv, CapabilityInv, InCallback
  <1>9. BuildInv'
    BY <1>1, <1>2 DEF ChainInv, BuildInv, Written, VerifySteps, PublishSteps
  <1>. QED  BY <1>3, <1>4, <1>5, <1>6, <1>7, <1>8, <1>9 DEF ChainInv

\* A step of the build to a later step, without a file: what was derived from
\* the recording is as it was, or marked if the recording has changed.
LEMMA BuildMoves ==
    ASSUME ChainInv, Building, at \notin {"export", "write", "manifest"},
           at' \in ReadSteps \cup BuildSteps, at' # "manifest", index' = 1, result' = result,
           at' \in {"open", "export"} => Clips # <<>>,
           at' = "write" => at = "cut" \/ Clips = <<>>,
           at' # "cut",
           UNCHANGED <<dir, declared, readVars, publishVars, surroundings>>,
           \/ derived' = derived /\ (derived = {} \/ source = "same")
           \/ at' \in {"described", "heard"} /\ derived' \subseteq Readers /\ (source = "same" => derived' = derived)
    PROVE  ChainInv'
  <1>1. UNCHANGED <<dir, declared, read, tree, evidence, proof, callback, reached, visible, source, stopped, edits, late, result>>
    BY DEF readVars, publishVars, surroundings
  <1>2. /\ at \in {"analyse", "listen", "open", "describe", "hear", "described", "heard", "cut", "render"}
        /\ at' \in {"analyse", "listen", "open", "describe", "hear", "export", "described", "heard", "render", "write"}
        /\ Building'
    BY ChainSteps DEF Building, BuildSteps
  <1>3. ~InCallback /\ callback = "idle" /\ proof = "none" /\ ~reached /\ visible # "new"
    BY <1>2, IdleBefore DEF ChainInv, InCallback
  <1>4. TypesInv'
    <2>1. at' \in ReadSteps \cup BuildSteps \cup VerifySteps \cup PublishSteps \cup {"ended"}
      BY DEF ChainInv, TypesInv
    <2>2. derived' \subseteq Readers
      BY DEF ChainInv, TypesInv
    <2>. QED  BY <1>1, <2>1, <2>2, FilesByPlace DEF ChainInv, TypesInv
  <1>5. IndexInv'
    BY <1>2, FilesByPlace DEF IndexInv
  <1>6. TreesInv'
    BY <1>1, TreesStay DEF ChainInv
  <1>7. VerifyInv'
    BY <1>2 DEF VerifyInv, Verifying, Compared
  <1>8. EvidenceInv'
    BY <1>1, <1>2, <1>3 DEF ChainInv, EvidenceInv, PublishSteps
  <1>9. CapabilityInv'
    BY <1>1, <1>2, <1>3 DEF ChainInv, CapabilityInv, InCallback
  <1>10. BuildInv'
    <2>1. source = "same" => derived' = {}
      BY DEF ChainInv, BuildInv
    <2>2. derived' # {} => at' \in {"described", "heard"}
      BY <2>1 DEF ChainInv, BuildInv
    <2>3. Written' = {} \/ at' = "export" \/ at' = "write"
      BY <1>1, <1>2, <1>3 DEF Written, VerifySteps, PublishSteps
    <2>4. at' = "export" => Written' = {}
      BY DEF Written, Before
    <2>5. at' = "write" => Written' = ClipFiles
      BY DEF Written, Before
    <2>6. at' = "write" => Written = ClipFiles \/ ClipFiles = {}
      BY FilesByPlace DEF Written
    <2>7. edits' = 0 => \A f \in Written' : dir'[f].is = "rendered"
      BY <1>1, <2>3, <2>4, <2>5, <2>6 DEF ChainInv, BuildInv
    <2>. QED  BY <1>1, <1>3, <2>1, <2>2, <2>7 DEF BuildInv
  <1>. QED  BY <1>4, <1>5, <1>6, <1>7, <1>8, <1>9, <1>10 DEF ChainInv

LEMMA OpenSourceKeeps ==
    ASSUME ChainInv, NEW r \in Readers, OpenSource(r)
    PROVE  ChainInv'
  <1>1. /\ at = OpenStep[r] /\ UNCHANGED <<derived, dir, declared, readVars, publishVars, surroundings>>
        /\ at \in {"analyse", "listen", "open"}
    BY ChainSteps DEF OpenSource, Unbuilt, Unread, Unpublished, Outside
  <1>2. Building /\ ~InCallback /\ at # "ended"
    BY <1>1, ChainSteps DEF Building, InCallback
  <1>3. CASE Fails \/ Interrupted
    BY <1>1, <1>2, <1>3, StopKeeps
  <1>4. CASE source = "same" /\ Goto(ReadStep[r])
    <2>1. at' = ReadStep[r] /\ index' = 1 /\ result' = result /\ at' \in {"describe", "hear", "export"}
          /\ (at' = "export" => Clips # <<>>)
      BY <1>1, <1>4, ChainSteps DEF Goto, ChainInv, IndexInv
    <2>. QED  BY <1>1, <1>2, <1>4, <2>1, BuildMoves, ChainSteps
  <1>. QED  BY <1>3, <1>4 DEF OpenSource

LEMMA ReadSourceKeeps ==
    ASSUME ChainInv, NEW r \in Readers, ReadSource(r)
    PROVE  ChainInv'
  <1>. r \in {"description", "audio"}
    BY ChainSteps DEF ReadSource
  <1>1. /\ at = ReadStep[r] /\ UNCHANGED <<dir, declared, readVars, publishVars, surroundings>>
        /\ at \in {"describe", "hear"}
    BY ChainSteps DEF ReadSource, Unread, Unpublished, Outside
  <1>2. Building /\ ~InCallback /\ at # "ended"
    BY <1>1, ChainSteps DEF Building, InCallback
  <1>3. CASE (Interrupted \/ Fails) /\ UNCHANGED derived
    BY <1>1, <1>2, <1>3, StopKeeps
  <1>4. CASE Derive(r) /\ Goto(CheckStep[r])
    <2>1. at' = CheckStep[r] /\ index' = 1 /\ result' = result /\ at' \in {"described", "heard"}
      BY <1>1, <1>4, ChainSteps DEF Goto
    <2>2. derived' \subseteq Readers /\ (source = "same" => derived' = derived)
      BY <1>4 DEF Derive, ChainInv, TypesInv
    <2>. QED  BY <1>1, <1>2, <2>1, <2>2, BuildMoves, ChainSteps
  <1>. QED  BY <1>3, <1>4 DEF ReadSource

LEMMA CheckSourceKeeps ==
    ASSUME ChainInv, NEW r \in Readers, CheckSource(r)
    PROVE  ChainInv'
  <1>1. /\ at = CheckStep[r] /\ UNCHANGED <<derived, dir, declared, readVars, publishVars, surroundings>>
        /\ at \in {"described", "heard", "cut"} /\ (r = "clips" => at = "cut")
    BY ChainSteps DEF CheckSource, Unbuilt, Unread, Unpublished, Outside
  <1>2. Building /\ ~InCallback /\ at # "ended"
    BY <1>1, ChainSteps DEF Building, InCallback
  <1>3. CASE Fails \/ Interrupted
    BY <1>1, <1>2, <1>3, StopKeeps
  <1>4. CASE source = "same" /\ Goto(AfterCheck[r])
    <2>1. at' = AfterCheck[r] /\ index' = 1 /\ result' = result /\ at' \in {"listen", "render", "write"}
          /\ (at' = "write" => at = "cut")
      BY <1>1, <1>4, ChainSteps DEF Goto
    <2>. QED  BY <1>1, <1>2, <1>4, <2>1, BuildMoves, ChainSteps DEF BuildSteps
  <1>. QED  BY <1>3, <1>4 DEF CheckSource

LEMMA RenderKeeps ==
    ASSUME ChainInv, Render
    PROVE  ChainInv'
  <1>1. /\ at = "render" /\ UNCHANGED <<derived, dir, declared, readVars, publishVars, surroundings>>
    BY DEF Render, Unbuilt, Unread, Unpublished, Outside
  <1>2. Building /\ ~InCallback /\ at # "ended" /\ derived = {}
    BY <1>1 DEF Building, BuildSteps, InCallback, ChainInv, BuildInv
  <1>3. CASE Fails \/ Interrupted
    BY <1>1, <1>2, <1>3, StopKeeps
  <1>4. CASE Goto(IF Clips = <<>> THEN "write" ELSE "open")
    <2>1. index' = 1 /\ result' = result /\ ((at' = "write" /\ Clips = <<>>) \/ (at' = "open" /\ Clips # <<>>))
      BY <1>4, Zenon DEF Goto
    <2>. QED  BY <1>1, <1>2, <2>1, BuildMoves, ChainSteps DEF BuildSteps
  <1>. QED  BY <1>3, <1>4 DEF Render

\* A file that is written by the build, under a name nobody had taken.
LEMMA PutKeeps ==
    ASSUME ChainInv, Building, NEW n \in Names, NEW is, Put(n, is),
           n = "manifest" => is \in Listings, n # "manifest" => is \in Contents,
           UNCHANGED <<readVars, surroundings>>
    PROVE  /\ dir' \in Trees /\ dir'[n].is = is /\ \A m \in Names \ {n} : dir'[m] = dir[m]
           /\ TreesInv'
  <1>1. dir \in Trees /\ edits \in Nat /\ UNCHANGED <<read, tree, evidence, edits>>
    BY FilesAssumption DEF ChainInv, TypesInv, readVars, surroundings
  <1>2. /\ dir' \in Trees /\ dir'[n].is = is /\ dir'[n].revision = 1 /\ \A m \in Names \ {n} : dir'[m] = dir[m]
    <2>1. dir' = Held(dir, n, is, 1) /\ 1 \in Nat
      BY DEF Put, Held
    <2>. QED  BY <1>1, <2>1, FileInTree
  <1>3. tree = Empty /\ evidence.tree = Empty /\ evidence = NoEvidence
    BY EmptyTypes DEF ChainInv, TreesInv
  <1>4. \A m \in Names : /\ dir'[m].revision <= edits + 1
                         /\ dir'[m].revision = 0 => dir'[m] = Missing(m)
    BY <1>1, <1>2 DEF ChainInv, TreesInv, Snapshot
  <1>5. Snapshot(dir)'
    <2>1. \A m \in Names : dir'[m].revision <= edits' + 1 /\ (dir'[m].revision = 0 => dir'[m] = Missing(m)')
      BY <1>1, <1>4 DEF Missing, File, NoListing
    <2>. QED  BY <2>1 DEF Snapshot
  <1>6. \A m \in Names : /\ Empty[m].revision <= edits + 1 /\ Empty[m] = Missing(m)
                         /\ Empty[m].revision = dir'[m].revision => Empty[m] = dir'[m]
    BY <1>1, <1>4, EmptyTypes
  <1>7. Snapshot(tree)' /\ Snapshot(evidence.tree)'
    BY <1>1, <1>3, <1>6 DEF Snapshot, Missing, File
  <1>. QED  BY <1>1, <1>2, <1>3, <1>5, <1>7 DEF TreesInv

\* What the build has written is what was rendered, as long as nobody interferes.
LEMMA WriteMoves ==
    ASSUME ChainInv, at \in {"export", "write", "manifest"}, NEW n \in Names, NEW is, Put(n, is),
           n = "manifest" => is \in Listings, n # "manifest" => is = "rendered",
           UNCHANGED <<readVars, publishVars, surroundings>>,
           at' \in {"export", "cut", "write", "manifest", "inspect"}, result' = result, declared' \in Listings,
           index' \in 1 .. Len(Clips) + Len(Docs) + 1, IndexInv',
           derived' \subseteq Readers, source = "same" => derived' = derived,
           at' \in {"export", "cut"} \/ derived' = derived, at = "export" <=> at' \in {"export", "cut"},
           Written' \subseteq Written \cup {n} \/ (at = "manifest" /\ n = "manifest")
    PROVE  ChainInv'
  <1>1. UNCHANGED <<read, tree, evidence, proof, callback, reached, visible, source, stopped, edits, late, result>>
    BY DEF readVars, publishVars, surroundings
  <1>2. Building /\ ~InCallback /\ at # "ended"
    BY ChainSteps DEF Building, BuildSteps, InCallback
  <1>3. callback = "idle" /\ proof = "none" /\ ~reached /\ visible # "new"
    BY <1>2, IdleBefore DEF ChainInv
  <1>4. n # "manifest" => is \in Contents
    BY DEF Contents
  <1>5. /\ dir' \in Trees /\ dir'[n].is = is /\ \A m \in Names \ {n} : dir'[m] = dir[m]
        /\ TreesInv'
    BY <1>2, <1>4, PutKeeps
  <1>6. TypesInv'
    <2>1. at' \in ReadSteps \cup BuildSteps \cup VerifySteps \cup PublishSteps \cup {"ended"}
      BY ChainSteps DEF BuildSteps, VerifySteps
    <2>. QED  BY <1>1, <1>5, <2>1 DEF ChainInv, TypesInv
  <1>7. VerifyInv'
    BY DEF VerifyInv, Verifying, Compared
  <1>8. EvidenceInv'
    <2>1. ~evidence.bound
      BY <1>2, EmptyTypes DEF ChainInv, TreesInv
    <2>. QED  BY <1>1, <1>3, <2>1 DEF EvidenceInv, PublishSteps
  <1>9. CapabilityInv'
    BY <1>1, <1>3 DEF ChainInv, CapabilityInv, InCallback
  <1>10. BuildInv'
    <2>1. source' = "same" => derived' = {}
      BY <1>1 DEF ChainInv, BuildInv
    <2>2. derived' # {} => at' \in {"export", "cut"}
      BY DEF ChainInv, BuildInv
    <2>3. Written' \subseteq Files
      <3>2. CASE at' = "export"
        <4>1. Written' = Before(Clips, index') /\ index' <= Len(Clips)
          BY <3>2 DEF Written, Before, IndexInv
        <4>2. index' \in Nat
          BY FilesByPlace
        <4>. QED  BY <4>1, <4>2, BeforeAreFiles, NamesOfFiles
      <3>3. CASE at' = "write"
        <4>1. Written' = ClipFiles \cup Before(Docs, index') /\ index' <= Len(Docs)
          BY <3>3 DEF Written, Before, IndexInv
        <4>2. index' \in Nat
          BY FilesByPlace
        <4>. QED  BY <4>1, <4>2, BeforeAreFiles, NamesOfFiles
      <3>4. CASE at' \in {"cut", "manifest", "inspect"}
        <4>1. Written' \in {ClipFiles, Files}
          BY <3>4 DEF Written, VerifySteps
        <4>. QED  BY <4>1, NamesOfFiles
      <3>. QED  BY <3>2, <3>3, <3>4
    <2>4. ASSUME edits = 0, NEW f \in Written'
          PROVE  dir'[f].is = "rendered"
      <3>1. CASE at = "manifest" /\ n = "manifest"
        <4>1. f \in Files /\ f # n /\ f \in Names
          BY <2>3, <2>4, <3>1, NamesOfFiles
        <4>2. Written = Files
          BY <3>1 DEF Written
        <4>. QED  BY <1>5, <2>4, <4>1, <4>2 DEF ChainInv, BuildInv
      <3>2. CASE Written' \subseteq Written \cup {n}
        <4>1. f \in Files
          BY <2>3, <2>4
        <4>2. CASE f = n
          BY <1>5, <4>1, <4>2, NamesOfFiles
        <4>3. CASE f # n
          BY <1>5, <2>4, <3>2, <4>1, <4>3, NamesOfFiles DEF ChainInv, BuildInv
        <4>. QED  BY <4>2, <4>3
      <3>. QED  BY <3>1, <3>2
    <2>. QED  BY <1>1, <1>3, <2>1, <2>2, <2>4 DEF BuildInv
  <1>. QED  BY <1>5, <1>6, <1>7, <1>8, <1>9, <1>10 DEF ChainInv

LEMMA ExportKeeps ==
    ASSUME ChainInv, Export
    PROVE  ChainInv'
  <1>1. at = "export" /\ UNCHANGED <<readVars, publishVars, surroundings>>
    BY DEF Export, Unread, Unpublished, Outside
  <1>2. index \in 1 .. Len(Clips) /\ Len(Clips) \in Nat /\ Len(Docs) \in Nat /\ Clips # <<>>
    BY <1>1, FilesByPlace DEF ChainInv, TypesInv, IndexInv
  <1>3. CASE (Interrupted \/ Fails) /\ Unbuilt
    BY <1>1, <1>3, StopKeeps DEF InCallback, Unbuilt
  <1>4. CASE /\ Put(Clips[index], "rendered") /\ Derive("clips")
             /\ declared' = [declared EXCEPT ![Clips[index]] = "rendered"]
             /\ Advance(Len(Clips), "cut")
    <2>1. Clips[index] \in ClipFiles /\ Clips[index] \in Names /\ Clips[index] # "manifest"
      BY <1>2, FilesByPlace, NamesOfFiles
    <2>2. /\ result' = result
          /\ \/ at' = "export" /\ index' = index + 1 /\ index < Len(Clips)
             \/ at' = "cut" /\ index' = 1 /\ index = Len(Clips)
      BY <1>1, <1>2, <1>4 DEF Advance, Goto
    <2>3. declared' \in Listings
      BY <1>4 DEF ChainInv, TypesInv, Listings, Contents
    <2>4. index' \in 1 .. Len(Clips) + Len(Docs) + 1 /\ IndexInv'
      BY <1>2, <2>2 DEF IndexInv
    <2>5. derived' \subseteq Readers /\ (source = "same" => derived' = derived)
      BY <1>4, ChainSteps DEF Derive, ChainInv, TypesInv
    <2>6. Written' \subseteq Written \cup {Clips[index]}
      <3>1. Written = Before(Clips, index)
        BY <1>1 DEF Written
      <3>2. CASE at' = "export" /\ index' = index + 1
        <4>1. Written' = Before(Clips, index + 1)
          BY <3>2 DEF Written, Before
        <4>. QED  BY <1>2, <3>1, <4>1 DEF Before
      <3>3. CASE at' = "cut" /\ index = Len(Clips)
        <4>1. Written' = ClipFiles
          BY <3>3 DEF Written
        <4>. QED  BY <1>2, <3>1, <3>3, <4>1, FilesByPlace DEF Before
      <3>. QED  BY <2>2, <3>2, <3>3
    <2>. QED  BY <1>1, <1>4, <2>1, <2>2, <2>3, <2>4, <2>5, <2>6, WriteMoves
  <1>. QED  BY <1>3, <1>4 DEF Export

LEMMA WriteDocumentKeeps ==
    ASSUME ChainInv, WriteDocument
    PROVE  ChainInv'
  <1>1. at = "write" /\ UNCHANGED <<readVars, publishVars, surroundings>>
    BY DEF WriteDocument, Unread, Unpublished, Outside
  <1>2. index \in 1 .. Len(Docs) /\ Len(Clips) \in Nat /\ Len(Docs) \in Nat
    BY <1>1, FilesByPlace DEF ChainInv, TypesInv, IndexInv
  <1>3. CASE (Interrupted \/ Fails) /\ Unbuilt
    BY <1>1, <1>3, StopKeeps DEF InCallback, Unbuilt
  <1>4. CASE /\ Put(Docs[index], "rendered")
             /\ declared' = [declared EXCEPT ![Docs[index]] = "rendered"] /\ UNCHANGED derived
             /\ Advance(Len(Docs), "manifest")
    <2>1. Docs[index] \in DocFiles /\ Docs[index] \in Names /\ Docs[index] # "manifest"
      BY <1>2, FilesByPlace, NamesOfFiles
    <2>2. /\ result' = result
          /\ \/ at' = "write" /\ index' = index + 1 /\ index < Len(Docs)
             \/ at' = "manifest" /\ index' = 1 /\ index = Len(Docs)
      BY <1>1, <1>2, <1>4 DEF Advance, Goto
    <2>3. declared' \in Listings
      BY <1>4 DEF ChainInv, TypesInv, Listings, Contents
    <2>4. index' \in 1 .. Len(Clips) + Len(Docs) + 1 /\ IndexInv'
      BY <1>2, <2>2 DEF IndexInv
    <2>5. derived' \subseteq Readers /\ derived' = derived
      BY <1>4 DEF ChainInv, TypesInv
    <2>6. Written' \subseteq Written \cup {Docs[index]}
      <3>1. Written = ClipFiles \cup Before(Docs, index)
        BY <1>1 DEF Written
      <3>2. CASE at' = "write" /\ index' = index + 1
        <4>1. Written' = ClipFiles \cup Before(Docs, index + 1)
          BY <3>2 DEF Written, Before
        <4>. QED  BY <1>2, <3>1, <4>1 DEF Before
      <3>3. CASE at' = "manifest" /\ index = Len(Docs)
        <4>1. Written' = ClipFiles \cup DocFiles
          BY <3>3, NamesOfFiles DEF Written
        <4>. QED  BY <1>2, <3>1, <3>3, <4>1, FilesByPlace DEF Before
      <3>. QED  BY <2>2, <3>2, <3>3
    <2>. QED  BY <1>1, <1>4, <2>1, <2>2, <2>3, <2>4, <2>5, <2>6, WriteMoves
  <1>. QED  BY <1>3, <1>4 DEF WriteDocument

LEMMA WriteManifestKeeps ==
    ASSUME ChainInv, WriteManifest
    PROVE  ChainInv'
  <1>1. at = "manifest" /\ UNCHANGED <<readVars, publishVars, surroundings>>
    BY DEF WriteManifest, Unread, Unpublished, Outside
  <1>2. CASE (Interrupted \/ Fails) /\ Unbuilt
    BY <1>1, <1>2, StopKeeps DEF InCallback, Unbuilt
  <1>3. CASE Put("manifest", declared) /\ Goto("inspect") /\ UNCHANGED <<derived, declared>>
    <2>1. at' = "inspect" /\ index' = 1 /\ result' = result
      BY <1>3 DEF Goto
    <2>2. declared \in Listings /\ derived \subseteq Readers /\ "manifest" \in Names
      BY NamesOfFiles DEF ChainInv, TypesInv
    <2>3. IndexInv' /\ index' \in 1 .. Len(Clips) + Len(Docs) + 1
      BY <2>1, FilesByPlace DEF IndexInv
    <2>. QED  BY <1>1, <1>3, <2>1, <2>2, <2>3, WriteMoves
  <1>. QED  BY <1>2, <1>3 DEF WriteManifest

-----------------------------------------------------------------------------
\* A step of the verification that goes on: what it adds is its own reading; the
\* files, the capability and what the operator sees stay.
LEMMA VerifyMoves ==
    ASSUME ChainInv, at \in VerifySteps, at' \in VerifySteps \cup {"enter"}, result' = result,
           UNCHANGED <<derived, dir, declared, publishVars, surroundings>>,
           tree' \in {tree, dir}, evidence'.tree \in {tree, evidence.tree},
           read' \in Listings, evidence' \in [tree : Trees, contents : Listings, bound : BOOLEAN],
           index' \in 1 .. Len(Clips) + Len(Docs) + 1, IndexInv', VerifyInv', EvidenceInv'
    PROVE  ChainInv'
  <1>1. UNCHANGED <<dir, declared, derived, proof, callback, reached, visible, source, stopped, edits, late>>
    BY DEF publishVars, surroundings
  <1>2. /\ at \in {"inspect", "listing", "load", "relate", "measure", "reinspect"}
        /\ at' \in {"inspect", "listing", "load", "relate", "measure", "reinspect", "enter"}
        /\ ~InCallback /\ at # "ended" /\ ~Building' /\ ~InCallback'
    BY ChainSteps DEF VerifySteps, InCallback, Building, BuildSteps
  <1>3. callback = "idle" /\ proof = "none" /\ ~reached /\ visible # "new"
    BY <1>2, IdleBefore DEF ChainInv
  <1>4. TypesInv'
    <2>1. at' \in ReadSteps \cup BuildSteps \cup VerifySteps \cup PublishSteps \cup {"ended"}
      BY <1>2 DEF VerifySteps, PublishSteps
    <2>. QED  BY <1>1, <2>1 DEF ChainInv, TypesInv
  <1>5. TreesInv'
    BY <1>1, <1>2 DEF ChainInv, TreesInv, Snapshot, Missing, File, NoListing
  <1>6. CapabilityInv'
    BY <1>1, <1>2, <1>3 DEF ChainInv, CapabilityInv
  <1>7. BuildInv'
    <2>1. derived = {} /\ Written = Files /\ Written' = Files
      BY <1>2 DEF ChainInv, BuildInv, Written, VerifySteps, PublishSteps
    <2>. QED  BY <1>1, <2>1 DEF ChainInv, BuildInv
  <1>. QED  BY <1>4, <1>5, <1>6, <1>7 DEF ChainInv

\* Where the tree and the bound evidence stay, EvidenceInv does.
LEMMA EvidenceStays ==
    ASSUME ChainInv, at \in VerifySteps, at' \in VerifySteps, UNCHANGED <<evidence, callback, visible>>
    PROVE  EvidenceInv'
  <1>1. callback = "idle" /\ visible # "new"
    BY IdleBefore DEF ChainInv, VerifySteps, InCallback
  <1>. QED  BY <1>1 DEF ChainInv, EvidenceInv, VerifySteps, PublishSteps

\* A file that was read when it had the revision of the first inspection says
\* what that inspection found.
LEMMA ReadIsTree ==
    ASSUME ChainInv, NEW n \in Names, Untouched(n)
    PROVE  tree[n] = dir[n]
  BY DEF ChainInv, TreesInv, Snapshot, Untouched

LEMMA InspectKeeps ==
    ASSUME ChainInv, Inspect
    PROVE  ChainInv'
  <1>1. /\ at = "inspect" /\ UNCHANGED <<derived, dir, declared, publishVars, surroundings>>
        /\ ~InCallback /\ at \in VerifySteps
    BY DEF Inspect, Unbuilt, Unpublished, Outside, InCallback, VerifySteps
  <1>2. CASE (Interrupted \/ Fails) /\ Unread
    BY <1>1, <1>2, StopKeeps DEF Unread
  <1>3. CASE tree' = dir /\ Goto("listing") /\ UNCHANGED <<read, evidence>>
    <2>1. at' = "listing" /\ index' = 1 /\ result' = result /\ at' \in VerifySteps
      BY <1>3 DEF Goto, VerifySteps
    <2>2. IndexInv' /\ VerifyInv' /\ index' \in 1 .. Len(Clips) + Len(Docs) + 1
      BY <2>1, FilesByPlace DEF IndexInv, VerifyInv, Verifying, Compared
    <2>3. EvidenceInv'
      BY <1>1, <1>3, <2>1, EvidenceStays DEF publishVars
    <2>. QED  BY <1>1, <1>3, <2>1, <2>2, <2>3, VerifyMoves DEF ChainInv, TypesInv
  <1>. QED  BY <1>2, <1>3 DEF Inspect

LEMMA ReadManifestKeeps ==
    ASSUME ChainInv, ReadManifest
    PROVE  ChainInv'
  <1>1. /\ at = "listing" /\ UNCHANGED <<derived, dir, declared, publishVars, surroundings>>
        /\ ~InCallback /\ at \in VerifySteps
    BY DEF ReadManifest, Unbuilt, Unpublished, Outside, InCallback, VerifySteps
  <1>2. CASE Fails /\ Unread
    BY <1>1, <1>2, StopKeeps DEF Unread
  <1>3. CASE read' = dir["manifest"].is /\ Goto("load") /\ UNCHANGED <<tree, evidence>>
    <2>1. at' = "load" /\ index' = 1 /\ result' = result /\ at' \in VerifySteps
      BY <1>3 DEF Goto, VerifySteps
    <2>2. IndexInv' /\ index' \in 1 .. Len(Clips) + Len(Docs) + 1
      BY <2>1, FilesByPlace DEF IndexInv
    <2>3. VerifyInv'
      <3>1. Untouched("manifest") => read' = tree["manifest"].is
        BY <1>3, ReadIsTree, NamesOfFiles
      <3>2. Compared' = {}
        BY <2>1 DEF Compared, Before
      <3>. QED  BY <1>1, <1>3, <2>1, <3>1, <3>2 DEF VerifyInv, Untouched
    <2>4. EvidenceInv'
      BY <1>1, <1>3, <2>1, EvidenceStays DEF publishVars
    <2>5. read' \in Listings
      BY <1>3, TreeTypes DEF ChainInv, TypesInv
    <2>. QED  BY <1>1, <1>3, <2>1, <2>2, <2>3, <2>4, <2>5, VerifyMoves DEF ChainInv, TypesInv
  <1>. QED  BY <1>2, <1>3 DEF ReadManifest

LEMMA LoadKeeps ==
    ASSUME ChainInv, Load
    PROVE  ChainInv'
  <1>1. /\ at = "load" /\ UNCHANGED <<derived, dir, declared, readVars, publishVars, surroundings>>
        /\ ~InCallback /\ at \in VerifySteps /\ UNCHANGED <<read, tree, evidence>>
    BY DEF Load, Unbuilt, Unread, Unpublished, Outside, InCallback, VerifySteps, readVars
  <1>2. CASE Fails
    BY <1>1, <1>2, StopKeeps
  <1>3. CASE dir[Docs[index]].is = read[Docs[index]] /\ Advance(Len(Docs), "relate")
    <2>1. index \in 1 .. Len(Docs) /\ Len(Clips) \in Nat /\ Len(Docs) \in Nat
      BY <1>1, FilesByPlace DEF ChainInv, TypesInv, IndexInv
    <2>2. /\ result' = result /\ at' \in VerifySteps
          /\ \/ at' = "load" /\ index' = index + 1 /\ index < Len(Docs)
             \/ at' = "relate" /\ index' = 1 /\ index = Len(Docs)
      BY <1>1, <1>3, <2>1 DEF Advance, Goto, VerifySteps
    <2>3. IndexInv' /\ index' \in 1 .. Len(Clips) + Len(Docs) + 1
      BY <2>1, <2>2 DEF IndexInv
    <2>4. VerifyInv'
      <3>1. Compared = Before(Docs, index)
        BY <1>1 DEF Compared
      <3>2. Compared' \subseteq Compared \cup {Docs[index]}
        <4>1. CASE at' = "load" /\ index' = index + 1
          <5>1. Compared' = Before(Docs, index + 1)
            BY <4>1 DEF Compared, Before
          <5>. QED  BY <2>1, <3>1, <5>1 DEF Before
        <4>2. CASE at' = "relate" /\ index = Len(Docs)
          <5>1. Compared' = DocFiles
            BY <4>2 DEF Compared
          <5>. QED  BY <2>1, <3>1, <4>2, <5>1, FilesByPlace DEF Before
        <4>. QED  BY <2>2, <4>1, <4>2
      <3>3. Untouched(Docs[index]) => tree[Docs[index]].is = read[Docs[index]]
        BY <1>3, <2>1, ReadIsTree, FilesByPlace, NamesOfFiles
      <3>4. \A f \in Compared' : Untouched(f) => tree[f].is = read[f]
        BY <3>2, <3>3 DEF ChainInv, VerifyInv
      <3>5. Untouched("manifest") => read = tree["manifest"].is
        BY <1>1 DEF ChainInv, VerifyInv, Verifying
      <3>. QED  BY <1>1, <2>2, <3>4, <3>5 DEF VerifyInv, Untouched
    <2>5. EvidenceInv'
      BY <1>1, <2>2, EvidenceStays DEF publishVars
    <2>. QED  BY <1>1, <1>3, <2>2, <2>3, <2>4, <2>5, VerifyMoves DEF ChainInv, TypesInv
  <1>. QED  BY <1>2, <1>3 DEF Load

LEMMA RelateKeeps ==
    ASSUME ChainInv, Relate
    PROVE  ChainInv'
  <1>1. /\ at = "relate" /\ UNCHANGED <<derived, dir, declared, readVars, publishVars, surroundings>>
        /\ ~InCallback /\ at \in VerifySteps /\ UNCHANGED <<read, tree, evidence>>
    BY DEF Relate, Unbuilt, Unread, Unpublished, Outside, InCallback, VerifySteps, readVars
  <1>2. CASE Fails
    BY <1>1, <1>2, StopKeeps
  <1>3. CASE /\ \A n \in Names : (tree[n].revision > 0) = (n = "manifest" \/ (n \in Files /\ read[n] # "absent"))
             /\ Goto(IF Clips = <<>> THEN "reinspect" ELSE "measure")
    <2>1. /\ index' = 1 /\ result' = result
          /\ (Clips = <<>> /\ at' = "reinspect") \/ (Clips # <<>> /\ at' = "measure")
      BY <1>3, Zenon DEF Goto
    <2>2. at' \in VerifySteps
      BY <2>1 DEF VerifySteps
    <2>3. IndexInv' /\ index' \in 1 .. Len(Clips) + Len(Docs) + 1
      BY <2>1, FilesByPlace DEF IndexInv
    <2>4. VerifyInv'
      <3>1. Compared = DocFiles
        BY <1>1 DEF Compared
      <3>2. Compared' = DocFiles
        <4>1. CASE Clips # <<>> /\ at' = "measure"
          <5>1. Before(Clips, index') = {}
            BY <2>1, FilesByPlace DEF Before
          <5>2. Compared' = DocFiles \cup Before(Clips, index')
            BY <4>1 DEF Compared, Before
          <5>. QED  BY <5>1, <5>2
        <4>2. CASE Clips = <<>> /\ at' = "reinspect"
          BY <4>2, FilesByPlace, NamesOfFiles DEF Compared
        <4>. QED  BY <2>1, <4>1, <4>2
      <3>3. \A f \in Compared' : Untouched(f) => tree[f].is = read[f]
        BY <3>1, <3>2 DEF ChainInv, VerifyInv
      <3>4. Untouched("manifest") => read = tree["manifest"].is
        BY <1>1 DEF ChainInv, VerifyInv, Verifying
      <3>5. \A n \in Names : tree[n].revision > 0 <=> InManifest(n)
        BY <1>3, Zenon DEF InManifest
      <3>. QED  BY <1>1, <3>3, <3>4, <3>5 DEF VerifyInv, Untouched, InManifest
    <2>5. EvidenceInv'
      BY <1>1, <2>2, EvidenceStays DEF publishVars
    <2>. QED  BY <1>1, <2>1, <2>2, <2>3, <2>4, <2>5, VerifyMoves DEF ChainInv, TypesInv
  <1>. QED  BY <1>2, <1>3 DEF Relate

LEMMA MeasureKeeps ==
    ASSUME ChainInv, Measure
    PROVE  ChainInv'
  <1>1. /\ at = "measure" /\ UNCHANGED <<derived, dir, declared, readVars, publishVars, surroundings>>
        /\ ~InCallback /\ at \in VerifySteps /\ UNCHANGED <<read, tree, evidence>>
    BY DEF Measure, Unbuilt, Unread, Unpublished, Outside, InCallback, VerifySteps, readVars
  <1>2. CASE Interrupted \/ Fails
    BY <1>1, <1>2, StopKeeps
  <1>3. CASE dir[Clips[index]].is = read[Clips[index]] /\ Advance(Len(Clips), "reinspect")
    <2>1. index \in 1 .. Len(Clips) /\ Len(Clips) \in Nat /\ Len(Docs) \in Nat /\ Clips # <<>>
      BY <1>1, FilesByPlace DEF ChainInv, TypesInv, IndexInv
    <2>2. /\ result' = result /\ at' \in VerifySteps
          /\ \/ at' = "measure" /\ index' = index + 1 /\ index < Len(Clips)
             \/ at' = "reinspect" /\ index' = 1 /\ index = Len(Clips)
      BY <1>1, <1>3, <2>1 DEF Advance, Goto, VerifySteps
    <2>3. IndexInv' /\ index' \in 1 .. Len(Clips) + Len(Docs) + 1
      BY <2>1, <2>2 DEF IndexInv
    <2>4. VerifyInv'
      <3>1. Compared = DocFiles \cup Before(Clips, index)
        BY <1>1 DEF Compared
      <3>2. Compared' \subseteq Compared \cup {Clips[index]}
        <4>1. CASE at' = "measure" /\ index' = index + 1
          <5>1. Compared' = DocFiles \cup Before(Clips, index + 1)
            BY <4>1 DEF Compared, Before
          <5>. QED  BY <2>1, <3>1, <5>1 DEF Before
        <4>2. CASE at' = "reinspect" /\ index = Len(Clips)
          <5>1. Compared' = ClipFiles \cup DocFiles
            BY <4>2, NamesOfFiles DEF Compared
          <5>. QED  BY <2>1, <3>1, <4>2, <5>1, FilesByPlace DEF Before
        <4>. QED  BY <2>2, <4>1, <4>2
      <3>3. Untouched(Clips[index]) => tree[Clips[index]].is = read[Clips[index]]
        BY <1>3, <2>1, ReadIsTree, FilesByPlace, NamesOfFiles
      <3>4. \A f \in Compared' : Untouched(f) => tree[f].is = read[f]
        BY <3>2, <3>3 DEF ChainInv, VerifyInv
      <3>5. Untouched("manifest") => read = tree["manifest"].is
        BY <1>1 DEF ChainInv, VerifyInv, Verifying
      <3>6. \A n \in Names : tree[n].revision > 0 <=> InManifest(n)
        BY <1>1 DEF ChainInv, VerifyInv
      <3>. QED  BY <1>1, <2>2, <3>4, <3>5, <3>6 DEF VerifyInv, Untouched, InManifest
    <2>5. EvidenceInv'
      BY <1>1, <2>2, EvidenceStays DEF publishVars
    <2>. QED  BY <1>1, <1>3, <2>2, <2>3, <2>4, <2>5, VerifyMoves DEF ChainInv, TypesInv
  <1>. QED  BY <1>2, <1>3 DEF Measure

\* What was read at different times is one state of the directory.
LEMMA BoundIsOneState ==
    ASSUME ChainInv, at = "reinspect", SameTree(tree)
    PROVE  /\ tree["manifest"].is = read
           /\ \A f \in Files : tree[f].is = read[f]
           /\ tree[Alien].revision = 0
  <1>1. \A n \in Names : tree[n].revision = dir[n].revision /\ tree[n].revision \in Nat
    BY TreeTypes DEF SameTree, ChainInv, TypesInv
  <1>2. \A n \in Names : tree[n].revision > 0 <=> InManifest(n)
    BY DEF ChainInv, VerifyInv
  <1>3. tree["manifest"].is = read
    BY <1>1, <1>2, NamesOfFiles DEF ChainInv, VerifyInv, Verifying, Untouched, InManifest
  <1>4. tree[Alien].revision = 0
    BY <1>1, <1>2, NamesOfFiles DEF InManifest
  <1>5. ASSUME NEW f \in Files
        PROVE  tree[f].is = read[f]
    <2>1. f \in Names /\ f # "manifest" /\ f \in Compared
      BY NamesOfFiles DEF Compared
    <2>2. CASE tree[f].revision > 0
      BY <1>1, <2>1, <2>2 DEF ChainInv, VerifyInv, Untouched
    <2>3. CASE tree[f].revision = 0
      <3>1. read[f] = "absent"
        BY <1>2, <2>1, <2>3 DEF InManifest
      <3>2. tree[f] = Missing(f)
        BY <2>1, <2>3 DEF ChainInv, TreesInv, Snapshot
      <3>. QED  BY <2>1, <3>1, <3>2 DEF Missing, File
    <2>. QED  BY <1>1, <2>1, <2>2, <2>3
  <1>. QED  BY <1>3, <1>4, <1>5

LEMMA ReinspectKeeps ==
    ASSUME ChainInv, Reinspect
    PROVE  ChainInv'
  <1>1. /\ at = "reinspect" /\ UNCHANGED <<derived, dir, declared, publishVars, surroundings>>
        /\ ~InCallback /\ at \in VerifySteps
    BY DEF Reinspect, Unbuilt, Unpublished, Outside, InCallback, VerifySteps
  <1>2. CASE (Interrupted \/ Fails) /\ Unread
    BY <1>1, <1>2, StopKeeps DEF Unread
  <1>3. CASE /\ SameTree(tree)
             /\ evidence' = [tree |-> tree, contents |-> read, bound |-> TRUE]
             /\ Goto("enter") /\ UNCHANGED <<read, tree>>
    <2>1. at' = "enter" /\ index' = 1 /\ result' = result
      BY <1>3 DEF Goto
    <2>2. IndexInv' /\ index' \in 1 .. Len(Clips) + Len(Docs) + 1 /\ VerifyInv'
      BY <2>1, FilesByPlace DEF IndexInv, VerifyInv, Verifying, Compared
    <2>3. /\ evidence' \in [tree : Trees, contents : Listings, bound : BOOLEAN]
          /\ evidence'.tree = tree /\ evidence'.contents = read /\ evidence'.bound
      BY <1>3 DEF ChainInv, TypesInv
    <2>4. EvidenceInv'
      <3>1. callback' = "idle" /\ visible' # "new"
        BY <1>1, IdleBefore DEF ChainInv, publishVars
      <3>. QED  BY <1>1, <1>3, <2>1, <2>3, <3>1, BoundIsOneState DEF EvidenceInv
    <2>. QED  BY <1>1, <1>3, <2>1, <2>2, <2>3, <2>4, VerifyMoves DEF ChainInv, TypesInv
  <1>. QED  BY <1>2, <1>3 DEF Reinspect

-----------------------------------------------------------------------------
\* A step of the publication: it reads, or moves the capability; the files and
\* what was bound to them stay.
LEMMA PublishMoves ==
    ASSUME ChainInv, at \in PublishSteps, at' \in PublishSteps \cup {"ended"},
           UNCHANGED <<derived, dir, declared, tree, evidence, surroundings>>,
           read' \in Listings, index' \in 1 .. Len(Clips) + Len(Docs) + 1, IndexInv',
           proof' \in {"none", "publishing", "published", "revoked"}, callback' \in {"idle", "active", "over"},
           visible' \in {"old", "new", "unknown"}, reached' \in BOOLEAN,
           result' \in {"none", "published", "failed", "interrupted"}, CapabilityInv',
           at' = "swap" \/ visible' = "new" => late \/ SameTree(evidence.tree)
    PROVE  ChainInv'
  <1>1. UNCHANGED <<source, stopped, edits, late>>
    BY DEF surroundings
  <1>2. /\ at \in {"enter", "hash", "recompare", "callback", "effect", "exchange", "swap"}
        /\ at' \in {"enter", "hash", "recompare", "callback", "effect", "exchange", "swap", "ended"}
        /\ ~Building'
    BY ChainSteps DEF PublishSteps, Building, BuildSteps
  <1>3. TypesInv'
    <2>1. at' \in ReadSteps \cup BuildSteps \cup VerifySteps \cup PublishSteps \cup {"ended"}
      OBVIOUS
    <2>. QED  BY <1>1, <2>1 DEF ChainInv, TypesInv
  <1>4. TreesInv'
    BY <1>1, <1>2, TreesStay DEF ChainInv
  <1>5. VerifyInv'
    BY <1>2 DEF VerifyInv, Verifying, Compared
  <1>6. EvidenceInv'
    <2>1. evidence.bound
      BY DEF ChainInv, EvidenceInv
    <2>. QED  BY <1>1, <2>1 DEF ChainInv, EvidenceInv, SameTree
  <1>7. BuildInv'
    <2>1. derived = {} /\ Written = Files /\ Written' \subseteq Files
      BY <1>2 DEF ChainInv, BuildInv, Written, PublishSteps, VerifySteps
    <2>. QED  BY <1>1, <2>1 DEF ChainInv, BuildInv
  <1>. QED  BY <1>3, <1>4, <1>5, <1>6, <1>7 DEF ChainInv

LEMMA EnterKeeps ==
    ASSUME ChainInv, Enter
    PROVE  ChainInv'
  <1>1. /\ at = "enter" /\ UNCHANGED <<derived, dir, declared, readVars, publishVars, surroundings>>
        /\ ~InCallback /\ at \in PublishSteps /\ UNCHANGED <<read, tree, evidence, proof, callback, reached, visible>>
    BY DEF Enter, Unbuilt, Unread, Unpublished, Outside, InCallback, PublishSteps, readVars, publishVars
  <1>2. callback = "idle" /\ proof = "none" /\ ~reached /\ visible # "new"
    BY <1>1, IdleBefore DEF ChainInv
  <1>3. CASE Interrupted \/ Fails
    BY <1>1, <1>3, StopKeeps
  <1>4. CASE Goto("hash")
    <2>1. at' = "hash" /\ index' = 1 /\ result' = result
      BY <1>4 DEF Goto
    <2>2. IndexInv' /\ index' \in 1 .. Len(Clips) + Len(Docs) + 1
      BY <2>1, FilesByPlace DEF IndexInv
    <2>3. CapabilityInv'
      BY <1>1, <1>2, <2>1 DEF ChainInv, CapabilityInv, InCallback
    <2>. QED  BY <1>1, <1>2, <2>1, <2>2, <2>3, PublishMoves DEF ChainInv, TypesInv, PublishSteps
  <1>. QED  BY <1>3, <1>4 DEF Enter

LEMMA HashKeeps ==
    ASSUME ChainInv, Hash
    PROVE  ChainInv'
  <1>. DEFINE all == Clips \o Docs
  <1>1. /\ at = "hash" /\ UNCHANGED <<derived, dir, declared, publishVars, surroundings>>
        /\ ~InCallback /\ at \in PublishSteps /\ UNCHANGED <<proof, callback, reached, visible>>
    BY DEF Hash, Unbuilt, Unpublished, Outside, InCallback, PublishSteps, publishVars
  <1>2. callback = "idle" /\ proof = "none" /\ ~reached /\ visible # "new"
    BY <1>1, IdleBefore DEF ChainInv
  <1>3. CASE (Interrupted \/ Fails) /\ Unread
    BY <1>1, <1>3, StopKeeps DEF Unread
  <1>4. CASE /\ read' = [read EXCEPT ![all[index]] = dir[all[index]].is]
             /\ Advance(Len(all), "recompare") /\ UNCHANGED <<tree, evidence>>
    <2>1. Len(all) = Len(Clips) + Len(Docs) /\ Len(Clips) \in Nat /\ Len(Docs) \in Nat
      <3>1. Clips \in Seq(Files) /\ Docs \in Seq(Files)
        BY FilesAssumption, NamesOfFiles
      <3>. QED  BY <3>1
    <2>2. index \in 1 .. Len(all)
      BY <1>1, <2>1 DEF ChainInv, TypesInv, IndexInv
    <2>3. all[index] \in Files
      <3>1. index <= Len(Clips) => all[index] = Clips[index]
        BY <2>1, <2>2, FilesAssumption
      <3>2. index > Len(Clips) => all[index] = Docs[index - Len(Clips)]
        BY <2>1, <2>2, FilesAssumption
      <3>. QED  BY <2>1, <2>2, <3>1, <3>2, FilesByPlace, NamesOfFiles
    <2>4. read' \in Listings
      <3>1. dir[all[index]].is \in Contents
        BY <2>3, TreeTypes, NamesOfFiles DEF ChainInv, TypesInv
      <3>. QED  BY <1>4, <2>3, <3>1 DEF ChainInv, TypesInv, Listings
    <2>5. /\ result' = result
          /\ \/ at' = "hash" /\ index' = index + 1 /\ index < Len(all)
             \/ at' = "recompare" /\ index' = 1
      BY <1>1, <1>4 DEF Advance, Goto
    <2>6. IndexInv' /\ index' \in 1 .. Len(Clips) + Len(Docs) + 1
      BY <2>1, <2>2, <2>5 DEF IndexInv
    <2>7. CapabilityInv'
      BY <1>1, <1>2, <2>5 DEF ChainInv, CapabilityInv, InCallback
    <2>. QED  BY <1>1, <1>2, <1>4, <2>4, <2>5, <2>6, <2>7, PublishMoves DEF ChainInv, TypesInv, PublishSteps
  <1>. QED  BY <1>3, <1>4 DEF Hash

LEMMA PrepareKeeps ==
    ASSUME ChainInv, Prepare
    PROVE  ChainInv'
  <1>1. /\ at = "recompare" /\ UNCHANGED <<derived, dir, declared, readVars, surroundings>>
        /\ ~InCallback /\ at \in PublishSteps /\ UNCHANGED <<read, tree, evidence>>
    BY DEF Prepare, Unbuilt, Unread, Outside, InCallback, PublishSteps, readVars
  <1>2. callback = "idle" /\ proof = "none" /\ ~reached /\ visible # "new"
    BY <1>1, IdleBefore DEF ChainInv
  <1>3. CASE (Interrupted \/ Fails) /\ Unpublished
    BY <1>1, <1>3, StopKeeps DEF Unpublished
  <1>4. CASE Issue /\ callback' = "active" /\ Goto("callback") /\ UNCHANGED <<reached, visible>>
    <2>1. at' = "callback" /\ index' = 1 /\ result' = result /\ proof' = "publishing"
      BY <1>4 DEF Goto, Issue
    <2>2. IndexInv' /\ index' \in 1 .. Len(Clips) + Len(Docs) + 1
      BY <2>1, FilesByPlace DEF IndexInv
    <2>3. CapabilityInv'
      BY <1>2, <1>4, <2>1 DEF ChainInv, CapabilityInv, InCallback
    <2>. QED  BY <1>1, <1>2, <1>4, <2>1, <2>2, <2>3, PublishMoves DEF ChainInv, TypesInv, PublishSteps
  <1>. QED  BY <1>3, <1>4 DEF Prepare

\* What happens between the call of the effect and its return.
LEMMA EffectMoves ==
    ASSUME ChainInv, InCallback, at' \in {"callback", "effect", "exchange", "swap"},
           UNCHANGED <<index, result, derived, dir, declared, readVars, surroundings, proof, callback>>,
           visible' \in {"old", "new", "unknown"}, reached' \in BOOLEAN, visible' = "new" <=> reached',
           at' # "callback" => ~reached',
           at' = "swap" \/ visible' = "new" => late \/ SameTree(evidence.tree)
    PROVE  ChainInv'
  <1>1. at \in PublishSteps /\ at \in {"callback", "effect", "exchange", "swap"} /\ UNCHANGED <<read, tree, evidence>>
    BY DEF InCallback, PublishSteps, readVars
  <1>2. IndexInv'
    BY DEF IndexInv
  <1>3. CapabilityInv'
    BY DEF ChainInv, CapabilityInv, InCallback
  <1>. QED  BY <1>1, <1>2, <1>3, PublishMoves DEF ChainInv, TypesInv, PublishSteps

LEMMA CallEffectKeeps ==
    ASSUME ChainInv, CallEffect
    PROVE  ChainInv'
  <1>1. /\ at' = "effect" /\ callback = "active" /\ ~reached /\ InCallback
        /\ UNCHANGED <<index, result, derived, dir, declared, readVars, surroundings, proof, callback, reached, visible>>
    BY DEF CallEffect, EffectAllowed, ChainInv, CapabilityInv, Unbuilt, Unread, Unpublished, Outside, publishVars
  <1>. QED  BY <1>1, EffectMoves DEF ChainInv, TypesInv, CapabilityInv

LEMMA CheckEffectKeeps ==
    ASSUME ChainInv, CheckEffect \/ LastInspection
    PROVE  ChainInv'
  <1>1. /\ at \in {"effect", "exchange"} /\ InCallback /\ ~reached /\ visible # "new"
        /\ at' = "callback" \/ at' = "exchange" \/ (at' = "swap" /\ SameTree(evidence.tree))
        /\ UNCHANGED <<index, result, derived, dir, declared, readVars, surroundings, proof, callback, reached, visible>>
    BY DEF CheckEffect, LastInspection, EffectRaises, InCallback, ChainInv, CapabilityInv, Unbuilt, Unread, Unpublished,
       Outside, publishVars
  <1>. QED  BY <1>1, EffectMoves DEF ChainInv, TypesInv

LEMMA SwapKeeps ==
    ASSUME ChainInv, Swap
    PROVE  ChainInv'
  <1>1. /\ at = "swap" /\ at' = "callback" /\ InCallback /\ ~reached /\ visible # "new"
        /\ late \/ SameTree(evidence.tree)
        /\ UNCHANGED <<index, result, derived, dir, declared, readVars, surroundings, proof, callback>>
    BY DEF Swap, EffectRaises, InCallback, ChainInv, CapabilityInv, EvidenceInv, Unbuilt, Unread, Unpublished, Outside,
       publishVars
  <1>2. /\ visible' \in {"old", "new", "unknown"} /\ reached' \in BOOLEAN
        /\ (visible' = "new") <=> reached'
    <2>1. visible \in {"old", "new", "unknown"} /\ reached \in BOOLEAN
      BY DEF ChainInv, TypesInv
    <2>2. CASE UNCHANGED <<reached, visible>>
      BY <1>1, <2>1, <2>2
    <2>3. CASE visible' = "unknown" /\ UNCHANGED reached
      BY <1>1, <2>1, <2>3
    <2>4. CASE visible' = "new" /\ reached' = TRUE
      BY <2>4
    <2>. QED  BY <2>2, <2>3, <2>4 DEF Swap, Unpublished, publishVars
  <1>3. at' \in {"callback", "effect", "exchange", "swap"} /\ (at' # "callback" => ~reached')
        /\ (at' = "swap" \/ visible' = "new" => late \/ SameTree(evidence.tree))
    BY <1>1
  <1>. QED  BY <1>1, <1>2, <1>3, EffectMoves

LEMMA LeaveCallbackKeeps ==
    ASSUME ChainInv, LeaveCallback
    PROVE  ChainInv'
  <1>1. /\ at = "callback" /\ at \in PublishSteps /\ callback = "active" /\ callback' = "over"
        /\ at' = "ended" /\ index' = index
        /\ UNCHANGED <<derived, dir, declared, read, tree, evidence, surroundings, reached, visible>>
    BY DEF LeaveCallback, End, Fails, Interrupted, InCallback, ChainInv, CapabilityInv, Unbuilt, Unread, Outside,
       PublishSteps, readVars
  <1>2. \/ reached /\ proof' = "published" /\ result' = "published"
        \/ ~reached /\ proof' = "revoked" /\ result' \in {"failed", "interrupted"}
    BY DEF LeaveCallback, Activate, Revoke, End, Fails, Interrupted
  <1>3. IndexInv'
    BY <1>1 DEF IndexInv
  <1>4. CapabilityInv'
    BY <1>1, <1>2 DEF ChainInv, CapabilityInv, InCallback
  <1>5. visible = "new" => late \/ SameTree(evidence.tree)
    BY DEF ChainInv, EvidenceInv
  <1>. QED  BY <1>1, <1>2, <1>3, <1>4, <1>5, PublishMoves DEF ChainInv, TypesInv

-----------------------------------------------------------------------------
\* Another program changes a file: the revision the file has from then on is one
\* it never had, or none.
LEMMA EditChanges ==
    ASSUME ChainInv, NEW n \in Names, Edit(n)
    PROVE  /\ dir' \in Trees /\ \A m \in Names \ {n} : dir'[m] = dir[m]
           /\ dir'[n] = Missing(n) \/ dir'[n].revision = edits + 2
           /\ dir'[n].revision = 0 => dir'[n] = Missing(n)
  <1>1. dir \in Trees /\ edits \in Nat /\ edits + 2 \in Nat
    BY FilesAssumption DEF ChainInv, TypesInv
  <1>2. CASE dir' = [dir EXCEPT ![n] = Missing(n)]
    <2>. DEFINE none == IF n = "manifest" THEN NoListing ELSE "absent"
    <2>1. dir' = Held(dir, n, none, 0) /\ Missing(n) = File(none, 0)
      BY <1>2 DEF Held, Missing
    <2>2. (n = "manifest" => none \in Listings) /\ (n # "manifest" => none \in Contents)
      BY EmptyTypes DEF Contents
    <2>. HIDE DEF none
    <2>. QED  BY <1>1, <2>1, <2>2, FileInTree
  <1>3. ASSUME NEW c \in IF n = "manifest" THEN {[f \in Files |-> "edited"]} ELSE {"rendered", "edited"},
               dir' = [dir EXCEPT ![n] = File(c, edits + 2)]
        PROVE  /\ dir' \in Trees /\ \A m \in Names \ {n} : dir'[m] = dir[m]
               /\ dir'[n].revision = edits + 2
    <2>1. dir' = Held(dir, n, c, edits + 2)
      BY <1>3 DEF Held
    <2>2. (n = "manifest" => c \in Listings) /\ (n # "manifest" => c \in Contents)
      BY DEF Contents, Listings
    <2>. QED  BY <1>1, <2>1, <2>2, FileInTree
  <1>4. edits + 2 # 0
    BY <1>1
  <1>. QED  BY <1>2, <1>3, <1>4 DEF Edit

LEMMA EditKeeps ==
    ASSUME ChainInv, NEW n \in Names, Edit(n)
    PROVE  ChainInv'
  <1>1. /\ dir' \in Trees /\ \A m \in Names \ {n} : dir'[m] = dir[m]
        /\ dir'[n] = Missing(n) \/ dir'[n].revision = edits + 2
        /\ dir'[n].revision = 0 => dir'[n] = Missing(n)
    BY EditChanges
  <1>2. /\ edits' = edits + 1 /\ edits \in Nat /\ edits' \in 0 .. MaxEdits /\ visible = "old" /\ at \notin ReadSteps /\ at # "ended"
        /\ late' = (late \/ at = "swap")
        /\ UNCHANGED <<at, index, source, derived, declared, stopped, result, read, tree, evidence, proof, callback,
                       reached, visible>>
    BY FilesAssumption DEF Edit, ChainInv, TypesInv, Unread, Unpublished, readVars, publishVars
  <1>3. Missing(n).revision = 0
    BY DEF Missing, File
  <1>4. TypesInv'
    <2>1. late' \in BOOLEAN
      BY <1>2, Zenon
    <2>. QED  BY <1>1, <1>2, <2>1 DEF ChainInv, TypesInv
  <1>5. IndexInv'
    BY <1>2 DEF ChainInv, IndexInv
  <1>6. ASSUME NEW d \in Trees, Snapshot(d)
        PROVE  \A m \in Names : /\ d[m].revision <= edits' + 1
                                /\ d[m].revision = 0 => d[m] = Missing(m)
                                /\ d[m].revision = dir'[m].revision => d[m] = dir'[m]
    <2>. SUFFICES ASSUME NEW m \in Names
                  PROVE  /\ d[m].revision <= edits' + 1
                         /\ d[m].revision = 0 => d[m] = Missing(m)
                         /\ d[m].revision = dir'[m].revision => d[m] = dir'[m]
      OBVIOUS
    <2>1. d[m].revision \in Nat /\ d[m].revision <= edits + 1 /\ (d[m].revision = 0 => d[m] = Missing(m))
          /\ (d[m].revision = dir[m].revision => d[m] = dir[m])
      BY <1>6, TreeTypes DEF Snapshot
    <2>2. CASE m # n
      BY <1>1, <1>2, <2>1, <2>2
    <2>3. CASE m = n
      BY <1>1, <1>2, <1>3, <2>1, <2>3
    <2>. QED  BY <2>2, <2>3
  <1>7. TreesInv'
    <2>1. tree \in Trees /\ evidence.tree \in Trees /\ Snapshot(tree) /\ Snapshot(evidence.tree) /\ Snapshot(dir) /\ dir \in Trees
      BY DEF ChainInv, TypesInv, TreesInv
    <2>2. Snapshot(tree)' /\ Snapshot(evidence.tree)'
      BY <1>2, <1>6, <2>1 DEF Snapshot, Missing, File, NoListing
    <2>3. \A m \in Names : dir'[m].revision <= edits' + 1 /\ (dir'[m].revision = 0 => dir'[m] = Missing(m))
      BY <1>1, <1>2, <1>3, <2>1, TreeTypes DEF Snapshot
    <2>4. Snapshot(dir)'
      BY <2>3 DEF Snapshot, Missing, File, NoListing
    <2>5. Building' => Building
      BY <1>2 DEF Building
    <2>. QED  BY <1>2, <2>2, <2>4, <2>5 DEF ChainInv, TreesInv, Empty, NoEvidence
  <1>8. VerifyInv'
    <2>1. ASSUME NEW m \in Names, tree[m].revision = dir'[m].revision, tree[m].revision > 0
          PROVE  Untouched(m)
      <3>1. tree[m].revision <= edits + 1 /\ tree[m].revision \in Nat
        BY TreeTypes DEF ChainInv, TypesInv, TreesInv, Snapshot
      <3>2. m # n
        BY <1>1, <1>2, <1>3, <2>1, <3>1
      <3>. QED  BY <1>1, <2>1, <3>2 DEF Untouched
    <2>2. Compared' = Compared /\ Compared \subseteq Files
      <3>1. Compared' = Compared
        BY <1>2 DEF Compared
      <3>2. index \in Nat
        BY FilesByPlace DEF ChainInv, TypesInv
      <3>3. at = "load" => Compared \subseteq DocFiles
        BY <3>2, BeforeAreFiles DEF Compared, ChainInv, IndexInv
      <3>4. at = "measure" => Compared \subseteq Files
        BY <3>2, BeforeAreFiles, NamesOfFiles DEF Compared, ChainInv, IndexInv
      <3>. QED  BY <3>1, <3>3, <3>4, NamesOfFiles DEF Compared
    <2>3. Verifying /\ tree["manifest"].revision = dir'["manifest"].revision /\ tree["manifest"].revision > 0
             => read = tree["manifest"].is
      BY <2>1, NamesOfFiles DEF ChainInv, VerifyInv
    <2>4. \A f \in Compared : tree[f].revision = dir'[f].revision /\ tree[f].revision > 0 => tree[f].is = read[f]
      BY <2>1, <2>2, NamesOfFiles DEF ChainInv, VerifyInv
    <2>. QED  BY <1>2, <2>2, <2>3, <2>4 DEF ChainInv, VerifyInv, Verifying, Untouched, InManifest
  <1>9. EvidenceInv'
    BY <1>2 DEF ChainInv, EvidenceInv
  <1>10. CapabilityInv'
    BY <1>2 DEF ChainInv, CapabilityInv, InCallback
  <1>11. BuildInv'
    BY <1>2 DEF ChainInv, BuildInv
  <1>. QED  BY <1>4, <1>5, <1>7, <1>8, <1>9, <1>10, <1>11 DEF ChainInv

LEMMA OthersKeep ==
    ASSUME ChainInv, ChangeSource \/ Cancel
    PROVE  ChainInv'
  <1>1. /\ UNCHANGED <<at, index, derived, dir, declared, read, tree, evidence, proof, callback, reached, visible,
                       result, edits, late>>
        /\ source' = source \/ source' = "changed"
        /\ stopped' \in BOOLEAN
    BY DEF ChangeSource, Cancel, Unbuilt, Unread, Unpublished, readVars, publishVars, ChainInv, TypesInv
  <1>2. TypesInv'
    BY <1>1 DEF ChainInv, TypesInv
  <1>3. IndexInv' /\ CapabilityInv'
    BY <1>1 DEF ChainInv, IndexInv, CapabilityInv, InCallback
  <1>4. TreesInv'
    BY <1>1, TreesStay DEF ChainInv, Building
  <1>5. VerifyInv'
    BY <1>1 DEF ChainInv, VerifyInv, Verifying, Compared, Untouched, InManifest, Before
  <1>6. EvidenceInv'
    BY <1>1 DEF ChainInv, EvidenceInv, SameTree
  <1>7. BuildInv'
    BY <1>1 DEF ChainInv, BuildInv, Written, Before
  <1>. QED  BY <1>2, <1>3, <1>4, <1>5, <1>6, <1>7 DEF ChainInv

-----------------------------------------------------------------------------
\* What the stages know of the files, of each other's readings and of the
\* capability fits together at every step.
THEOREM ChainInvariant == ChainSpec => []ChainInv
  <1>1. ChainInit => ChainInv
    <2>. SUFFICES ASSUME ChainInit PROVE ChainInv
      OBVIOUS
    <2>1. /\ at = "analyse" /\ index = 1 /\ source = "same" /\ derived = {} /\ dir = Empty
          /\ declared = NoListing /\ read = NoListing /\ tree = Empty /\ evidence = NoEvidence
          /\ proof = "none" /\ callback = "idle" /\ ~reached /\ visible = "old"
          /\ ~stopped /\ result = "none" /\ edits = 0 /\ ~late
      BY DEF ChainInit
    <2>2. TypesInv
      <3>1. at \in ReadSteps \cup BuildSteps \cup VerifySteps \cup PublishSteps \cup {"ended"}
        BY <2>1, ChainSteps
      <3>2. reached \in BOOLEAN /\ stopped \in BOOLEAN /\ late \in BOOLEAN
        BY DEF ChainInit
      <3>. QED  BY <2>1, <3>1, <3>2, EmptyTypes, FilesByPlace, FilesAssumption DEF TypesInv
    <2>3. IndexInv
      BY <2>1 DEF IndexInv
    <2>4. TreesInv
      BY <2>1, EmptyTypes DEF TreesInv, Snapshot
    <2>5. VerifyInv
      BY <2>1 DEF VerifyInv, Verifying, Compared
    <2>6. EvidenceInv
      BY <2>1, EmptyTypes DEF EvidenceInv, PublishSteps
    <2>7. CapabilityInv
      BY <2>1 DEF CapabilityInv, InCallback
    <2>8. BuildInv
      BY <2>1 DEF BuildInv, Written, VerifySteps, PublishSteps
    <2>. QED  BY <2>2, <2>3, <2>4, <2>5, <2>6, <2>7, <2>8 DEF ChainInv
  <1>2. ChainInv /\ [ChainNext]_chainVars => ChainInv'
    <2>. SUFFICES ASSUME ChainInv, [ChainNext]_chainVars PROVE ChainInv'
      OBVIOUS
    <2>1. CASE Reading
      BY <2>1, OpenSourceKeeps, ReadSourceKeeps, CheckSourceKeeps, ExportKeeps DEF Reading
    <2>2. CASE Build
      BY <2>2, RenderKeeps, WriteDocumentKeeps, WriteManifestKeeps DEF Build
    <2>3. CASE Verify
      BY <2>3, InspectKeeps, ReadManifestKeeps, LoadKeeps, RelateKeeps, MeasureKeeps, ReinspectKeeps DEF Verify
    <2>4. CASE Publish
      BY <2>4, EnterKeeps, HashKeeps, PrepareKeeps, CallEffectKeeps, CheckEffectKeeps, SwapKeeps,
         LeaveCallbackKeeps DEF Publish
    <2>5. CASE Others
      BY <2>5, EditKeeps, OthersKeep DEF Others
    <2>6. CASE UNCHANGED chainVars
      <3>1. UNCHANGED <<at, index, source, derived, dir, declared, read, tree, evidence, proof, callback, reached,
                        visible, stopped, result, edits, late>>
        BY <2>6 DEF chainVars
      <3>2. TypesInv' /\ IndexInv' /\ CapabilityInv'
        BY <3>1 DEF ChainInv, TypesInv, IndexInv, CapabilityInv, InCallback
      <3>3. TreesInv'
        BY <3>1, TreesStay DEF ChainInv, Building
      <3>4. VerifyInv' /\ EvidenceInv'
        BY <3>1 DEF ChainInv, VerifyInv, Verifying, Compared, Untouched, InManifest, Before, EvidenceInv, SameTree
      <3>5. BuildInv'
        BY <3>1 DEF ChainInv, BuildInv, Written, Before
      <3>. QED  BY <3>2, <3>3, <3>4, <3>5 DEF ChainInv
    <2>. QED  BY <2>1, <2>2, <2>3, <2>4, <2>5, <2>6 DEF ChainNext
  <1>. QED  BY <1>1, <1>2, PTL DEF ChainSpec

\* The variables of the chain have their types, whatever the files are.
THEOREM ChainTypeCorrect == ChainSpec => []ChainTypeOK
  <1>1. ChainInv => ChainTypeOK
    BY TypesAreTypeOK DEF ChainInv
  <1>. QED  BY <1>1, ChainInvariant, PTL

\* What is visible after the commit is the bound tree, unless somebody changed it
\* after the last inspection.
LEMMA VisibleIsBound ==
    ASSUME ChainInv, visible = "new", ~late
    PROVE  PublishedAsVerified
  <1>1. evidence.bound /\ SameTree(evidence.tree)
    <2>1. callback # "idle"
      BY DEF ChainInv, CapabilityInv
    <2>. QED  BY <2>1 DEF ChainInv, EvidenceInv
  <1>2. \A n \in Names : evidence.tree[n] = dir[n]
    BY <1>1 DEF ChainInv, TreesInv, Snapshot, SameTree
  <1>3. /\ evidence.tree["manifest"].is = evidence.contents
        /\ \A f \in Files : evidence.tree[f].is = evidence.contents[f]
        /\ evidence.tree[Alien].revision = 0
    BY <1>1 DEF ChainInv, EvidenceInv
  <1>. QED  BY <1>2, <1>3, NamesOfFiles DEF PublishedAsVerified, Present

\* From the recording to the exchange no stage lets through what it did not see:
\* a verified delivery is one state of the staging directory, however often other
\* programs edit it between two readings; what the operator gets is what was
\* verified, unless it was edited after the last inspection; nothing of it was made
\* from a recording that had changed; and the PublishedDelivery is good for use
\* exactly if the commit point was reached (DeliveryBuild, DeliveryVerification,
\* Publication.publish).
THEOREM ChainDeliverySound == ChainSpec => []DeliverySound
  <1>1. ChainInv => DeliverySound
    <2>. SUFFICES ASSUME ChainInv PROVE DeliverySound
      OBVIOUS
    <2>1. VerifiedIsOneState
      BY DEF ChainInv, EvidenceInv, VerifiedIsOneState
    <2>2. PublishedAsVerified
      BY VisibleIsBound DEF PublishedAsVerified
    <2>3. PublishedAsComputed
      <3>1. SUFFICES ASSUME visible = "new"
                     PROVE  derived = {} /\ (edits = 0 => \A f \in Files : dir[f].is = "rendered")
        BY DEF PublishedAsComputed
      <3>2. callback # "idle"
        BY <3>1 DEF ChainInv, CapabilityInv
      <3>3. at \notin {"export", "cut", "write"}
        BY <3>2 DEF ChainInv, CapabilityInv, InCallback, TypesInv
      <3>4. Written = Files
        BY <3>2, <3>3 DEF Written
      <3>. QED  BY <3>2, <3>4 DEF ChainInv, BuildInv
    <2>4. CapabilityTruthful
      <3>1. SUFFICES ASSUME at = "ended"
                     PROVE  /\ (proof = "published") <=> (visible = "new")
                            /\ (result = "published") <=> (visible = "new")
                            /\ proof # "publishing"
        BY Zenon DEF CapabilityTruthful
      <3>2. callback \in {"idle", "over"}
        BY <3>1 DEF ChainInv, TypesInv, CapabilityInv, InCallback
      <3>. QED  BY <3>1, <3>2 DEF ChainInv, CapabilityInv
    <2>. QED  BY <2>1, <2>2, <2>3, <2>4 DEF DeliverySound
  <1>. QED  BY <1>1, ChainInvariant, PTL
=============================================================================
