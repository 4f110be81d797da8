---------------------------- MODULE MediaProcess ----------------------------
(***************************************************************************)
(* A child process of ffmpeg or ffprobe, as four places of the program     *)
(* start, read, judge and stop one:                                        *)
(*   "export"  delivery/_media.py, one clip                                *)
(*   "audio"   transcription/_stepaudio_audio.py, the normalised sound     *)
(*   "probe"   delivery/verification.py, one clip of the delivery          *)
(*   "source"  source_analysis/_analysis.py, the recording                 *)
(* The child stands for its process group.  It writes to two pipes, ends   *)
(* when it likes, may ignore SIGTERM and may, stuck in the kernel, be slow *)
(* to obey SIGKILL; so no step of the caller waits for it without end,     *)
(* except for a run nobody cancels.                                        *)
(***************************************************************************)
EXTENDS Naturals, FiniteSets

CONSTANTS MaxChunks,  \* chunks a child writes to one pipe
          Expected,   \* chunks of a complete sound
          Limit       \* chunks a probe may answer

Uses    == {"export", "audio", "probe", "source"}
Streams == {"stdout", "stderr"}

ASSUME ChunksAssumption == MaxChunks \in Nat \ {0} /\ Expected \in 1 .. MaxChunks /\ Limit \in 1 .. MaxChunks

VARIABLES
    use,        \* which of the four
    parent,     \* what the caller does next
    child,      \* "none", "running" or "exited"
    code,       \* how it exited
    told,       \* the last signal sent to it
    input,      \* "open" while a probe has more to write to it
    pipe,       \* chunks in a pipe, which has room for one
    taken,      \* chunks the caller has read
    open,       \* the pipes the caller still reads
    callOff,    \* the run is cancelled
    overdue,    \* the deadline of a probe has passed
    report,     \* what the caller reports
    reaped      \* the child was waited for

parentVars == <<parent, open, taken, report, reaped, told, input>>
childVars == <<use, parent, child, code, told, input, pipe, taken, open, callOff, overdue, report, reaped>>

Steps == {"spawn", "pump", "wait", "judge", "stop", "drain", "kill", "redrain", "last", "ended"}

ChildTypeOK ==
    /\ use \in Uses /\ parent \in Steps
    /\ child \in {"none", "running", "exited"} /\ code \in {"none", "zero", "positive", "signalled"}
    /\ told \in {"nothing", "term", "kill"} /\ input \in {"none", "open"}
    /\ pipe \in [Streams -> 0 .. 1] /\ taken \in [Streams -> 0 .. MaxChunks]
    /\ open \subseteq Streams /\ callOff \in BOOLEAN /\ overdue \in BOOLEAN /\ reaped \in BOOLEAN
    /\ report \in {"none", "ok", "failed", "cancelled"}

ChildInit ==
    /\ use \in Uses /\ parent = "spawn" /\ child = "none" /\ code = "none" /\ told = "nothing"
    /\ input = (IF use = "probe" THEN "open" ELSE "none")
    /\ pipe = [s \in Streams |-> 0] /\ taken = [s \in Streams |-> 0] /\ open = Streams
    /\ callOff = FALSE /\ overdue = FALSE /\ report = "none" /\ reaped = FALSE

-----------------------------------------------------------------------------
(* The child and the world                                                   *)

Exited(c) == child' = "exited" /\ code' = c

\* The child writes where there is room, and blocks where there is none.
Writes(s) ==
    /\ child = "running" /\ pipe[s] = 0 /\ taken[s] < MaxChunks
    /\ pipe' = [pipe EXCEPT ![s] = 1]
    /\ UNCHANGED <<use, parentVars, child, code, callOff, overdue>>

\* It ends by itself, with what it has not written lost.
Exits ==
    /\ child = "running"
    /\ \E c \in {"zero", "positive", "signalled"} : Exited(c)
    /\ UNCHANGED <<use, parentVars, pipe, callOff, overdue>>

CancelRun ==
    /\ ~callOff /\ parent # "ended"
    /\ callOff' = TRUE
    /\ UNCHANGED <<use, parentVars, child, code, pipe, overdue>>

Deadline ==
    /\ use = "probe" /\ ~overdue /\ child # "none" /\ parent # "ended"
    /\ overdue' = TRUE
    /\ UNCHANGED <<use, parentVars, child, code, pipe, callOff>>

World == (\E s \in Streams : Writes(s)) \/ Exits \/ CancelRun \/ Deadline

-----------------------------------------------------------------------------
(* Starting and reading                                                      *)

Untouched == UNCHANGED <<use, child, code, callOff, overdue>>

Spawn ==
    /\ parent = "spawn"
    /\ \/ /\ callOff
          /\ parent' = "ended" /\ report' = "cancelled" /\ UNCHANGED child
       \/ parent' = "ended" /\ report' = "failed" /\ UNCHANGED child
       \/ ~callOff /\ parent' = "pump" /\ child' = "running" /\ UNCHANGED report
    /\ UNCHANGED <<use, code, told, input, pipe, taken, open, callOff, overdue, reaped>>

\* An exception, a cancellation seen or an answer refused: the child is stopped.
StopFor(how) == parent' = "stop" /\ report' = how

\* What is read must not be too much of the sound, or of a probe's answer.
Oversize(s, n) ==
    \/ use = "audio" /\ s = "stdout" /\ n > Expected
    \/ use = "probe" /\ n > Limit

ReadChunk(s) ==
    /\ parent = "pump" /\ s \in open /\ pipe[s] = 1
    /\ pipe' = [pipe EXCEPT ![s] = 0]
    /\ IF Oversize(s, taken[s] + 1)
       THEN StopFor("failed") /\ UNCHANGED taken
       ELSE taken' = [taken EXCEPT ![s] = @ + 1] /\ UNCHANGED <<parent, report>>
    /\ Untouched /\ UNCHANGED <<told, input, open, reaped>>

\* Fault: the reading ends when the child has ended.
WriterGone(s) == child = "exited"

\* The end of a pipe is read when its writer is gone and it is empty.
AtEnd(s) == child = "exited" /\ pipe[s] = 0

ReadEnd(s) ==
    /\ parent = "pump" /\ s \in open /\ AtEnd(s)
    /\ open' = open \ {s}
    /\ Untouched /\ UNCHANGED <<parent, told, input, pipe, taken, report, reaped>>

\* A probe writes the clip to the child until all is written or the child has
\* closed its end.
Feed ==
    /\ parent = "pump" /\ input = "open"
    /\ input' = "none"
    /\ Untouched /\ UNCHANGED <<parent, told, pipe, taken, open, report, reaped>>

\* At the head of each round the caller looks whether it is to go on.
Give ==
    /\ parent = "pump"
    /\ \/ callOff /\ StopFor("cancelled")
       \/ use = "probe" /\ overdue /\ StopFor("failed")
    /\ Untouched /\ UNCHANGED <<told, input, pipe, taken, open, reaped>>

\* Reading, writing the output or registering a pipe fails.
PumpFails ==
    /\ parent = "pump"
    /\ StopFor("failed")
    /\ Untouched /\ UNCHANGED <<told, input, pipe, taken, open, reaped>>

PumpDone ==
    /\ parent = "pump" /\ open = {} /\ input = "none"
    /\ parent' = "wait"
    /\ Untouched /\ UNCHANGED <<told, input, pipe, taken, open, report, reaped>>

\* The child is waited for in short rounds; a probe waits for one.
AwaitExit ==
    /\ parent = "wait"
    /\ \/ child = "exited" /\ parent' = "judge" /\ reaped' = TRUE /\ UNCHANGED report
       \/ callOff /\ use # "probe" /\ StopFor("cancelled") /\ UNCHANGED reaped
       \/ StopFor("failed") /\ UNCHANGED reaped
    /\ Untouched /\ UNCHANGED <<told, input, pipe, taken, open>>

\* Fault: whoever ended with code zero has done its work.
CodeOnly == code = "zero"

\* The exit code, and what each use demands of the output.
Accepted ==
    /\ code = "zero"
    /\ taken["stdout"] > 0
    /\ use = "audio" => taken["stdout"] = Expected
    /\ use = "probe" => taken["stderr"] = 0

\* What a probe found is examined after the child is gone; that may fail too.
Judge ==
    /\ parent = "judge"
    /\ \/ Accepted /\ parent' = "ended" /\ report' = "ok"
       \/ ~Accepted /\ use # "source" /\ StopFor("failed")
       \/ (use = "source" \/ (use = "probe" /\ Accepted)) /\ parent' = "ended" /\ report' = "failed"
    /\ Untouched /\ UNCHANGED <<told, input, pipe, taken, open, reaped>>

-----------------------------------------------------------------------------
(* Stopping: _stop_process and _stop_probe                                   *)

Gone == child = "exited"
EndWith(r) == parent' = "ended" /\ reaped' = r

\* SIGTERM, if it is still running; the child may not care.
AskToStop ==
    /\ parent = "stop"
    /\ parent' = "drain"
    /\ told' = IF Gone THEN told ELSE "term"
    /\ Untouched /\ UNCHANGED <<input, pipe, taken, open, report, reaped>>

\* communicate reads what is left and waits; a probe only waits.
Empty == pipe' = [s \in Streams |-> 0]

\* Fault: a child that does not end in time is left to itself.
LeaveRunning ==
    /\ parent = "drain"
    /\ EndWith(Gone)
    /\ UNCHANGED told /\ Empty
    /\ Untouched /\ UNCHANGED <<input, taken, open, report>>

Drain ==
    /\ parent = "drain"
    /\ \/ Gone /\ EndWith(TRUE) /\ UNCHANGED told
       \/ parent' = "redrain" /\ told' = "kill" /\ UNCHANGED reaped
       \/ \* Reading fails: killed at once; only the export waits for it then.
          /\ use # "probe" /\ told' = "kill"
          /\ IF use = "export" THEN parent' = "last" /\ UNCHANGED reaped ELSE EndWith(reaped)
    /\ Empty
    /\ Untouched /\ UNCHANGED <<input, taken, open, report>>

\* Fault: after SIGKILL the caller waits for as long as it takes.
RedrainForever ==
    /\ parent = "redrain"
    /\ Gone /\ EndWith(TRUE)
    /\ Empty
    /\ Untouched /\ UNCHANGED <<told, input, taken, open, report>>

Redrain ==
    /\ parent = "redrain"
    /\ \/ Gone /\ EndWith(TRUE)
       \/ IF use = "probe" THEN EndWith(FALSE) ELSE parent' = "last" /\ UNCHANGED reaped
    /\ Empty
    /\ Untouched /\ UNCHANGED <<told, input, taken, open, report>>

\* The last wait, with the pipes closed.
LastWait ==
    /\ parent = "last"
    /\ \/ Gone /\ EndWith(TRUE)
       \/ EndWith(FALSE)
    /\ Untouched /\ UNCHANGED <<told, input, pipe, taken, open, report>>

Pump == (\E s \in Streams : ReadChunk(s) \/ ReadEnd(s)) \/ PumpDone
StopChild == AskToStop \/ Drain \/ Redrain \/ LastWait
Parent == Spawn \/ Pump \/ Give \/ AwaitExit \/ Judge \/ StopChild

ChildNext == World \/ Parent \/ Feed \/ PumpFails

ChildSpec == ChildInit /\ [][ChildNext]_childVars

\* The caller runs; the child owes nothing, not even to read what it is fed.
ChildFairness == WF_childVars(Parent \/ (Gone /\ Feed))

-----------------------------------------------------------------------------
(* Properties                                                                *)

\* Whoever returns, with whatever outcome, leaves no child that was not told to
\* die, and reports success only of one that was waited for.
NoChildLeft ==
    parent = "ended" => /\ child = "running" => told = "kill"
                        /\ report = "ok" => child = "exited" /\ reaped

\* Success is the whole output of a child that ended by itself and well.
SuccessIsComplete ==
    report = "ok" =>
        /\ code = "zero" /\ told = "nothing"
        /\ \A s \in Streams : pipe[s] = 0
        /\ taken["stdout"] > 0
        /\ use = "audio" => taken["stdout"] = Expected
        /\ use = "probe" => taken["stderr"] = 0 /\ taken["stdout"] <= Limit

\* No use of a child process leaves one behind or takes a part of its output for
\* the whole.
ChildAccounted == NoChildLeft /\ SuccessIsComplete

\* The caller comes back when the run is cancelled, when the time of a probe is
\* up and when the child has ended, whatever the child does.
CallerReturns == (callOff \/ overdue \/ child = "exited") ~> (parent = "ended")
=============================================================================
