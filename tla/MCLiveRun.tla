----------------------------- MODULE MCLiveRun -----------------------------
(***************************************************************************)
(* A live run in three parts.  How its process comes by the workspace: two *)
(* processes, two starts.  Its course: two stages before the delivery is   *)
(* built, enough to leave a stage for another ordinary one and for the     *)
(* delivery stages.  The session that records it: two stages, of which one *)
(* is the transcription, two operations and one file.  LiveRun begins with *)
(* an acquired workspace; it has what a write of the diagnostics may do to *)
(* the run, RunDiagnostics what the run may ask of the diagnostics, each   *)
(* in every form, so an initial state starts one of the three and parks    *)
(* the others.                                                             *)
(***************************************************************************)
EXTENDS LiveRun, RunDiagnostics, WorkspaceLayout, TLC

Symmetry == Permutations(Ops) \cup Permutations(Procs)

\* A session that its owner has dropped, and a run that has returned.
SessionParked ==
    /\ sequence = 1 /\ incomplete = FALSE /\ finished = TRUE /\ torn = FALSE /\ log = Initialized
    /\ active = None /\ entered = None /\ outcomes = [s \in Stages |-> "not_started"]
    /\ operations = [o \in Ops |-> NoOperation] /\ execution = None /\ transcriptHit = FALSE
    /\ retryCounts = [k \in RetryKinds |-> 0] /\ internalRetries = retryCounts
    /\ cacheStats = [c \in CacheOutcomes |-> 0] /\ notices = [n \in NoticeKinds |-> 0]
    /\ interruption = FALSE /\ service = "none" /\ created = {} /\ verified = {} /\ errors = {}
    /\ phases = [p \in DOMAIN FinalStates |-> "not_started"]
    /\ proof = FALSE /\ formed = None /\ result = "raised" /\ runJson = None

RunParked ==
    /\ pc = "returned" /\ stage = 0 /\ cancelled = FALSE /\ pending = FALSE
    /\ captured = FALSE /\ noted = FALSE /\ diag = "finished" /\ manifest = "failed"
    /\ ending = "failed" /\ recovery = FALSE /\ uncertain = FALSE
    /\ outcome = [state |-> "failed", diagnosticsIncomplete |-> FALSE, recoveryIncomplete |-> FALSE]
    /\ delivery = "old" /\ journal = FALSE /\ temporary = FALSE

\* Processes that have no start left.
LayoutParked ==
    /\ name = Nil /\ aside = {} /\ gone = {} /\ ours = {} /\ theirs = {} /\ foreign = {}
    /\ layout = [r \in Roots |-> 0] /\ stray = {} /\ secured = {}
    /\ tmp = [r \in Roots |-> {}] /\ holder = [r \in Roots |-> Nil]
    /\ step = [p \in Procs |-> "ended"] /\ dir = [p \in Procs |-> Nil]
    /\ made = {} /\ restores = {} /\ taken = dir
    /\ dirty = FALSE /\ starts = MaxStarts /\ faults = MaxFaults

RunsInit ==
    \/ Init /\ SessionParked /\ LayoutParked
    \/ RunParked /\ SessionInit /\ LayoutParked
    \/ RunParked /\ SessionParked /\ LayoutInit
RunsNext ==
    \/ Next /\ UNCHANGED <<sessionVars, layoutVars>>
    \/ SessionNext /\ UNCHANGED <<vars, layoutVars>>
    \/ LayoutNext /\ UNCHANGED <<vars, sessionVars>>
Runs == RunsInit /\ [][RunsNext]_<<vars, sessionVars, layoutVars>>
=============================================================================
