--------------------------- MODULE CacheSingleFlight ---------------------------
(***************************************************************************)
(* The content-addressed processing cache, for ONE identity: the entry     *)
(* file, the kernel lock ("claim") that serialises its writers, and the    *)
(* calls of CacheRepository.resolve that meet there, from any mix of       *)
(* threads and processes.  A call looks the entry up without the lock; on  *)
(* a miss it claims the identity, looks up again, computes, and publishes  *)
(* with temporary file, file sync, rename and directory sync.  A corrupt   *)
(* entry is moved to quarantine, but only by a claim holder that has read  *)
(* it again.                                                               *)
(*                                                                         *)
(* A payload is a member of Values: computing twice may give two different *)
(* payloads (the computations call remote models), so serving one of them  *)
(* to everybody is the cache's doing.  The identity, the envelope and the  *)
(* observations are abstracted; "Corrupt" is any content the envelope or   *)
(* the business validation rejects.                                        *)
(***************************************************************************)
EXTENDS Naturals, FiniteSets

CONSTANTS
    Callers,         \* the calls of resolve
    Values,          \* what a computation may return
    Absent,          \* no file under the entry's name; no value computed
    Corrupt,         \* a file the decoder rejects
    Nobody,          \* the lock is free
    MaxDeaths,       \* bound: processes killed
    MaxPowerLosses,  \* bound: power losses
    MaxDecays        \* bound: entries spoiled on disk

ASSUME DistinctContents == Absent \notin Values /\ Corrupt \notin Values /\ Absent # Corrupt
ASSUME NobodyIsNoCaller == Nobody \notin Callers

VARIABLES
    entry,     \* what a reader of the entry's name sees
    durable,   \* what the entry's name may hold after a power loss
    holder,    \* the caller inside with_exclusive_cache_lock
    pc,        \* where each call stands
    purpose,   \* why a call claims: to inspect a corrupt entry, or to resolve
    value,     \* the payload a call computed
    cancelled, \* the call's cancellation token
    faults     \* deaths, power losses and decays so far

(***************************************************************************)
(* History: the payloads handed to callers, and those whose own caller     *)
(* was told that they were published; both since the entry last changed    *)
(* for a reason outside the protocol (quarantine, or loss of what no       *)
(* publisher had acknowledged).                                            *)
(***************************************************************************)
VARIABLES served, acknowledged

disk    == <<entry, durable>>
history == <<served, acknowledged>>
vars    == <<entry, durable, holder, pc, purpose, value, cancelled, faults,
             served, acknowledged>>

Contents == Values \cup {Absent, Corrupt}
Waiting  == {"wait"}
Inside   == {"locked", "quarantine", "sync_quarantine", "compute", "write",
             "rename", "sync_directory", "confirm"}
Final    == {"answered", "failed", "cancelled", "dead"}
Phases   == {"idle", "lookup"} \cup Waiting \cup Inside \cup Final

\* Fault: the lock stays locked when the computation ends without a result.
KeepLockOnFailure(c) == IF holder = c /\ pc[c] # "compute" THEN Nobody ELSE holder

\* Leaving the callback of the claim releases the lock, whatever the reason.
Released(c) == IF holder = c THEN Nobody ELSE holder

\* The call ends without an answer.
EndsAs(c, outcome) ==
    /\ pc' = [pc EXCEPT ![c] = outcome]
    /\ holder' = Released(c)
    /\ UNCHANGED <<disk, purpose, value, cancelled, faults, history>>

\* The call returns the payload v to its caller.
Answers(c, v) ==
    /\ pc' = [pc EXCEPT ![c] = "answered"]
    /\ holder' = Released(c)
    /\ served' = served \cup {v}
    /\ UNCHANGED <<disk, purpose, value, cancelled, faults>>

Moves(c, phase) ==
    /\ pc' = [pc EXCEPT ![c] = phase]
    /\ UNCHANGED <<disk, holder, purpose, value, cancelled, faults, history>>

\* The call goes to queue for the claim, for the reason why.
Queues(c, why) ==
    /\ pc' = [pc EXCEPT ![c] = "wait"]
    /\ purpose' = [purpose EXCEPT ![c] = why]
    /\ holder' = Released(c)
    /\ UNCHANGED <<disk, value, cancelled, faults, history>>

Init ==
    /\ entry \in Contents
    /\ durable = {entry}
    /\ holder = Nobody
    /\ pc = [c \in Callers |-> "idle"]
    /\ purpose = [c \in Callers |-> "inspect"]
    /\ value = [c \in Callers |-> Absent]
    /\ cancelled = [c \in Callers |-> FALSE]
    /\ faults = [deaths |-> 0, losses |-> 0, decays |-> 0]
    /\ served = {}
    /\ acknowledged = {}

--------------------------------------------------------------------------------
(***************************************************************************)
(* The call                                                                *)
(***************************************************************************)

\* _validate_request refuses a call whose token is already cancelled.
Start(c) ==
    /\ pc[c] = "idle"
    /\ IF cancelled[c] THEN EndsAs(c, "cancelled") ELSE Moves(c, "lookup")

\* The first lookup reads without the lock.  What it sees may be stale by the
\* time the claim is granted, so neither a miss nor corruption is acted on here.
FirstLookup(c) ==
    /\ pc[c] = "lookup"
    /\ \/ entry \in Values /\ Answers(c, entry) /\ UNCHANGED acknowledged
       \/ entry = Absent   /\ Queues(c, "resolve")
       \/ entry = Corrupt  /\ Queues(c, "inspect")

\* The non-blocking flock succeeds.
MayEnter(c) == holder = Nobody

Acquire(c) ==
    /\ pc[c] = "wait"
    /\ ~cancelled[c]
    /\ MayEnter(c)
    /\ holder' = c
    /\ pc' = [pc EXCEPT ![c] = "locked"]
    /\ UNCHANGED <<disk, purpose, value, cancelled, faults, history>>

\* Fault: the lock is taken with a blocking flock, deaf to the token.
DeafWait(c) == pc[c] = "wait" /\ cancelled[c] /\ holder = Nobody /\ EndsAs(c, "cancelled")

\* The polling loop looks at the token before each attempt.
GiveUpWaiting(c) ==
    /\ pc[c] = "wait"
    /\ cancelled[c]
    /\ EndsAs(c, "cancelled")

\* A miss under the claim: an inspection returns it (and resolve queues for a
\* claim of its own), a resolving claim computes unless it has been cancelled.
AfterMiss(c) ==
    \/ purpose[c] = "inspect" /\ Queues(c, "resolve")
    \/ purpose[c] = "resolve" /\ cancelled[c]  /\ EndsAs(c, "cancelled")
    \/ purpose[c] = "resolve" /\ ~cancelled[c] /\ Moves(c, "compute")

\* Fault: the miss seen without the lock is trusted under it.
TrustFirstLookup(c) ==
    /\ pc[c] = "locked"
    /\ \/ purpose[c] = "resolve" /\ AfterMiss(c)
       \/ purpose[c] = "inspect" /\ entry \in Values /\ Answers(c, entry) /\ UNCHANGED acknowledged
       \/ purpose[c] = "inspect" /\ entry = Absent   /\ AfterMiss(c)
       \/ purpose[c] = "inspect" /\ entry = Corrupt  /\ Moves(c, "quarantine")

\* Fault: the corruption seen without the lock is acted on under it, unread.
QuarantineUnread(c) ==
    /\ pc[c] = "locked"
    /\ \/ purpose[c] = "inspect" /\ Moves(c, "quarantine")
       \/ purpose[c] = "resolve" /\ entry \in Values /\ Answers(c, entry) /\ UNCHANGED acknowledged
       \/ purpose[c] = "resolve" /\ entry = Corrupt  /\ Moves(c, "quarantine")
       \/ purpose[c] = "resolve" /\ entry = Absent   /\ AfterMiss(c)

\* The lookup under the claim decides.
LockedLookup(c) ==
    /\ pc[c] = "locked"
    /\ \/ entry \in Values /\ Answers(c, entry) /\ UNCHANGED acknowledged
       \/ entry = Absent   /\ AfterMiss(c)
       \/ entry = Corrupt  /\ Moves(c, "quarantine")

\* The corrupt file is renamed into .quarantine.
Quarantine(c) ==
    /\ pc[c] = "quarantine"
    /\ entry' = Absent
    /\ durable' = durable \cup {Absent}
    /\ served' = {}
    /\ acknowledged' = {}
    /\ pc' = [pc EXCEPT ![c] = "sync_quarantine"]
    /\ UNCHANGED <<holder, purpose, value, cancelled, faults>>

\* Both directories are synced before the lookup reports its miss.
SyncQuarantine(c) ==
    /\ pc[c] = "sync_quarantine"
    /\ durable' = {entry}
    /\ \/ /\ purpose[c] = "inspect"
          /\ pc' = [pc EXCEPT ![c] = "wait"]
          /\ purpose' = [purpose EXCEPT ![c] = "resolve"]
          /\ holder' = Released(c)
       \/ /\ purpose[c] = "resolve"
          /\ IF cancelled[c]
                THEN pc' = [pc EXCEPT ![c] = "cancelled"] /\ holder' = Released(c)
                ELSE pc' = [pc EXCEPT ![c] = "compute"] /\ UNCHANGED holder
          /\ UNCHANGED purpose
    /\ UNCHANGED <<entry, value, cancelled, faults, history>>

\* The computation returns.  Its result is dropped if the token was cancelled
\* meanwhile, else it is encoded for publication.
Compute(c) ==
    /\ pc[c] = "compute"
    /\ \/ cancelled[c] /\ EndsAs(c, "cancelled")
       \/ /\ ~cancelled[c]
          /\ \E v \in Values : value' = [value EXCEPT ![c] = v]
          /\ pc' = [pc EXCEPT ![c] = "write"]
          /\ UNCHANGED <<disk, holder, purpose, cancelled, faults, history>>

\* Fault: a computation that raised is published like one that returned.
SwallowFailure(c) == pc[c] = "compute" /\ Moves(c, "write")

\* The computation, or the business validation of its result, raises.
ComputeFails(c) ==
    /\ pc[c] = "compute"
    /\ EndsAs(c, "failed")

\* The temporary file is written and synced; the last look at the token comes
\* just before.
WriteTemporary(c) ==
    /\ pc[c] = "write"
    /\ IF cancelled[c] THEN EndsAs(c, "cancelled") ELSE Moves(c, "rename")

\* The rename that makes the entry visible and never replaces one: if the name
\* is taken, the publication counts as done and the call keeps its own payload.
Rename(c) ==
    /\ pc[c] = "rename"
    /\ entry' = IF entry = Absent THEN value[c] ELSE entry
    /\ durable' = durable \cup {entry'}
    /\ pc' = [pc EXCEPT ![c] = "sync_directory"]
    /\ UNCHANGED <<holder, purpose, value, cancelled, faults, history>>

\* Fault: the directory sync is left out.
SkipDirectorySync(c) == pc[c] = "sync_directory" /\ Moves(c, "confirm")

SyncDirectory(c) ==
    /\ pc[c] = "sync_directory"
    /\ durable' = {entry}
    /\ pc' = [pc EXCEPT ![c] = "confirm"]
    /\ UNCHANGED <<entry, holder, purpose, value, cancelled, faults, history>>

\* The publication is reported, unless the call was cancelled: then the entry
\* stays and the call ends as cancelled.
Confirm(c) ==
    /\ pc[c] = "confirm"
    /\ \/ cancelled[c] /\ EndsAs(c, "cancelled")
       \/ /\ ~cancelled[c]
          /\ Answers(c, value[c])
          /\ acknowledged' = acknowledged \cup {value[c]}

\* Permission, lock, disk, sync or rename trouble, at any step that touches the
\* file system: a CacheFailure, never a miss.  What the step before made visible
\* stays visible.
StorageFails(c) ==
    /\ pc[c] \in {"lookup", "wait", "locked", "quarantine", "sync_quarantine",
                  "write", "rename", "sync_directory", "confirm"}
    /\ EndsAs(c, "failed")

--------------------------------------------------------------------------------
(***************************************************************************)
(* The environment                                                         *)
(***************************************************************************)

Cancel(c) ==
    /\ pc[c] \notin Final
    /\ ~cancelled[c]
    /\ cancelled' = [cancelled EXCEPT ![c] = TRUE]
    /\ UNCHANGED <<disk, holder, pc, purpose, value, faults, history>>

\* A killed process loses its locks; its temporary file never had the entry's name.
Die(c) ==
    /\ pc[c] \notin Final \cup {"idle"}
    /\ faults.deaths < MaxDeaths
    /\ faults' = [faults EXCEPT !.deaths = @ + 1]
    /\ pc' = [pc EXCEPT ![c] = "dead"]
    /\ holder' = Released(c)
    /\ UNCHANGED <<disk, purpose, value, cancelled, history>>

\* Every running call is lost and the entry's name holds what had reached the
\* disk.  Calls still idle start after the reboot.
PowerLoss ==
    /\ faults.losses < MaxPowerLosses
    /\ faults' = [faults EXCEPT !.losses = @ + 1]
    /\ \E left \in durable : entry' = left /\ durable' = {left}
    /\ pc' = [c \in Callers |-> IF pc[c] \in Final \cup {"idle"} THEN pc[c] ELSE "dead"]
    /\ holder' = Nobody
    /\ served' = acknowledged
    /\ UNCHANGED <<purpose, value, cancelled, acknowledged>>

\* A valid entry is spoiled on disk.
Decay ==
    /\ entry \in Values
    /\ faults.decays < MaxDecays
    /\ faults' = [faults EXCEPT !.decays = @ + 1]
    /\ entry' = Corrupt
    /\ durable' = (durable \ Values) \cup {Corrupt}
    /\ UNCHANGED <<holder, pc, purpose, value, cancelled, history>>

--------------------------------------------------------------------------------
\* What a call does on its own; computations take as long as they take.
Progress(c) ==
    \/ Start(c) \/ FirstLookup(c) \/ Acquire(c) \/ GiveUpWaiting(c)
    \/ LockedLookup(c) \/ Quarantine(c) \/ SyncQuarantine(c)
    \/ WriteTemporary(c) \/ Rename(c) \/ SyncDirectory(c) \/ Confirm(c)

EndComputing(c) == Compute(c) \/ ComputeFails(c)

Finished == \A c \in Callers : pc[c] \in Final

Next ==
    \/ \E c \in Callers : \/ Progress(c) \/ EndComputing(c) \/ StorageFails(c)
                          \/ Cancel(c) \/ Die(c)
    \/ PowerLoss
    \/ Decay
    \/ Finished /\ UNCHANGED vars

Spec == Init /\ [][Next]_vars

\* Threads are scheduled; a computation need only end once its token is
\* cancelled, which is what the computations' own cancellation checks give.
Fairness ==
    \A c \in Callers : WF_vars(Progress(c)) /\ WF_vars(cancelled[c] /\ EndComputing(c))

FairSpec == Spec /\ Fairness

--------------------------------------------------------------------------------
(***************************************************************************)
(* Properties                                                              *)
(***************************************************************************)

\* The variables have their types; a call that publishes has a payload to publish.
TypeOK ==
    /\ entry \in Contents
    /\ durable \in SUBSET Contents /\ entry \in durable
    /\ holder \in Callers \cup {Nobody}
    /\ pc \in [Callers -> Phases]
    /\ purpose \in [Callers -> {"inspect", "resolve"}]
    /\ value \in [Callers -> Values \cup {Absent}]
    /\ \A c \in Callers :
         pc[c] \in {"write", "rename", "sync_directory", "confirm"} => value[c] \in Values
    /\ cancelled \in [Callers -> BOOLEAN]
    /\ faults \in [deaths : Nat, losses : Nat, decays : Nat]
    /\ served \in SUBSET Values
    /\ acknowledged \in SUBSET served

\* Single flight (ADR 0021, spec 10.4): a computation runs only while its call
\* holds the identity's lock and no entry exists, up to the rename; so two
\* calls never pay for the same result, whatever was read before the lock.
SingleFlight ==
    \A c \in Callers :
        pc[c] \in {"compute", "write", "rename"} => holder = c /\ entry = Absent

\* A valid entry is immutable: no step of a call removes or replaces it.  Only
\* corruption on disk or a power loss can, and quarantine only moves corrupt
\* entries, though the corruption was first seen without the lock.
ValidEntryStays ==
    [][(entry \in Values /\ faults'.losses = faults.losses)
         => entry' \in {entry, Corrupt}]_vars

\* Agreement: all calls answered from the same entry were given the same
\* payload, computed or cached, although two computations may differ.
Agreement == \A v, w \in served : v = w

\* A publication is reported only after its directory sync: whatever power loss
\* follows, the entry then still holds the reported payload (or is known corrupt).
AcknowledgedIsDurable ==
    \A v \in acknowledged : durable \subseteq {v, Corrupt}

\* A cancelled call ends, even if it waits for a claim whose holder computes
\* for ever: the claim wait polls the token.
CancelledCallsEnd ==
    \A c \in Callers : cancelled[c] ~> pc[c] \in Final

\* If no computation runs for ever, every call that waits for the claim gets
\* past it: whatever ends the holder's callback (an answer, a failure, a
\* cancellation, a kill) frees the lock.
WaitersGetThrough ==
    (\A c \in Callers : []<>(pc[c] # "compute"))
        => \A c \in Callers : pc[c] = "wait" ~> pc[c] # "wait"

================================================================================
