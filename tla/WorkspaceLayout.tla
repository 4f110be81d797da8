-------------------------- MODULE WorkspaceLayout --------------------------
(***************************************************************************)
(* Opening and acquiring a workspace directory (workspace/_workspace.py):  *)
(* processes that find nothing, an empty directory, a half-made layout, a  *)
(* workspace or somebody else's files at one path; that create, initialise, *)
(* inspect, lock and clean it; that fail or are killed at any step and undo *)
(* what they made; while an outsider may put another directory in its      *)
(* place.                                                                  *)
(*                                                                         *)
(* A directory is an identity (device and inode).  The eight fixed entries *)
(* of a layout are made in one order and undone in the reverse, so the     *)
(* layout is how many there are.  An entry is made, and removed, through a *)
(* reserved name: what a kill or a failure leaves there is a stray.        *)
(***************************************************************************)
EXTENDS Naturals, FiniteSets

CONSTANTS
    Procs,      \* processes that open the workspace path
    Roots,      \* identities of directories
    Nil,        \* no directory, no process
    Reserved,   \* a reserved name below work/tmp
    Size,       \* bound: fixed entries of a layout
    MaxStarts,  \* bound: starts of the program
    MaxFaults   \* bound: kills, and replacements by an outsider

LayoutAssumption ==
    /\ Nil \notin Procs \cup Roots /\ Reserved \notin Procs
    /\ Size \in Nat \ {0} /\ MaxStarts \in Nat /\ MaxFaults \in Nat
    /\ Cardinality(Roots) > MaxStarts + MaxFaults

ASSUME LayoutConstants == LayoutAssumption

VARIABLES
    name,     \* the directory at the workspace path
    aside,    \* directories under a reserved name beside it
    gone,     \* directories the program removed
    ours,     \* directories the program made
    theirs,   \* the other directories that exist or existed
    foreign,  \* those of theirs that hold somebody's files
    layout,   \* fixed entries each directory has
    stray,    \* directories with a reserved name among their entries
    secured,  \* directories with the program's mode
    tmp,      \* below work/tmp: temporary files of a process, a reserved name
    holder,   \* who holds the flock of a directory
    step, dir, \* per process: next step, the directory it opened
    made,     \* processes whose creation journal holds that directory
    restores, \* processes that changed the directory's mode
    taken,    \* per process: what it moved aside to remove it
    dirty,    \* a kill, a failed removal or an outsider may have left something
    starts, faults

path == <<name, aside, gone, ours, theirs, foreign>>
content == <<layout, stray, secured, tmp>>
local == <<dir, made, restores, taken>>
budget == <<dirty, starts, faults>>
layoutVars == <<path, content, holder, step, local, budget>>

LayoutSteps == {"idle", "ended", "create", "rename", "sync", "flock", "open", "existing", "adopt",
          "inspect", "share", "check", "fill", "unfill", "unmake", "move", "restore", "rmdir",
          "opened", "clean", "prepare", "running", "recording", "maintaining", "sweep"}

LayoutTypeOK ==
    /\ name \in Roots \cup {Nil}
    /\ aside \subseteq Roots /\ gone \subseteq Roots
    /\ ours \subseteq Roots /\ theirs \subseteq Roots /\ foreign \subseteq Roots
    /\ stray \subseteq Roots /\ secured \subseteq Roots
    /\ layout \in [Roots -> 0..Size]
    /\ tmp \in [Roots -> SUBSET (Procs \cup {Reserved})]
    /\ holder \in [Roots -> Procs \cup {Nil}]
    /\ step \in [Procs -> LayoutSteps]
    /\ dir \in [Procs -> Roots \cup {Nil}] /\ taken \in [Procs -> Roots \cup {Nil}]
    /\ made \subseteq Procs /\ restores \subseteq Procs
    /\ dirty \in BOOLEAN /\ starts \in Nat /\ faults \in Nat

-----------------------------------------------------------------------------
Empty(r) == layout[r] = 0 /\ r \notin stray \cup foreign

\* _inspect_layout_descriptor: exactly the fixed entries, with the right modes.
Complete(r) == layout[r] = Size /\ r \notin stray \cup foreign
AcceptedLayout(r) == Complete(r) /\ r \in secured

Unborn == Roots \ (ours \cup theirs)
Fresh == CHOOSE r \in Unborn : TRUE

To(p, s) == step' = [step EXCEPT ![p] = s]
Proceed(p, s) == To(p, s) /\ UNCHANGED <<holder, local>>
Take(p) == holder[dir[p]] = Nil /\ holder' = [holder EXCEPT ![dir[p]] = p]

\* Fault: a descriptor stays open after a failure, and its flock with it.
LeakLock(p) == UNCHANGED holder

\* Closing a descriptor, or the end of the process, releases its flock.
Release(p) == holder' = [r \in Roots |-> IF holder[r] = p THEN Nil ELSE holder[r]]

\* The call failed, or all its work is done.
End(p) ==
    /\ To(p, "ended") /\ Release(p)
    /\ dir' = [dir EXCEPT ![p] = Nil] /\ taken' = [taken EXCEPT ![p] = Nil]
    /\ made' = made \ {p} /\ restores' = restores \ {p}

\* The creation journal is discarded.
Opened(p) ==
    /\ To(p, "opened") /\ Release(p)
    /\ made' = made \ {p} /\ restores' = restores \ {p}
    /\ UNCHANGED <<dir, taken>>

LayoutInit ==
    /\ aside = {} /\ gone = {} /\ ours = {} /\ stray = {}
    /\ tmp = [r \in Roots |-> {}] /\ holder = [r \in Roots |-> Nil]
    /\ step = [p \in Procs |-> "idle"] /\ dir = [p \in Procs |-> Nil]
    /\ taken = [p \in Procs |-> Nil] /\ made = {} /\ restores = {}
    /\ dirty = FALSE /\ starts = 0 /\ faults = 0
    /\ LET r == CHOOSE x \in Roots : TRUE
           Nothing == [x \in Roots |-> 0]
       IN  \/ name = Nil /\ theirs = {} /\ foreign = {} /\ layout = Nothing /\ secured = {}
           \/ /\ name = r /\ theirs = {r}
              /\ \/ foreign \in SUBSET {r} /\ layout = Nothing /\ secured = {}
                 \/ foreign = {} /\ layout = [Nothing EXCEPT ![r] = Size] /\ secured = {r}

-----------------------------------------------------------------------------
(* _open_or_initialize_workspace, _create_workspace, _create_directory_at   *)

Start(p) ==
    /\ step[p] \in {"idle", "ended"} /\ starts < MaxStarts
    /\ starts' = starts + 1
    /\ Proceed(p, IF name = Nil THEN "create" ELSE "open") \/ Proceed(p, "existing")
    /\ UNCHANGED <<path, content, dirty, faults>>

OpenPath(p) ==
    /\ step[p] = "open"
    /\ \/ End(p)
       \/ /\ name # Nil
          /\ dir' = [dir EXCEPT ![p] = name]
          /\ To(p, IF Empty(name) THEN "adopt" ELSE "inspect")
          /\ UNCHANGED <<holder, made, restores, taken>>
    /\ UNCHANGED <<path, content, budget>>

\* Maintenance opens what is there and makes nothing.
OpenExisting(p) ==
    /\ step[p] = "existing"
    /\ \/ End(p)
       \/ /\ name # Nil
          /\ dir' = [dir EXCEPT ![p] = name]
          /\ To(p, "inspect")
          /\ UNCHANGED <<holder, made, restores, taken>>
    /\ UNCHANGED <<path, content, budget>>

\* The new directory gets its mode under a reserved name.
Create(p) ==
    /\ step[p] = "create"
    /\ \/ End(p) /\ UNCHANGED <<path, secured>>
       \/ /\ Unborn # {}
          /\ ours' = ours \cup {Fresh} /\ aside' = aside \cup {Fresh}
          /\ secured' = secured \cup {Fresh}
          /\ dir' = [dir EXCEPT ![p] = Fresh] /\ made' = made \cup {p}
          /\ To(p, "rename")
          /\ UNCHANGED <<name, gone, theirs, foreign, holder, restores, taken>>
    /\ UNCHANGED <<layout, stray, tmp, budget>>

\* Another process may have created the path first: then its directory is opened.
Rename(p) ==
    /\ step[p] = "rename"
    /\ \/ /\ name = Nil
          /\ name' = dir[p] /\ aside' = aside \ {dir[p]}
          /\ Proceed(p, "sync")
       \/ /\ taken' = [taken EXCEPT ![p] = dir[p]]
          /\ made' = IF name = Nil THEN made ELSE made \ {p}
          /\ To(p, "rmdir")
          /\ UNCHANGED <<name, aside, holder, dir, restores>>
    /\ UNCHANGED <<gone, ours, theirs, foreign, content, budget>>

\* The parent's sync or the check of the name may fail.
Sync(p) ==
    /\ step[p] = "sync"
    /\ (name = dir[p] /\ Proceed(p, "flock")) \/ Proceed(p, "unmake")
    /\ UNCHANGED <<path, content, budget>>

Flock(p) ==
    /\ step[p] = "flock"
    /\ \/ Take(p) /\ To(p, IF Empty(dir[p]) THEN "fill" ELSE "check") /\ UNCHANGED local
       \/ Proceed(p, "unmake")
    /\ UNCHANGED <<path, content, budget>>

\* Somebody else may have filled the directory before the lock was granted.
Adopt(p) ==
    /\ step[p] = "adopt"
    /\ \/ End(p) /\ UNCHANGED secured
       \/ /\ Take(p)
          /\ IF Empty(dir[p])
             THEN /\ To(p, "fill")
                  /\ secured' = secured \cup {dir[p]}
                  /\ restores' = IF dir[p] \in secured THEN restores ELSE restores \cup {p}
             ELSE To(p, "check") /\ UNCHANGED <<secured, restores>>
          /\ UNCHANGED <<dir, made, taken>>
    /\ UNCHANGED <<path, layout, stray, tmp, budget>>

\* Under the lock; the creator also checks that its directory is at the path.
Check(p) ==
    /\ step[p] = "check"
    /\ IF p \in made
       THEN \/ AcceptedLayout(dir[p]) /\ name = dir[p] /\ Opened(p)
            \/ Proceed(p, "unmake")
       ELSE (AcceptedLayout(dir[p]) /\ Opened(p)) \/ End(p)
    /\ UNCHANGED <<path, content, budget>>

-----------------------------------------------------------------------------
(* _initialize_layout_descriptor and its rollback                           *)

Fill(p) ==
    /\ step[p] = "fill" /\ layout[dir[p]] < Size /\ dir[p] \notin gone
    /\ layout' = [layout EXCEPT ![dir[p]] = @ + 1]
    /\ UNCHANGED <<path, stray, secured, tmp, holder, step, local, budget>>

FillEnds(p) ==
    /\ step[p] = "fill"
    /\ \/ /\ layout[dir[p]] = Size
          /\ IF p \in made THEN Proceed(p, "check") ELSE Opened(p)
       \/ Proceed(p, "unfill")
    /\ UNCHANGED <<path, content, budget>>

Unfill(p) ==
    /\ step[p] = "unfill" /\ layout[dir[p]] > 0
    /\ layout' = [layout EXCEPT ![dir[p]] = @ - 1]
    /\ UNCHANGED <<path, stray, secured, tmp, holder, step, local, budget>>

RestoreMode(p) == secured' = IF p \in restores THEN secured \ {dir[p]} ELSE secured

\* All entries are removed, or a removal fails and the rollback stops there.
UnfillEnds(p) ==
    /\ step[p] = "unfill"
    /\ \/ layout[dir[p]] = 0 /\ UNCHANGED <<stray, dirty>>
       \/ (stray' = stray \cup {dir[p]} \/ UNCHANGED stray) /\ dir[p] \notin gone /\ dirty' = TRUE
    /\ RestoreMode(p)
    /\ IF p \in made THEN Proceed(p, "unmake") ELSE End(p)
    /\ UNCHANGED <<path, layout, tmp, starts, faults>>

-----------------------------------------------------------------------------
(* _rollback_created_entries of the directory itself: _quarantine_and_remove *)

Unmake(p) ==
    /\ step[p] = "unmake"
    /\ \/ name = dir[p] /\ Proceed(p, "move") /\ UNCHANGED dirty
       \/ End(p) /\ dirty' = TRUE
    /\ UNCHANGED <<path, content, starts, faults>>

\* Fault: what was moved is not compared with what was made.
TakeWhatever(p) == "rmdir"

\* The path may have got another directory since it was checked: that one is put back.
AfterMove(p) == IF name = dir[p] THEN "rmdir" ELSE "restore"

Move(p) ==
    /\ step[p] = "move"
    /\ \/ End(p) /\ dirty' = (dirty \/ name # Nil) /\ UNCHANGED <<name, aside>>
       \/ /\ name # Nil
          /\ taken' = [taken EXCEPT ![p] = name]
          /\ aside' = aside \cup {name} /\ name' = Nil
          /\ To(p, AfterMove(p))
          /\ UNCHANGED <<holder, dir, made, restores, dirty>>
    /\ UNCHANGED <<gone, ours, theirs, foreign, content, starts, faults>>

MoveBack(p) ==
    /\ step[p] = "restore"
    /\ \/ name = Nil /\ name' = taken[p] /\ aside' = aside \ {taken[p]}
       \/ UNCHANGED <<name, aside>>
    /\ dirty' = TRUE
    /\ End(p)
    /\ UNCHANGED <<gone, ours, theirs, foreign, content, starts, faults>>

\* rmdir refuses a directory that is not empty: it stays aside.
Rmdir(p) ==
    /\ step[p] = "rmdir"
    /\ \/ /\ Empty(taken[p])
          /\ gone' = gone \cup {taken[p]} /\ aside' = aside \ {taken[p]}
          /\ IF p \in made THEN End(p) ELSE Proceed(p, "open")
          /\ UNCHANGED dirty
       \/ End(p) /\ dirty' = TRUE /\ UNCHANGED <<gone, aside>>
    /\ UNCHANGED <<name, ours, theirs, foreign, content, starts, faults>>

-----------------------------------------------------------------------------
(* _inspect_after_possible_initialization                                   *)

\* Without the lock; an incomplete layout may be one that is being made.
Inspect(p) ==
    /\ step[p] = "inspect"
    /\ \/ AcceptedLayout(dir[p]) /\ Opened(p)
       \/ ~Complete(dir[p]) /\ Proceed(p, "share")
       \/ End(p)
    /\ UNCHANGED <<path, content, budget>>

\* The shared lock waits for whoever initialises, and is given up at once.
Share(p) ==
    /\ step[p] = "share" /\ holder[dir[p]] = Nil
    /\ (AcceptedLayout(dir[p]) /\ Opened(p)) \/ End(p)
    /\ UNCHANGED <<path, content, budget>>

-----------------------------------------------------------------------------
(* _acquire_lock, _cleanup_stale_temporary, _acquire_run                    *)

\* Fault: what the opening found is not looked at again under the lock.
AcquireUnread(p) == name = dir[p] /\ Take(p)

\* Fault: the lock is not asked for.
AcquireUnlocked(p) == name = dir[p] /\ AcceptedLayout(dir[p]) /\ UNCHANGED holder

Acquirable(p) == name = dir[p] /\ Take(p) /\ AcceptedLayout(dir[p])

\* Maintenance (clearing the cache) needs no clean work/tmp.
Acquire(p) ==
    /\ step[p] = "opened"
    /\ \/ Acquirable(p) /\ (To(p, "clean") \/ To(p, "maintaining")) /\ UNCHANGED local
       \/ End(p)
    /\ UNCHANGED <<path, content, budget>>

\* A removed entry is under a reserved name for a moment.  One that stays there
\* is not removed by any later start: all of them are refused.
RemoveStale(p) ==
    /\ step[p] = "clean"
    /\ \/ \E x \in tmp[dir[p]] \ {Reserved} :
            /\ tmp' = [tmp EXCEPT ![dir[p]] = @ \ {x}]
            /\ UNCHANGED <<holder, step, local, dirty>>
       \/ /\ \/ UNCHANGED tmp
             \/ \E x \in tmp[dir[p]] \ {Reserved} :
                  tmp' = [tmp EXCEPT ![dir[p]] = (@ \ {x}) \cup {Reserved}]
          /\ dirty' = (dirty \/ tmp' # tmp)
          /\ End(p)
    /\ UNCHANGED <<path, layout, stray, secured, starts, faults>>

\* Fault: a removal that fails is passed over.
CleanedAnyhow(p) ==
    /\ step[p] = "clean" /\ name = dir[p]
    /\ Proceed(p, "prepare")
    /\ UNCHANGED <<path, content, budget>>

Cleaned(p) ==
    /\ step[p] = "clean" /\ tmp[dir[p]] = {} /\ name = dir[p]
    /\ Proceed(p, "prepare")
    /\ UNCHANGED <<path, content, budget>>

\* A run makes its temporary directories, or undoes what it made of them.
Prepare(p) ==
    /\ step[p] = "prepare"
    /\ \/ /\ name = dir[p] /\ tmp' = [tmp EXCEPT ![dir[p]] = @ \cup {p}]
          /\ Proceed(p, "running")
          /\ UNCHANGED dirty
       \/ /\ UNCHANGED <<tmp, dirty>>
             \/ \E left \in {p, Reserved} :
                  tmp' = [tmp EXCEPT ![dir[p]] = @ \cup {left}] /\ dirty' = TRUE
          /\ End(p)
    /\ UNCHANGED <<path, layout, stray, secured, starts, faults>>

\* The diagnosis of a failed start has no temporary directory.
PrepareDiagnosis(p) ==
    /\ step[p] = "prepare"
    /\ (name = dir[p] /\ Proceed(p, "recording")) \/ End(p)
    /\ UNCHANGED <<path, content, budget>>

FinishWork(p) ==
    /\ \/ step[p] = "running" /\ Proceed(p, "sweep")
       \/ step[p] \in {"recording", "maintaining"} /\ End(p)
    /\ UNCHANGED <<path, content, budget>>

\* _cleanup_run_temporary as the lease closes: nothing is touched once the path
\* shows another directory.
Sweep(p) ==
    /\ step[p] = "sweep"
    /\ \/ name = dir[p] /\ tmp' = [tmp EXCEPT ![dir[p]] = @ \ {p}] /\ UNCHANGED dirty
       \/ /\ tmp' = tmp \/ (name = dir[p] /\ tmp' = [tmp EXCEPT ![dir[p]] = (@ \ {p}) \cup {Reserved}])
          /\ dirty' = TRUE
    /\ End(p)
    /\ UNCHANGED <<path, layout, stray, secured, starts, faults>>

-----------------------------------------------------------------------------
(* Faults                                                                   *)

Kill(p) ==
    /\ step[p] \notin {"idle", "ended"} /\ faults < MaxFaults
    /\ faults' = faults + 1 /\ dirty' = TRUE
    /\ End(p)
    /\ stray' = stray
       \/ (step[p] \in {"fill", "unfill"} /\ dir[p] \notin gone /\ stray' = stray \cup {dir[p]})
    /\ \/ tmp' = tmp
       \/ /\ step[p] \in {"clean", "prepare", "running", "sweep"}
          /\ tmp' = [tmp EXCEPT ![dir[p]] = @ \cup {Reserved}]
    /\ UNCHANGED <<path, layout, secured, starts>>

\* Somebody moves the workspace elsewhere and leaves another directory there.
Replace ==
    /\ name # Nil /\ faults < MaxFaults /\ Unborn # {}
    /\ faults' = faults + 1 /\ dirty' = TRUE
    /\ name' = Fresh /\ theirs' = theirs \cup {Fresh}
    /\ foreign' \in {foreign, foreign \cup {Fresh}}
    /\ UNCHANGED <<aside, gone, ours, content, holder, step, local, starts>>

-----------------------------------------------------------------------------
ProcessStep(p) ==
    \/ OpenPath(p) \/ OpenExisting(p) \/ Create(p) \/ Rename(p) \/ Sync(p) \/ Flock(p)
    \/ Adopt(p) \/ Check(p)
    \/ Fill(p) \/ FillEnds(p) \/ Unfill(p) \/ UnfillEnds(p)
    \/ Unmake(p) \/ Move(p) \/ MoveBack(p) \/ Rmdir(p)
    \/ Inspect(p) \/ Share(p) \/ Acquire(p) \/ RemoveStale(p) \/ Cleaned(p) \/ Prepare(p) \/ PrepareDiagnosis(p)
    \/ FinishWork(p) \/ Sweep(p)

LayoutNext == (\E p \in Procs : Start(p) \/ ProcessStep(p) \/ Kill(p)) \/ Replace

LayoutSpec == LayoutInit /\ [][LayoutNext]_layoutVars

-----------------------------------------------------------------------------
(* Properties                                                               *)

WorkingSteps == {"clean", "prepare", "running", "recording", "maintaining", "sweep"}
Locking == WorkingSteps \cup {"fill", "unfill", "check", "unmake", "move", "restore", "rmdir"}

(* Nothing but an empty directory the program made itself is ever removed,  *)
(* and a directory with somebody else's files is left as it is, whatever    *)
(* took which place at the path meanwhile.                                  *)
OthersUntouched ==
    /\ \A r \in gone : r \in ours /\ Empty(r)
    /\ \A r \in foreign : layout[r] = 0 /\ r \notin stray \cup secured

(* An acquired workspace is whole although its initialisation may have been *)
(* undone after it was opened, and the only temporary files in it are those *)
(* of the one run that works there; what others left is gone by then.       *)
RunsAlone ==
    \A p \in Procs :
        /\ step[p] \in WorkingSteps => AcceptedLayout(dir[p])
        /\ step[p] \in {"running", "sweep"} => tmp[dir[p]] = {p}
        /\ step[p] = "recording" => tmp[dir[p]] = {}

(* When no process was killed and no removal failed, the processes that     *)
(* ended have left a whole workspace or what was there before.              *)
TracesUndone ==
    (~dirty /\ \A p \in Procs : step[p] \in {"idle", "ended", "opened"}) =>
        /\ aside = {} /\ stray = {}
        /\ \A r \in Roots : tmp[r] = {}
        /\ \A r \in theirs : AcceptedLayout(r) \/ (layout[r] = 0 /\ r \notin secured)
        /\ \A r \in ours : AcceptedLayout(r) \/ r \in gone

(* A creation, an adoption and an inspection wait for the lock of their     *)
(* directory without a limit.  Whoever holds a lock is at work and waits    *)
(* for none, so all of them get through.                                    *)
NobodyStuck ==
    \A r \in Roots, p \in Procs :
        holder[r] = p => dir[p] = r /\ step[p] \in Locking

WorkspaceSound == LayoutTypeOK /\ OthersUntouched /\ RunsAlone /\ TracesUndone /\ NobodyStuck
=============================================================================
