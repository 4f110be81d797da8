-------------------------- MODULE AtomicPublication --------------------------
(***************************************************************************)
(* What publishing a delivery promises to an operator, without journals,    *)
(* exchanges or crashes: `delivery/` and `delivery.previous/` change only   *)
(* together, only to the directory that was asked for, and the answer the   *)
(* caller got never contradicts what is on disk.  PublicationTransaction    *)
(* implements this specification.                                           *)
(***************************************************************************)

CONSTANTS
    Dirs,      \* directory identities that may hold a complete delivery
    Empty      \* an empty delivery directory

VARIABLES
    delivery,   \* what `delivery/` holds once every pending recovery has run
    previous,   \* the same for `delivery.previous/`
    candidate,  \* the staged delivery the last publish call was given
    answer      \* what that call has told its run so far

vars == <<delivery, previous, candidate, answer>>

Answers == {"none", "pending", "published", "failed", "interrupted",
            "rollback_failed", "lost"}

Init ==
    /\ delivery \in Dirs \cup {Empty}
    /\ previous \in Dirs \cup {Empty}
    /\ candidate = Empty
    /\ answer = "none"

\* A run hands a staged delivery to the publication.
Begin ==
    /\ answer # "pending"
    /\ candidate' \in Dirs \ {delivery, previous}
    /\ answer' = "pending"
    /\ UNCHANGED <<delivery, previous>>

\* Both names change at once; an empty delivery does not displace the backup.
Switch ==
    /\ delivery' = candidate
    /\ previous' = IF delivery = Empty THEN previous ELSE delivery
    /\ candidate' = candidate

Publish == answer = "pending" /\ Switch /\ answer' = "published"

\* The call fails or is interrupted and nothing has changed.
Reject ==
    /\ answer = "pending"
    /\ answer' \in {"failed", "interrupted"}
    /\ UNCHANGED <<delivery, previous, candidate>>

\* The caller learns that the outcome is uncertain; nothing has changed yet.
Uncertain ==
    /\ answer = "pending"
    /\ answer' = "rollback_failed"
    /\ UNCHANGED <<delivery, previous, candidate>>

\* The process dies before it can answer: either nothing has changed, or all of it.
Die ==
    /\ answer = "pending"
    /\ answer' = "lost"
    /\ Switch \/ UNCHANGED <<delivery, previous, candidate>>

\* An open outcome may still turn out to be the complete switch, never half of it.
LateSwitch ==
    /\ answer \in {"lost", "rollback_failed"}
    /\ delivery # candidate
    /\ Switch
    /\ answer' = answer

Next == Begin \/ Publish \/ Reject \/ Uncertain \/ Die \/ LateSwitch

Spec == Init /\ [][Next]_vars
=============================================================================
