-------------------- MODULE PublicationTransactionProofs --------------------
(***************************************************************************)
(* For every set of directories and every failure: type correctness of the *)
(* publication transaction, the truth of its answer and what it never does *)
(* to a delivery; and, when the fsync that follows the commit's journal    *)
(* unlink does not fail, its crash safety and that it implements           *)
(* AtomicPublication.                                                      *)
(***************************************************************************)
EXTENDS PublicationTransaction, TLAPS

-----------------------------------------------------------------------------
(* The shape of every namespace the disk may come back to                   *)

\* The three names never share a directory.
DistinctNames(ns) ==
    /\ ns.delivery # ns.previous
    /\ ns.staging # ns.delivery
    /\ ns.staging # ns.previous

\* The directories are where the transaction j can have put them.
Shape(ns, j) ==
    IF j.overwrite
    THEN Names(ns) \in {<<j.current, j.previous, j.staging>>,
                        <<j.current, j.staging, j.previous>>,
                        <<j.staging, j.current, j.previous>>}
    ELSE Names(ns) \in {<<j.current, j.previous, j.staging>>,
                        <<j.staging, j.previous, j.current>>}

WellFormed(ns) ==
    /\ ns \in Namespace
    /\ DistinctNames(ns)
    /\ ns.journal # None => Shape(ns, ns.journal)

DiskShape == fs \in disk /\ \A ns \in disk : WellFormed(ns)

\* Where the directories are at each step of the process.
InitialAt == Names(fs) = <<txn.current, txn.previous, txn.staging>>
PreparedAt == Names(fs) = <<txn.current, txn.staging, txn.previous>>
CommittedAt ==
    Names(fs) = IF txn.overwrite THEN <<txn.staging, txn.current, txn.previous>>
                                 ELSE <<txn.staging, txn.previous, txn.current>>

ControlShape ==
    /\ (answer = "pending") => pc \in Publishing \cup RollingBack
    /\ pc \in Publishing => answer = "pending"
    /\ pc \in {"clean", "ready", "build", "built", "journal", "commit_unlinked",
               "rollback_unlinked"} => fs.journal = None
    /\ pc \in {"build", "built"} => fs.staging # None
    /\ pc \in Publishing \cup RollingBack => txn \in Journal /\ Shape(fs, txn)
    /\ pc \in {"journal", "journal_sync", "previous_move"} => InitialAt
    /\ pc \in {"rollback_journal", "rollback_unlinked"} => InitialAt
    /\ pc \in {"previous_move", "previous_sync", "cancel_check"} => txn.overwrite
    /\ pc \in {"previous_sync", "cancel_check"} => PreparedAt
    /\ pc = "delivery_exchange" => IF txn.overwrite THEN PreparedAt ELSE InitialAt
    /\ pc \in {"delivery_sync", "commit_verify", "commit_cleanup", "commit_unlinked"}
          => CommittedAt
    /\ pc \in {"journal_sync", "previous_move", "previous_sync", "cancel_check",
               "delivery_exchange", "delivery_sync", "commit_verify", "commit_cleanup"}
          => fs.journal = txn
    /\ pc \in RollingBack => fs.journal \in {None, txn}
    /\ pc \in RollingBack /\ Recovering => kept

TypeInv == TypeOK /\ DiskShape /\ ControlShape

-----------------------------------------------------------------------------
(* Lemmas about the exchanges                                               *)

(* Exchanging delivery.previous with the staging directory permutes two     *)
(* names and touches neither the journal nor any directory's contents.      *)
LEMMA ExchangePreviousPermutes ==
    ASSUME NEW ns \in Namespace, DistinctNames(ns), ns.staging # None
    PROVE  /\ ExchangePrevious(ns) \in Namespace
           /\ DistinctNames(ExchangePrevious(ns))
           /\ Names(ExchangePrevious(ns)) = <<ns.delivery, ns.staging, ns.previous>>
           /\ ExchangePrevious(ns).staging # None
           /\ ExchangePrevious(ns).journal = ns.journal
           /\ ExchangePrevious(ns).content = ns.content
BY ConstantsAssumption DEF ExchangePrevious, Namespace, Entry, DistinctNames, Names

(* The same for delivery and delivery.previous, the overwriting commit.     *)
LEMMA ExchangeDeliveryPermutes ==
    ASSUME NEW ns \in Namespace, DistinctNames(ns), ns.staging # None
    PROVE  /\ ExchangeDelivery(ns) \in Namespace
           /\ DistinctNames(ExchangeDelivery(ns))
           /\ Names(ExchangeDelivery(ns)) = <<ns.previous, ns.delivery, ns.staging>>
           /\ ExchangeDelivery(ns).staging # None
           /\ ExchangeDelivery(ns).journal = ns.journal
           /\ ExchangeDelivery(ns).content = ns.content
BY ConstantsAssumption DEF ExchangeDelivery, Namespace, Entry, DistinctNames, Names

(* The same for delivery and the staging directory, the fresh commit.       *)
LEMMA ExchangeFreshPermutes ==
    ASSUME NEW ns \in Namespace, DistinctNames(ns), ns.staging # None
    PROVE  /\ ExchangeFresh(ns) \in Namespace
           /\ DistinctNames(ExchangeFresh(ns))
           /\ Names(ExchangeFresh(ns)) = <<ns.staging, ns.previous, ns.delivery>>
           /\ ExchangeFresh(ns).staging # None
           /\ ExchangeFresh(ns).journal = ns.journal
           /\ ExchangeFresh(ns).content = ns.content
BY ConstantsAssumption DEF ExchangeFresh, Namespace, Entry, DistinctNames, Names

(* The state computed from the three identities is the one their places     *)
(* show, as long as the transaction bound three different directories.      *)
LEMMA PublicationStateReads ==
    ASSUME NEW ns \in Namespace, NEW j \in Journal, DistinctNames(ns), Shape(ns, j)
    PROVE  /\ (PublicationState(ns, j) = "initial")
                   <=> (Names(ns) = <<j.current, j.previous, j.staging>>)
           /\ j.overwrite =>
                 /\ (PublicationState(ns, j) = "overwrite_prepared")
                       <=> (Names(ns) = <<j.current, j.staging, j.previous>>)
                 /\ (PublicationState(ns, j) = "overwrite_committed")
                       <=> (Names(ns) = <<j.staging, j.current, j.previous>>)
           /\ ~j.overwrite =>
                 ((PublicationState(ns, j) = "fresh_committed")
                       <=> (Names(ns) = <<j.staging, j.previous, j.current>>))
BY ConstantsAssumption DEF PublicationState, Namespace, Journal, DistinctNames, Names, Shape

(* A rollback step keeps the directories within the transaction's reach and *)
(* leaves the journal and the contents alone.                               *)
LEMMA RollbackExchangeKeepsShape ==
    ASSUME NEW ns \in Namespace, NEW j \in Journal, DistinctNames(ns), Shape(ns, j)
    PROVE  /\ RollbackExchange(ns, j) \in Namespace
           /\ DistinctNames(RollbackExchange(ns, j))
           /\ Shape(RollbackExchange(ns, j), j)
           /\ RollbackExchange(ns, j).journal = ns.journal
           /\ RollbackExchange(ns, j).content = ns.content
<1>0. ns.staging # None
    BY ConstantsAssumption DEF Shape, Names, Journal, Namespace
<1>1. CASE j.overwrite /\ PublicationState(ns, j) = "overwrite_committed"
    <2>1. RollbackExchange(ns, j) = ExchangeDelivery(ns)
        BY <1>1, PublicationStateReads DEF RollbackExchange
    <2>2. Names(ns) = <<j.staging, j.current, j.previous>>
        BY <1>1, PublicationStateReads
    <2>3. Shape(ExchangeDelivery(ns), j)
        BY <1>0, <1>1, <2>2, ExchangeDeliveryPermutes DEF Shape, Names
    <2> QED BY <1>0, <2>1, <2>3, ExchangeDeliveryPermutes
<1>2. CASE j.overwrite /\ PublicationState(ns, j) = "overwrite_prepared"
    <2>1. RollbackExchange(ns, j) = ExchangePrevious(ns)
        BY <1>2, PublicationStateReads DEF RollbackExchange
    <2>2. Names(ns) = <<j.current, j.staging, j.previous>>
        BY <1>2, PublicationStateReads
    <2>3. Shape(ExchangePrevious(ns), j)
        BY <1>0, <1>2, <2>2, ExchangePreviousPermutes DEF Shape, Names
    <2> QED BY <1>0, <2>1, <2>3, ExchangePreviousPermutes
<1>3. CASE ~j.overwrite /\ PublicationState(ns, j) = "fresh_committed"
    <2>1. RollbackExchange(ns, j) = ExchangeFresh(ns)
        BY <1>3, PublicationStateReads DEF RollbackExchange
    <2>2. Names(ns) = <<j.staging, j.previous, j.current>>
        BY <1>3, PublicationStateReads
    <2>3. Shape(ExchangeFresh(ns), j)
        BY <1>0, <1>3, <2>2, ExchangeFreshPermutes DEF Shape, Names
    <2> QED BY <1>0, <2>1, <2>3, ExchangeFreshPermutes
<1>4. CASE /\ ~(j.overwrite /\ PublicationState(ns, j) = "overwrite_committed")
           /\ ~(j.overwrite /\ PublicationState(ns, j) = "overwrite_prepared")
           /\ ~(~j.overwrite /\ PublicationState(ns, j) = "fresh_committed")
    <2>1. RollbackExchange(ns, j) = ns
        BY <1>4 DEF RollbackExchange
    <2> QED BY <2>1
<1> QED BY <1>1, <1>2, <1>3, <1>4

(* The exchange that makes the new delivery visible takes the directories   *)
(* from where the transaction prepared them to their committed places.      *)
LEMMA CommitExchangeCommits ==
    ASSUME NEW ns \in Namespace, NEW j \in Journal, DistinctNames(ns),
           Names(ns) = IF j.overwrite THEN <<j.current, j.staging, j.previous>>
                                      ELSE <<j.current, j.previous, j.staging>>
    PROVE  /\ CommitExchange(ns, j) \in Namespace
           /\ DistinctNames(CommitExchange(ns, j))
           /\ Names(CommitExchange(ns, j)) =
                  IF j.overwrite THEN <<j.staging, j.current, j.previous>>
                                 ELSE <<j.staging, j.previous, j.current>>
           /\ Shape(CommitExchange(ns, j), j)
           /\ CommitExchange(ns, j).journal = ns.journal
           /\ CommitExchange(ns, j).content = ns.content
<1>0. ns.staging # None
    BY ConstantsAssumption DEF Names, Journal
<1>1. CASE j.overwrite
    BY <1>0, <1>1, ExchangeDeliveryPermutes DEF CommitExchange, Names, Shape
<1>2. CASE ~j.overwrite
    BY <1>0, <1>2, ExchangeFreshPermutes DEF CommitExchange, Names, Shape
<1> QED BY <1>1, <1>2

-----------------------------------------------------------------------------
(* Type correctness                                                         *)

(* A metadata operation that leaves a well-formed namespace keeps every     *)
(* namespace the disk may come back to well-formed.                         *)
LEMMA MutateKeepsDiskShape ==
    ASSUME DiskShape, disk \subseteq Namespace, NEW ns, Mutate(ns), WellFormed(ns)
    PROVE  DiskShape' /\ fs' = ns /\ fs' \in Namespace /\ disk' \subseteq Namespace
BY DEF DiskShape, Mutate, WellFormed

(* So does an fsync, whether it succeeds or fails.                          *)
LEMMA SyncKeepsDiskShape ==
    ASSUME DiskShape, disk \subseteq Namespace, Flush \/ FlushFails
    PROVE  DiskShape' /\ fs' = fs /\ disk' \subseteq Namespace
BY DEF DiskShape, Flush, FlushFails

(* The initial states have the shape of a workspace between two runs.       *)
LEMMA InitTypeInv == Init => TypeInv
<1> SUFFICES ASSUME Init PROVE TypeInv
    OBVIOUS
<1>1. /\ fs \in Namespace /\ fs.staging = None /\ fs.journal = None
      /\ fs.delivery # fs.previous
    BY DEF Init, Namespace, Entry, Contents
<1>2. TypeOK
  <2>1. start \in [delivery : Value, previous : Value]
      BY <1>1 DEF Init, ValueOf, Value, Namespace
  <2> QED
      BY <1>1, <2>1 DEF Init, TypeOK, PC, Namespace
<1>3. DiskShape
    BY <1>1, ConstantsAssumption DEF Init, DiskShape, WellFormed, DistinctNames, Namespace
<1>4. ControlShape
    BY <1>1 DEF Init, ControlShape, Publishing, RollingBack
<1> QED BY <1>2, <1>3, <1>4 DEF TypeInv

(* Every step of the process, of the file system and of the environment     *)
(* preserves the type invariant, whichever system call fails.               *)
LEMMA NextTypeInv == TypeInv /\ [Next]_vars => TypeInv'
<1> SUFFICES ASSUME TypeInv, [Next]_vars PROVE TypeInv'
    OBVIOUS
<1> USE ConstantsAssumption DEF TypeInv, TypeOK, ControlShape, PC, Publishing, RollingBack
<1>a. /\ DiskShape /\ fs \in Namespace /\ disk \subseteq Namespace
      /\ WellFormed(fs)
    BY DEF DiskShape
<1>1. CASE Acquire
    BY <1>a, <1>1 DEF Acquire, Goto, Leave, Undo, Die, RolledBack, Recovering, DiskShape,
          memory, history, Journal, Namespace, Entry, InitialAt, PreparedAt, CommittedAt, Shape, Names,
          WellFormed, DistinctNames
<1>2. CASE RecoverNothing
    BY <1>a, <1>2 DEF RecoverNothing, Goto, Leave, Undo, Die, RolledBack, Recovering, DiskShape,
          memory, history, Journal, Namespace, Entry, InitialAt, PreparedAt, CommittedAt, Shape, Names,
          WellFormed, DistinctNames
<1>3. CASE RecoverJournal
    BY <1>a, <1>3 DEF RecoverJournal, Goto, Leave, Undo, Die, RolledBack, Recovering, DiskShape,
          memory, history, Journal, Namespace, Entry, InitialAt, PreparedAt, CommittedAt, Shape, Names,
          WellFormed, DistinctNames
<1>4. CASE LeaveOnError
    BY <1>a, <1>4 DEF LeaveOnError, Goto, Leave, Undo, Die, RolledBack, Recovering, DiskShape,
          memory, history, Journal, Namespace, Entry, InitialAt, PreparedAt, CommittedAt, Shape, Names,
          WellFormed, DistinctNames
<1>5. CASE RemoveContents
  <2>1. WellFormed([fs EXCEPT !.content[fs.staging] = "partial"])
      BY <1>a, <1>5 DEF RemoveContents, WellFormed, Namespace, Journal, Entry, Contents, DistinctNames,
            Shape, Names, MayRemoveStaging, InitialAt
  <2>2. DiskShape' /\ fs' = [fs EXCEPT !.content[fs.staging] = "partial"] /\ fs' \in Namespace /\ disk' \subseteq Namespace
      BY <1>a, <1>5, <2>1, MutateKeepsDiskShape DEF RemoveContents
  <2> QED
      BY <1>a, <1>5, <2>1, <2>2 DEF RemoveContents, Goto, memory, history, WellFormed, Namespace, DistinctNames,
            Entry, Journal, Shape, Names, InitialAt, PreparedAt, CommittedAt, Recovering, MayRemoveStaging
<1>6. CASE RemoveStaging
  <2>1. WellFormed([fs EXCEPT !.content[fs.staging] = "empty", !.staging = None])
      BY <1>a, <1>6 DEF RemoveStaging, WellFormed, Namespace, Journal, Entry, Contents, DistinctNames,
            Shape, Names, MayRemoveStaging, InitialAt
  <2>2. DiskShape' /\ fs' = [fs EXCEPT !.content[fs.staging] = "empty", !.staging = None] /\ fs' \in Namespace /\ disk' \subseteq Namespace
      BY <1>a, <1>6, <2>1, MutateKeepsDiskShape DEF RemoveStaging
  <2> QED
      BY <1>a, <1>6, <2>1, <2>2 DEF RemoveStaging, Goto, memory, history, WellFormed, Namespace, DistinctNames,
            Entry, Journal, Shape, Names, InitialAt, PreparedAt, CommittedAt, Recovering, MayRemoveStaging
<1>7. CASE CleanupStaleTemporary
    BY <1>a, <1>7, SyncKeepsDiskShape DEF CleanupStaleTemporary, Flush, FlushFails, Goto, Leave, RolledBack, Recovering,
          memory, history, InitialAt, PreparedAt, CommittedAt, Shape, Names
<1>8. CASE CleanupRunTemporary
    BY <1>a, <1>8, SyncKeepsDiskShape DEF CleanupRunTemporary, Flush, FlushFails, Goto, Leave, RolledBack, Recovering,
          memory, history, InitialAt, PreparedAt, CommittedAt, Shape, Names
<1>9. CASE CleanupRefused
    BY <1>a, <1>9 DEF CleanupRefused, Goto, Leave, Undo, Die, RolledBack, Recovering, DiskShape,
          memory, history, Journal, Namespace, Entry, InitialAt, PreparedAt, CommittedAt, Shape, Names,
          WellFormed, DistinctNames
<1>10. CASE CreateStaging
  <2>1. PICK d \in Dirs \ {fs.delivery, fs.previous} :
            Mutate([fs EXCEPT !.staging = d, !.content[d] = "empty"])
      BY <1>10 DEF CreateStaging
  <2>2. WellFormed([fs EXCEPT !.staging = d, !.content[d] = "empty"])
      BY <1>a, <1>10, <2>1 DEF CreateStaging, WellFormed, Namespace, Entry, Contents, DistinctNames
  <2>3. /\ DiskShape' /\ fs' = [fs EXCEPT !.staging = d, !.content[d] = "empty"]
        /\ fs' \in Namespace /\ disk' \subseteq Namespace
      BY <1>a, <2>1, <2>2, MutateKeepsDiskShape
  <2> QED
      BY <1>a, <1>10, <2>3 DEF CreateStaging, Goto, history, Namespace
<1>11. CASE BuildPart
  <2>1. WellFormed([fs EXCEPT !.content[fs.staging] = "partial"])
      BY <1>a, <1>11 DEF BuildPart, WellFormed, Namespace, Journal, Entry, Contents, DistinctNames,
            Shape, Names, MayRemoveStaging, InitialAt
  <2>2. DiskShape' /\ fs' = [fs EXCEPT !.content[fs.staging] = "partial"] /\ fs' \in Namespace /\ disk' \subseteq Namespace
      BY <1>a, <1>11, <2>1, MutateKeepsDiskShape DEF BuildPart
  <2> QED
      BY <1>a, <1>11, <2>1, <2>2 DEF BuildPart, Goto, memory, history, WellFormed, Namespace, DistinctNames,
            Entry, Journal, Shape, Names, InitialAt, PreparedAt, CommittedAt, Recovering, MayRemoveStaging
<1>12. CASE BuildComplete
  <2>1. WellFormed([fs EXCEPT !.content[fs.staging] = "complete"])
      BY <1>a, <1>12 DEF BuildComplete, WellFormed, Namespace, Journal, Entry, Contents, DistinctNames,
            Shape, Names, MayRemoveStaging, InitialAt
  <2>2. DiskShape' /\ fs' = [fs EXCEPT !.content[fs.staging] = "complete"] /\ fs' \in Namespace /\ disk' \subseteq Namespace
      BY <1>a, <1>12, <2>1, MutateKeepsDiskShape DEF BuildComplete
  <2> QED
      BY <1>a, <1>12, <2>1, <2>2 DEF BuildComplete, Goto, memory, history, WellFormed, Namespace, DistinctNames,
            Entry, Journal, Shape, Names, InitialAt, PreparedAt, CommittedAt, Recovering, MayRemoveStaging
<1>13. CASE BuildFails
    BY <1>a, <1>13 DEF BuildFails, Goto, Leave, Undo, Die, RolledBack, Recovering, DiskShape,
          memory, history, Journal, Namespace, Entry, InitialAt, PreparedAt, CommittedAt, Shape, Names,
          WellFormed, DistinctNames
<1>14. CASE BeginPublish
  <2>1. start' \in [delivery : Value, previous : Value]
      BY <1>a, <1>14 DEF BeginPublish, ValueOf, Value, Namespace
  <2>2. txn' \in Journal /\ Names(fs) = <<txn'.current, txn'.previous, txn'.staging>>
      BY <1>a, <1>14 DEF BeginPublish, Journal, Namespace, Entry, Names, LeaseRootValid, DeliveryNonempty
  <2>3. TypeOK'
      BY <1>a, <1>14, <2>1, <2>2 DEF BeginPublish, Namespace, Entry
  <2>4. DiskShape'
      BY <1>14 DEF BeginPublish, DiskShape
  <2>5. txn' \in Journal /\ Shape(fs, txn') /\ InitialAt'
      BY <1>14, <2>2 DEF BeginPublish, Shape, InitialAt, Names, Journal
  <2>6. ControlShape'
      BY <1>14, <2>5 DEF BeginPublish
  <2> QED
      BY <2>3, <2>4, <2>6
<1>15. CASE RefuseDestination
    BY <1>a, <1>15 DEF RefuseDestination, Goto, Leave, Undo, Die, RolledBack, Recovering, DiskShape,
          memory, history, Journal, Namespace, Entry, InitialAt, PreparedAt, CommittedAt, Shape, Names,
          WellFormed, DistinctNames
<1>16. CASE CancelledBeforeJournal
    BY <1>a, <1>16 DEF CancelledBeforeJournal, Goto, Leave, Undo, Die, RolledBack, Recovering, DiskShape,
          memory, history, Journal, Namespace, Entry, InitialAt, PreparedAt, CommittedAt, Shape, Names,
          WellFormed, DistinctNames
<1>17. CASE WriteJournal
  <2>1. WellFormed([fs EXCEPT !.journal = txn])
      BY <1>a, <1>17 DEF WriteJournal, WellFormed, Namespace, Journal, Entry, Contents, DistinctNames,
            Shape, Names, MayRemoveStaging, InitialAt
  <2>2. DiskShape' /\ fs' = [fs EXCEPT !.journal = txn] /\ fs' \in Namespace /\ disk' \subseteq Namespace
      BY <1>a, <1>17, <2>1, MutateKeepsDiskShape DEF WriteJournal
  <2> QED
      BY <1>a, <1>17, <2>1, <2>2 DEF WriteJournal, Goto, memory, history, WellFormed, Namespace, DistinctNames,
            Entry, Journal, Shape, Names, InitialAt, PreparedAt, CommittedAt, Recovering, MayRemoveStaging
<1>18. CASE SyncJournal
    BY <1>a, <1>18, SyncKeepsDiskShape DEF SyncJournal, Flush, FlushFails, Goto, Leave, RolledBack, Recovering,
          memory, history, InitialAt, PreparedAt, CommittedAt, Shape, Names
<1>19. CASE MovePrevious
  <2>1. fs.staging # None
      BY <1>a, <1>19 DEF MovePrevious, Shape, Names, Journal
  <2>2. /\ ExchangePrevious(fs) \in Namespace /\ DistinctNames(ExchangePrevious(fs))
        /\ ExchangePrevious(fs).journal = fs.journal
      BY <1>a, <2>1, ExchangePreviousPermutes DEF WellFormed
  <2>3. txn \in Journal /\ txn.overwrite /\ InitialAt /\ fs.journal = txn
      BY <1>19 DEF MovePrevious
  <2>c. Names(ExchangePrevious(fs)) = <<txn.current, txn.staging, txn.previous>>
      BY <1>a, <2>1, <2>3, ExchangePreviousPermutes DEF WellFormed, InitialAt, Names
  <2>d. Shape(ExchangePrevious(fs), txn)
      BY <2>3, <2>c DEF Shape
  <2>4. WellFormed(ExchangePrevious(fs))
      BY <2>2, <2>3, <2>d DEF WellFormed
  <2>5. DiskShape' /\ fs' = ExchangePrevious(fs) /\ fs' \in Namespace /\ disk' \subseteq Namespace
      BY <1>a, <1>19, <2>4, MutateKeepsDiskShape DEF MovePrevious
  <2> QED
      BY <1>19, <2>2, <2>3, <2>c, <2>d, <2>5 DEF MovePrevious, Goto, history, PreparedAt
<1>20. CASE SyncPrevious
    BY <1>a, <1>20, SyncKeepsDiskShape DEF SyncPrevious, Flush, FlushFails, Goto, Leave, RolledBack, Recovering,
          memory, history, InitialAt, PreparedAt, CommittedAt, Shape, Names
<1>21. CASE NotCancelled
    BY <1>a, <1>21 DEF NotCancelled, Goto, Leave, Undo, Die, RolledBack, Recovering, DiskShape,
          memory, history, Journal, Namespace, Entry, InitialAt, PreparedAt, CommittedAt, Shape, Names,
          WellFormed, DistinctNames
<1>22. CASE Cancelled
    BY <1>a, <1>22 DEF Cancelled, Goto, Leave, Undo, Die, RolledBack, Recovering, DiskShape,
          memory, history, Journal, Namespace, Entry, InitialAt, PreparedAt, CommittedAt, Shape, Names,
          WellFormed, DistinctNames
<1>23. CASE ExchangeDelivered
    BY <1>a, <1>23, CommitExchangeCommits, MutateKeepsDiskShape
    DEF ExchangeDelivered, Goto, history, PreparedAt, InitialAt, CommittedAt, WellFormed
<1>24. CASE SyncDelivery
    BY <1>a, <1>24, SyncKeepsDiskShape DEF SyncDelivery, Flush, FlushFails, Goto, Leave, RolledBack, Recovering,
          memory, history, InitialAt, PreparedAt, CommittedAt, Shape, Names
<1>25. CASE VerifyCommit
    BY <1>a, <1>25 DEF VerifyCommit, Goto, Leave, Undo, Die, RolledBack, Recovering, DiskShape,
          memory, history, Journal, Namespace, Entry, InitialAt, PreparedAt, CommittedAt, Shape, Names,
          WellFormed, DistinctNames
<1>26. CASE UnlinkJournal
  <2>1. WellFormed([fs EXCEPT !.journal = None])
      BY <1>a, <1>26 DEF UnlinkJournal, WellFormed, Namespace, Journal, Entry, Contents, DistinctNames,
            Shape, Names, MayRemoveStaging, InitialAt
  <2>2. DiskShape' /\ fs' = [fs EXCEPT !.journal = None] /\ fs' \in Namespace /\ disk' \subseteq Namespace
      BY <1>a, <1>26, <2>1, MutateKeepsDiskShape DEF UnlinkJournal
  <2> QED
      BY <1>a, <1>26, <2>1, <2>2 DEF UnlinkJournal, Goto, memory, history, WellFormed, Namespace, DistinctNames,
            Entry, Journal, Shape, Names, InitialAt, PreparedAt, CommittedAt, Recovering, MayRemoveStaging
<1>27. CASE Commit
    BY <1>a, <1>27, SyncKeepsDiskShape DEF Commit, Flush, FlushFails, Goto, Leave, RolledBack, Recovering,
          memory, history, InitialAt, PreparedAt, CommittedAt, Shape, Names, Namespace
<1>28. CASE TransactionFails
  <2>1. Shape(fs, txn) /\ txn \in Journal /\ fs.journal \in {None, txn}
      BY <1>28 DEF TransactionFails
  <2>2. DiskShape' /\ fs' \in Namespace /\ disk' \subseteq Namespace
        /\ Shape(fs', txn) /\ fs'.journal = fs.journal
    <3>1. CASE UNCHANGED <<fs, disk>>
        BY <1>a, <2>1, <3>1 DEF DiskShape
    <3>2. CASE FlushFails
        BY <1>a, <2>1, <3>2, SyncKeepsDiskShape
    <3>3. CASE pc = "previous_move" /\ Mutate(ExchangePrevious(fs))
      <4>1. fs.staging # None /\ txn.overwrite /\ InitialAt /\ fs.journal = txn
          BY <2>1, <3>3 DEF Shape, Names, Journal, InitialAt
      <4>2. Names(ExchangePrevious(fs)) = <<txn.current, txn.staging, txn.previous>>
          BY <1>a, <4>1, ExchangePreviousPermutes DEF WellFormed, InitialAt, Names
      <4>3. Shape(ExchangePrevious(fs), txn)
          BY <4>1, <4>2 DEF Shape
      <4>4. WellFormed(ExchangePrevious(fs)) /\ ExchangePrevious(fs).journal = fs.journal
          BY <1>a, <4>1, <4>3, ExchangePreviousPermutes DEF WellFormed
      <4> QED BY <1>a, <3>3, <4>3, <4>4, MutateKeepsDiskShape
    <3>4. CASE pc = "delivery_exchange" /\ Mutate(CommitExchange(fs, txn))
      <4>1. /\ fs.journal = txn
            /\ Names(fs) = IF txn.overwrite THEN <<txn.current, txn.staging, txn.previous>>
                                             ELSE <<txn.current, txn.previous, txn.staging>>
          BY <3>4 DEF PreparedAt, InitialAt
      <4>2. Shape(CommitExchange(fs, txn), txn) /\ WellFormed(CommitExchange(fs, txn))
            /\ CommitExchange(fs, txn).journal = fs.journal
          BY <1>a, <2>1, <4>1, CommitExchangeCommits DEF WellFormed
      <4> QED BY <1>a, <3>4, <4>2, MutateKeepsDiskShape
    <3> QED BY <1>28, <3>1, <3>2, <3>3, <3>4 DEF TransactionFails
  <2> QED
      BY <1>28, <2>1, <2>2 DEF TransactionFails, Undo, history, Recovering
<1>29. CASE RollBack
  <2>1. /\ RollbackExchange(fs, txn) \in Namespace
        /\ DistinctNames(RollbackExchange(fs, txn)) /\ Shape(RollbackExchange(fs, txn), txn)
        /\ RollbackExchange(fs, txn).journal = fs.journal
      BY <1>a, <1>29, RollbackExchangeKeepsShape DEF RollBack, WellFormed
  <2>2. WellFormed(RollbackExchange(fs, txn))
      BY <1>29, <2>1 DEF RollBack, WellFormed
  <2>3. /\ DiskShape' /\ fs' = RollbackExchange(fs, txn)
        /\ fs' \in Namespace /\ disk' \subseteq Namespace
      BY <1>a, <1>29, <2>2, MutateKeepsDiskShape DEF RollBack
  <2> QED
      BY <1>a, <1>29, <2>1, <2>3 DEF RollBack, memory, history, Recovering
<1>30. CASE SyncRollback
  <2>1. InitialAt
      BY <1>a, <1>30, PublicationStateReads DEF SyncRollback, WellFormed, InitialAt
  <2> QED
      BY <1>a, <1>30, <2>1, SyncKeepsDiskShape DEF SyncRollback, Flush, Goto, history, InitialAt, Shape, Names, Recovering
<1>31. CASE KeepJournal
    BY <1>a, <1>31 DEF KeepJournal, Goto, Leave, Undo, Die, RolledBack, Recovering, DiskShape,
          memory, history, Journal, Namespace, Entry, InitialAt, PreparedAt, CommittedAt, Shape, Names,
          WellFormed, DistinctNames
<1>32. CASE RemoveJournal
  <2>1. WellFormed([fs EXCEPT !.journal = None])
      BY <1>a, <1>32 DEF RemoveJournal, WellFormed, Namespace, Journal, Entry, Contents, DistinctNames,
            Shape, Names, MayRemoveStaging, InitialAt
  <2>2. DiskShape' /\ fs' = [fs EXCEPT !.journal = None] /\ fs' \in Namespace /\ disk' \subseteq Namespace
      BY <1>a, <1>32, <2>1, MutateKeepsDiskShape DEF RemoveJournal
  <2> QED
      BY <1>a, <1>32, <2>1, <2>2 DEF RemoveJournal, Goto, memory, history, WellFormed, Namespace, DistinctNames,
            Entry, Journal, Shape, Names, InitialAt, PreparedAt, CommittedAt, Recovering, MayRemoveStaging
<1>33. CASE SyncRemoval
  <2>1. DiskShape' /\ fs' = fs /\ disk' \subseteq Namespace
      BY <1>33, SyncKeepsDiskShape DEF SyncRemoval
  <2>2. [delivery |-> fs.delivery, previous |-> fs.previous] \in [delivery : Dirs, previous : Dirs]
      BY <1>a DEF Namespace
  <2>3. CASE Recovering
      BY <1>a, <1>33, <2>1, <2>2, <2>3 DEF SyncRemoval, RolledBack, history, Recovering
  <2>4. CASE ~Recovering
      BY <1>a, <1>33, <2>1, <2>4 DEF SyncRemoval, RolledBack, Recovering
  <2> QED BY <2>3, <2>4
<1>34. CASE RollbackFails
    BY <1>a, <1>34, SyncKeepsDiskShape DEF RollbackFails, Flush, FlushFails, Goto, Leave, RolledBack, Recovering,
          memory, history, InitialAt, PreparedAt, CommittedAt, Shape, Names
<1>35. CASE Kill
    BY <1>a, <1>35 DEF Kill, Goto, Leave, Undo, Die, RolledBack, Recovering, DiskShape,
          memory, history, Journal, Namespace, Entry, InitialAt, PreparedAt, CommittedAt, Shape, Names,
          WellFormed, DistinctNames
<1>36. CASE PowerLoss
    BY <1>a, <1>36 DEF PowerLoss, Die, Leave, DiskShape
<1>37. CASE UNCHANGED vars
    BY <1>a, <1>37 DEF vars, memory, history, DiskShape, InitialAt, PreparedAt, CommittedAt, Shape, Names, Recovering
<1>38. CASE Signal
    BY <1>a, <1>38 DEF Signal, Goto, Leave, Undo, Die, RolledBack, Recovering, DiskShape,
          memory, history, Journal, Namespace, Entry, InitialAt, PreparedAt, CommittedAt, Shape, Names,
          WellFormed, DistinctNames
<1> QED
    BY <1>1, <1>2, <1>3, <1>4, <1>5, <1>6, <1>7, <1>8, <1>9, <1>10, <1>11, <1>12, <1>13, <1>14, <1>15, <1>16, <1>17, <1>18, <1>19, <1>20, <1>21, <1>22, <1>23, <1>24, <1>25, <1>26, <1>27, <1>28, <1>29, <1>30, <1>31, <1>32, <1>33, <1>34, <1>35, <1>36, <1>37, <1>38 DEF Next, Proceed

(* Whatever fails and whenever the process dies, the state keeps the types  *)
(* the code's annotations promise: delivery and delivery.previous always    *)
(* name a directory, the journal always names the three it may restore.     *)
THEOREM PublicationTypeCorrect == Spec => []TypeOK
<1>1. TypeInv => TypeOK
    BY DEF TypeInv
<1> QED BY InitTypeInv, NextTypeInv, <1>1, PTL DEF Spec

-----------------------------------------------------------------------------
(* The inductive invariant of crash safety                                  *)

\* Reading either directory of ns gives a complete delivery or an empty one.
Whole(ns) == ns.content[ns.delivery] # "partial" /\ ns.content[ns.previous] # "partial"

\* The transaction j, as journalled or bound, can still be undone in ns: its
\* three directories hold what they held when the publication began.
Undoable(ns, j) ==
    /\ asked = j.staging
    /\ ns.content[j.staging] = "complete"
    /\ start = [delivery |-> ValueOf(ns, j.current), previous |-> ValueOf(ns, j.previous)]
    /\ j.overwrite <=> ns.content[j.current] # "empty"
    /\ ns.content[j.current] # "partial" /\ ns.content[j.previous] # "partial"

\* Half of a rollback: the old delivery is back, and the new one is the backup.
HalfPair == [delivery |-> start.delivery, previous |-> asked]

\* What recovery may leave.  A rollback without its journal can stop half-way.
Outcomes ==
    {start, NewPair} \cup {pair \in {HalfPair} : CleanupSyncMayFail /\ start.delivery # Empty}

DiskSafe ==
    \A ns \in disk :
        /\ Whole(ns)
        /\ ns.journal # None => Undoable(ns, ns.journal)
        /\ Pair(Recovered(ns)) \in Outcomes

\* No publication has touched the disk, all of it shows the same pair.
Undisturbed == \A ns \in disk : ns.journal = None /\ Pair(ns) = Pair(fs)

ControlSafe ==
    /\ pc \in {"ready", "build", "built", "journal"} => Undisturbed
    /\ pc = "built" => fs.content[fs.staging] = "complete"
    /\ pc \in Publishing \cup RollingBack => Undoable(fs, txn)
    /\ pc = "rollback" /\ fs.journal = None => answer = "pending" /\ (CleanupSyncMayFail \/ InitialAt)
    /\ pc = "commit_unlinked" => Pair(fs) = NewPair

\* A rollback that a power loss would not find again.
Unguarded == CleanupSyncMayFail /\ pc = "rollback" /\ fs.journal = None

AnswerSafe ==
    /\ answer = "published" =>
          \A ns \in disk : ns.journal = None /\ Pair(ns) = NewPair
    /\ answer \in {"failed", "interrupted"} \/ (answer = "pending" /\ pc # "commit_unlinked" /\ ~Unguarded)
          => \A ns \in disk : Pair(Recovered(ns)) = start

SafeInv == TypeInv /\ DiskSafe /\ ControlSafe /\ AnswerSafe

-----------------------------------------------------------------------------
(* Lemmas of crash safety                                                   *)

(* Recovering from a journal whose transaction can still be undone gives    *)
(* the directories the publication found.                                   *)
LEMMA UndoableRecovers ==
    ASSUME NEW ns \in Namespace, ns.journal # None, Undoable(ns, ns.journal)
    PROVE  Pair(Recovered(ns)) = start
BY DEF Undoable, Pair, Recovered, ValueOf, Namespace

(* While a transaction can be undone no reader meets a torn directory,      *)
(* wherever the exchanges have put the three directories.                   *)
LEMMA UndoableIsWhole ==
    ASSUME NEW ns \in Namespace, NEW j \in Journal, Shape(ns, j), Undoable(ns, j)
    PROVE  Whole(ns)
BY DEF Undoable, Whole, Shape, Names, Namespace, Journal

(* With every directory back at its place the pair is the one found.        *)
LEMMA InitialIsStart ==
    ASSUME NEW ns \in Namespace, NEW j \in Journal, Undoable(ns, j),
           Names(ns) = <<j.current, j.previous, j.staging>>
    PROVE  Pair(ns) = start
BY DEF Undoable, Pair, Names

(* With every directory at its committed place the pair is the new one: the *)
(* old delivery is the backup, unless it was empty.                         *)
LEMMA CommittedIsNew ==
    ASSUME NEW ns \in Namespace, NEW j \in Journal, Undoable(ns, j),
           Names(ns) = IF j.overwrite THEN <<j.staging, j.current, j.previous>>
                                      ELSE <<j.staging, j.previous, j.current>>
    PROVE  Pair(ns) = NewPair
<1>1. ns.content[j.current] \in Contents /\ j.current \in Dirs
    BY DEF Namespace, Journal
<1>2. (start.delivery = Empty) <=> ~j.overwrite
    BY <1>1, ConstantsAssumption DEF Undoable, ValueOf, Contents
<1>3. ValueOf(ns, j.staging) = asked
    BY DEF Undoable, ValueOf
<1>4. CASE j.overwrite
    BY <1>2, <1>3, <1>4 DEF Pair, NewPair, Outcomes, HalfPair, Names, Undoable
<1>5. CASE ~j.overwrite
    BY <1>2, <1>3, <1>5 DEF Pair, NewPair, Outcomes, HalfPair, Names, Undoable
<1> QED BY <1>4, <1>5

(* Without a journal, a rollback shows one of the outcomes wherever it is.  *)
LEMMA HalfWayIsOutcome ==
    ASSUME NEW ns \in Namespace, NEW j \in Journal, Shape(ns, j), Undoable(ns, j), CleanupSyncMayFail
    PROVE  Pair(ns) \in Outcomes
<1>1. CASE Names(ns) = <<j.current, j.previous, j.staging>>
    BY <1>1, InitialIsStart DEF Outcomes
<1>2. CASE Names(ns) = IF j.overwrite THEN <<j.staging, j.current, j.previous>>
                                      ELSE <<j.staging, j.previous, j.current>>
    BY <1>2, CommittedIsNew DEF Outcomes
<1>3. CASE j.overwrite /\ Names(ns) = <<j.current, j.staging, j.previous>>
  <2>1. ns.content[j.current] \in Contents /\ j.current \in Dirs
      BY DEF Namespace, Journal
  <2>2. start.delivery # Empty /\ ValueOf(ns, j.staging) = asked
      BY <1>3, <2>1, ConstantsAssumption DEF Undoable, ValueOf, Contents
  <2>3. Pair(ns) = HalfPair
      BY <1>3, <2>2 DEF Pair, HalfPair, Names, Undoable
  <2> QED BY <2>2, <2>3 DEF Outcomes
<1> QED BY <1>1, <1>2, <1>3 DEF Shape

(* A metadata operation keeps the disk safe when the namespace it leaves is *)
(* whole and shows an allowed pair, after a recovery if it holds a journal. *)
LEMMA MutateKeepsDiskSafe ==
    ASSUME DiskSafe, NEW ns, Mutate(ns), UNCHANGED <<start, asked>>, Whole(ns),
           ns.journal # None => Undoable(ns, ns.journal),
           Pair(Recovered(ns)) \in Outcomes
    PROVE  DiskSafe'
BY DEF DiskSafe, Mutate, Undoable, NewPair, Outcomes, HalfPair

(* An fsync keeps it safe: it only rules out states.                        *)
LEMMA SyncKeepsDiskSafe ==
    ASSUME DiskSafe, fs \in disk, Flush \/ FlushFails, UNCHANGED <<start, asked>>
    PROVE  /\ DiskSafe' /\ disk' \subseteq disk /\ fs' = fs
           /\ Flush => disk' = {fs}
BY DEF DiskSafe, Flush, FlushFails, Undoable, NewPair, Outcomes, HalfPair

(* A directory transaction's metadata operation: the journal is in place    *)
(* and the contents are untouched, so everything stays undoable.            *)
LEMMA JournalledStepSafe ==
    ASSUME DiskSafe, NEW ns \in Namespace, NEW j \in Journal, j # None, Mutate(ns),
           UNCHANGED <<start, asked>>, ns.journal = j, ns.content = fs.content,
           Shape(ns, j), Undoable(fs, j)
    PROVE  /\ DiskSafe' /\ Undoable(ns, j)' /\ Undoable(ns, j)
           /\ Pair(Recovered(ns)) = start
<1>1. Undoable(ns, j)
    BY DEF Undoable, ValueOf
<1>2. Pair(Recovered(ns)) = start
    BY <1>1, UndoableRecovers
<1>3. Whole(ns)
    BY <1>1, UndoableIsWhole
<1>4. DiskSafe'
    BY <1>1, <1>2, <1>3, MutateKeepsDiskSafe DEF Outcomes
<1>5. Undoable(ns, j)'
    BY <1>1 DEF Undoable, ValueOf
<1> QED BY <1>1, <1>2, <1>4, <1>5

(* Between two runs every namespace shows the pair the workspace has.       *)
LEMMA InitSafeInv == Init => SafeInv
<1> SUFFICES ASSUME Init PROVE SafeInv
    OBVIOUS
<1>1. /\ TypeInv /\ disk = {fs} /\ fs.journal = None /\ pc = "idle" /\ answer = "none"
      /\ start = Pair(fs) /\ Recovered(fs) = fs
    BY InitTypeInv DEF Init, Pair, Recovered
<1>2. Whole(fs)
    BY DEF Init, Whole
<1> QED
    BY <1>1, <1>2 DEF SafeInv, DiskSafe, ControlSafe, AnswerSafe, Unguarded, Outcomes, Publishing, RollingBack

(* Every step preserves crash safety, up to a rollback without its journal. *)
LEMMA NextSafeInv == SafeInv /\ [Next]_vars => SafeInv'
<1> SUFFICES ASSUME SafeInv, [Next]_vars PROVE SafeInv'
    OBVIOUS
<1> USE ConstantsAssumption, NoneAssumption DEF Publishing, RollingBack
<1>t. TypeInv /\ TypeInv'
    BY NextTypeInv DEF SafeInv
<1>f. /\ fs \in Namespace /\ disk \subseteq Namespace /\ fs \in disk
      /\ WellFormed(fs) /\ DistinctNames(fs)
      /\ DiskSafe /\ ControlSafe /\ AnswerSafe
      /\ txn \in Journal \cup {None}
    BY <1>t DEF SafeInv, TypeInv, TypeOK, DiskShape, WellFormed
<1>c. ControlShape /\ ControlShape'
    BY <1>t DEF TypeInv
(* The recovered pair of the present namespace, read off its journal.       *)
<1>p. /\ fs.journal = None => Recovered(fs) = fs
      /\ fs.journal # None => Undoable(fs, fs.journal) /\ Pair(Recovered(fs)) = start
    BY <1>f, UndoableRecovers DEF DiskSafe, Recovered
(* A step that moves no file and no history keeps the disk as safe as it is.*)
<1>q. UNCHANGED <<fs, disk, start, asked>> => DiskSafe'
    BY <1>f DEF DiskSafe, Undoable, NewPair, Outcomes, HalfPair
<1>1. CASE Acquire
    BY <1>f, <1>c, <1>p, <1>q, <1>t, <1>1
    DEF Acquire, Goto, Leave, Undo, Die, SafeInv, ControlSafe, AnswerSafe, Unguarded, ControlShape, Undisturbed,
        history, memory, Recovering, InitialAt, Undoable, NewPair, Outcomes, HalfPair
<1>2. CASE RecoverNothing
    BY <1>f, <1>c, <1>p, <1>q, <1>t, <1>2
    DEF RecoverNothing, Goto, Leave, Undo, Die, SafeInv, ControlSafe, AnswerSafe, Unguarded, ControlShape, Undisturbed,
        history, memory, Recovering, InitialAt, Undoable, NewPair, Outcomes, HalfPair
<1>3. CASE RecoverJournal
    BY <1>f, <1>c, <1>p, <1>q, <1>t, <1>3
    DEF RecoverJournal, Goto, Leave, Undo, Die, SafeInv, ControlSafe, AnswerSafe, Unguarded, ControlShape, Undisturbed,
        history, memory, Recovering, InitialAt, Undoable, NewPair, Outcomes, HalfPair
<1>4. CASE LeaveOnError
    BY <1>f, <1>c, <1>p, <1>q, <1>t, <1>4
    DEF LeaveOnError, Goto, Leave, Undo, Die, SafeInv, ControlSafe, AnswerSafe, Unguarded, ControlShape, Undisturbed,
        history, memory, Recovering, InitialAt, Undoable, NewPair, Outcomes, HalfPair
<1>5. CASE RemoveContents
  <2>1. fs' = [fs EXCEPT !.content[fs.staging] = "partial"] /\ fs' \in Namespace /\ fs.journal = None /\ disk' = disk \cup {fs'}
      BY <1>f, <1>c, <1>t, <1>5 DEF RemoveContents, Mutate, MayRemoveStaging, ControlShape, TypeInv, TypeOK
  <2>2. /\ fs'.journal = None /\ fs'.delivery = fs.delivery /\ fs'.previous = fs.previous
        /\ \A x \in Dirs : x # fs.staging => fs'.content[x] = fs.content[x]
      BY <1>f, <2>1 DEF Namespace
  <2>3. Pair(fs') = Pair(fs) /\ Recovered(fs') = fs' /\ Recovered(fs) = fs /\ Whole(fs')
    <3>1. Whole(fs) /\ fs.staging # fs.delivery /\ fs.staging # fs.previous
        BY <1>f DEF DistinctNames, DiskSafe
    <3> QED BY <1>f, <2>1, <2>2, <3>1 DEF Pair, Recovered, ValueOf, Whole, Namespace
  <2>4. UNCHANGED <<start, asked, answer>>
      BY <1>5 DEF RemoveContents, memory, history
  <2>5. DiskSafe'
      BY <1>f, <2>1, <2>2, <2>3, <2>4 DEF DiskSafe, Undoable, NewPair, Outcomes, HalfPair
  <2>6. ControlSafe'
      BY <1>f, <1>c, <1>5, <2>1, <2>2, <2>3, <2>4
      DEF RemoveContents, MayRemoveStaging, Goto, memory, Namespace, Entry, ControlSafe, ControlShape, Undisturbed, NewPair, Outcomes, HalfPair
  <2>7. AnswerSafe'
      BY <1>f, <1>c, <1>5, <2>1, <2>2, <2>3, <2>4
      DEF RemoveContents, MayRemoveStaging, Goto, memory, AnswerSafe, Unguarded, ControlShape, NewPair, Outcomes, HalfPair
  <2> QED BY <1>t, <2>5, <2>6, <2>7 DEF SafeInv
<1>6. CASE RemoveStaging
  <2>1. fs' = [fs EXCEPT !.content[fs.staging] = "empty", !.staging = None] /\ fs' \in Namespace /\ fs.journal = None /\ disk' = disk \cup {fs'}
      BY <1>f, <1>c, <1>t, <1>6 DEF RemoveStaging, Mutate, MayRemoveStaging, ControlShape, TypeInv, TypeOK
  <2>2. /\ fs'.journal = None /\ fs'.delivery = fs.delivery /\ fs'.previous = fs.previous
        /\ \A x \in Dirs : x # fs.staging => fs'.content[x] = fs.content[x]
      BY <1>f, <2>1 DEF Namespace
  <2>3. Pair(fs') = Pair(fs) /\ Recovered(fs') = fs' /\ Recovered(fs) = fs /\ Whole(fs')
    <3>1. Whole(fs) /\ fs.staging # fs.delivery /\ fs.staging # fs.previous
        BY <1>f DEF DistinctNames, DiskSafe
    <3> QED BY <1>f, <2>1, <2>2, <3>1 DEF Pair, Recovered, ValueOf, Whole, Namespace
  <2>4. UNCHANGED <<start, asked, answer>>
      BY <1>6 DEF RemoveStaging, memory, history
  <2>5. DiskSafe'
      BY <1>f, <2>1, <2>2, <2>3, <2>4 DEF DiskSafe, Undoable, NewPair, Outcomes, HalfPair
  <2>6. ControlSafe'
      BY <1>f, <1>c, <1>6, <2>1, <2>2, <2>3, <2>4
      DEF RemoveStaging, MayRemoveStaging, Goto, memory, Namespace, Entry, ControlSafe, ControlShape, Undisturbed, NewPair, Outcomes, HalfPair
  <2>7. AnswerSafe'
      BY <1>f, <1>c, <1>6, <2>1, <2>2, <2>3, <2>4
      DEF RemoveStaging, MayRemoveStaging, Goto, memory, AnswerSafe, Unguarded, ControlShape, NewPair, Outcomes, HalfPair
  <2> QED BY <1>t, <2>5, <2>6, <2>7 DEF SafeInv
<1>7. CASE CleanupStaleTemporary
  <2>1. DiskSafe' /\ disk' \subseteq disk /\ fs' = fs /\ UNCHANGED <<start, asked>> /\ (Flush => disk' = {fs})
      BY <1>f, <1>7, SyncKeepsDiskSafe DEF CleanupStaleTemporary, RolledBack, history
  <2> QED
      BY <1>f, <1>c, <1>p, <1>t, <1>7, <2>1
      DEF CleanupStaleTemporary, Flush, FlushFails, Goto, Leave, RolledBack, SafeInv, ControlSafe, AnswerSafe, Unguarded, ControlShape,
          Undisturbed, history, memory, Recovering, InitialAt, Undoable, NewPair, Outcomes, HalfPair
<1>8. CASE CleanupRunTemporary
  <2>1. DiskSafe' /\ disk' \subseteq disk /\ fs' = fs /\ UNCHANGED <<start, asked>> /\ (Flush => disk' = {fs})
      BY <1>f, <1>8, SyncKeepsDiskSafe DEF CleanupRunTemporary, RolledBack, history
  <2> QED
      BY <1>f, <1>c, <1>p, <1>t, <1>8, <2>1
      DEF CleanupRunTemporary, Flush, FlushFails, Goto, Leave, RolledBack, SafeInv, ControlSafe, AnswerSafe, Unguarded, ControlShape,
          Undisturbed, history, memory, Recovering, InitialAt, Undoable, NewPair, Outcomes, HalfPair
<1>9. CASE CleanupRefused
    BY <1>f, <1>c, <1>p, <1>q, <1>t, <1>9
    DEF CleanupRefused, Goto, Leave, Undo, Die, SafeInv, ControlSafe, AnswerSafe, Unguarded, ControlShape, Undisturbed,
        history, memory, Recovering, InitialAt, Undoable, NewPair, Outcomes, HalfPair
<1>10. CASE CreateStaging
  <2>1. PICK d \in Dirs \ {fs.delivery, fs.previous} :
            Mutate([fs EXCEPT !.staging = d, !.content[d] = "empty"])
      BY <1>10 DEF CreateStaging
  <2>2. /\ fs' = [fs EXCEPT !.staging = d, !.content[d] = "empty"] /\ disk' = disk \cup {fs'}
        /\ fs' \in Namespace /\ fs.journal = None
      BY <1>c, <1>t, <1>10, <2>1 DEF CreateStaging, Mutate, ControlShape, TypeInv, TypeOK
  <2>3. /\ fs'.journal = None /\ fs'.delivery = fs.delivery /\ fs'.previous = fs.previous
        /\ \A x \in Dirs : x # d => fs'.content[x] = fs.content[x]
      BY <1>f, <2>2 DEF Namespace
  <2>4. Pair(fs') = Pair(fs) /\ Recovered(fs') = fs' /\ Recovered(fs) = fs /\ Whole(fs')
    <3>1. Whole(fs)
        BY <1>f DEF DiskSafe
    <3> QED BY <1>f, <2>1, <2>2, <2>3, <3>1 DEF Pair, Recovered, ValueOf, Whole, Namespace
  <2>5. UNCHANGED <<start, asked, answer>>
      BY <1>10 DEF CreateStaging, history
  <2>6. DiskSafe'
    <3>1. Pair(Recovered(fs')) \in Outcomes
        BY <1>f, <2>4 DEF DiskSafe
    <3>2. Mutate(fs') /\ fs'.journal = None
        BY <2>2, <2>3 DEF Mutate
    <3> QED BY <1>f, <2>4, <2>5, <3>1, <3>2, MutateKeepsDiskSafe
  <2>7. ControlSafe'
      BY <1>f, <1>10, <2>2, <2>3, <2>4, <2>5 DEF CreateStaging, Goto, ControlSafe, Undisturbed
  <2>8. AnswerSafe'
      BY <1>f, <1>c, <1>10, <2>2, <2>3, <2>4, <2>5 DEF CreateStaging, Goto, AnswerSafe, Unguarded, ControlShape, NewPair, Outcomes, HalfPair
  <2> QED BY <1>t, <2>6, <2>7, <2>8 DEF SafeInv
<1>11. CASE BuildPart
  <2>1. fs' = [fs EXCEPT !.content[fs.staging] = "partial"] /\ fs' \in Namespace /\ fs.journal = None /\ disk' = disk \cup {fs'}
      BY <1>f, <1>c, <1>t, <1>11 DEF BuildPart, Mutate, MayRemoveStaging, ControlShape, TypeInv, TypeOK
  <2>2. /\ fs'.journal = None /\ fs'.delivery = fs.delivery /\ fs'.previous = fs.previous
        /\ \A x \in Dirs : x # fs.staging => fs'.content[x] = fs.content[x]
      BY <1>f, <2>1 DEF Namespace
  <2>3. Pair(fs') = Pair(fs) /\ Recovered(fs') = fs' /\ Recovered(fs) = fs /\ Whole(fs')
    <3>1. Whole(fs) /\ fs.staging # fs.delivery /\ fs.staging # fs.previous
        BY <1>f DEF DistinctNames, DiskSafe
    <3> QED BY <1>f, <2>1, <2>2, <3>1 DEF Pair, Recovered, ValueOf, Whole, Namespace
  <2>4. UNCHANGED <<start, asked, answer>>
      BY <1>11 DEF BuildPart, memory, history
  <2>5. DiskSafe'
      BY <1>f, <2>1, <2>2, <2>3, <2>4 DEF DiskSafe, Undoable, NewPair, Outcomes, HalfPair
  <2>6. ControlSafe'
      BY <1>f, <1>c, <1>11, <2>1, <2>2, <2>3, <2>4
      DEF BuildPart, MayRemoveStaging, Goto, memory, Namespace, Entry, ControlSafe, ControlShape, Undisturbed, NewPair, Outcomes, HalfPair
  <2>7. AnswerSafe'
      BY <1>f, <1>c, <1>11, <2>1, <2>2, <2>3, <2>4
      DEF BuildPart, MayRemoveStaging, Goto, memory, AnswerSafe, Unguarded, ControlShape, NewPair, Outcomes, HalfPair
  <2> QED BY <1>t, <2>5, <2>6, <2>7 DEF SafeInv
<1>12. CASE BuildComplete
  <2>1. fs' = [fs EXCEPT !.content[fs.staging] = "complete"] /\ fs' \in Namespace /\ fs.journal = None /\ disk' = disk \cup {fs'}
      BY <1>f, <1>c, <1>t, <1>12 DEF BuildComplete, Mutate, MayRemoveStaging, ControlShape, TypeInv, TypeOK
  <2>2. /\ fs'.journal = None /\ fs'.delivery = fs.delivery /\ fs'.previous = fs.previous
        /\ \A x \in Dirs : x # fs.staging => fs'.content[x] = fs.content[x]
      BY <1>f, <2>1 DEF Namespace
  <2>3. Pair(fs') = Pair(fs) /\ Recovered(fs') = fs' /\ Recovered(fs) = fs /\ Whole(fs')
    <3>1. Whole(fs) /\ fs.staging # fs.delivery /\ fs.staging # fs.previous
        BY <1>f DEF DistinctNames, DiskSafe
    <3> QED BY <1>f, <2>1, <2>2, <3>1 DEF Pair, Recovered, ValueOf, Whole, Namespace
  <2>4. UNCHANGED <<start, asked, answer>>
      BY <1>12 DEF BuildComplete, memory, history
  <2>5. DiskSafe'
      BY <1>f, <2>1, <2>2, <2>3, <2>4 DEF DiskSafe, Undoable, NewPair, Outcomes, HalfPair
  <2>6. ControlSafe'
      BY <1>f, <1>c, <1>12, <2>1, <2>2, <2>3, <2>4
      DEF BuildComplete, MayRemoveStaging, Goto, memory, Namespace, Entry, ControlSafe, ControlShape, Undisturbed, NewPair, Outcomes, HalfPair
  <2>7. AnswerSafe'
      BY <1>f, <1>c, <1>12, <2>1, <2>2, <2>3, <2>4
      DEF BuildComplete, MayRemoveStaging, Goto, memory, AnswerSafe, Unguarded, ControlShape, NewPair, Outcomes, HalfPair
  <2> QED BY <1>t, <2>5, <2>6, <2>7 DEF SafeInv
<1>13. CASE BuildFails
    BY <1>f, <1>c, <1>p, <1>q, <1>t, <1>13
    DEF BuildFails, Goto, Leave, Undo, Die, SafeInv, ControlSafe, AnswerSafe, Unguarded, ControlShape, Undisturbed,
        history, memory, Recovering, InitialAt, Undoable, NewPair, Outcomes, HalfPair
<1>14. CASE BeginPublish
  <2>1. /\ UNCHANGED <<fs, disk>> /\ asked' = fs.staging /\ answer' = "pending" /\ pc' = "journal"
        /\ start' = Pair(fs)
        /\ txn' = [current |-> fs.delivery, previous |-> fs.previous,
                   staging |-> fs.staging, overwrite |-> fs.content[fs.delivery] # "empty"]
      BY <1>14 DEF BeginPublish, LeaseRootValid, DeliveryNonempty, Pair
  <2>2. fs.journal = None /\ Undisturbed /\ fs.content[fs.staging] = "complete" /\ Whole(fs)
      BY <1>f, <1>c, <1>14 DEF BeginPublish, ControlShape, ControlSafe, DiskSafe
  <2>3. \A ns \in disk : ns.journal = None /\ Whole(ns) /\ Pair(Recovered(ns)) = start'
      BY <1>f, <2>1, <2>2 DEF Undisturbed, Recovered, DiskSafe
  <2>4. DiskSafe'
      BY <2>1, <2>3 DEF DiskSafe, Outcomes
  <2>5. Undoable(fs, txn)'
      BY <2>1, <2>2 DEF Undoable, Pair, Whole
  <2>6. ControlSafe'
      BY <2>1, <2>2, <2>5 DEF ControlSafe, Undisturbed
  <2>7. AnswerSafe'
      BY <2>1, <2>3 DEF AnswerSafe, Unguarded
  <2> QED BY <1>t, <2>4, <2>6, <2>7 DEF SafeInv
<1>15. CASE RefuseDestination
    BY <1>f, <1>c, <1>p, <1>q, <1>t, <1>15
    DEF RefuseDestination, Goto, Leave, Undo, Die, SafeInv, ControlSafe, AnswerSafe, Unguarded, ControlShape, Undisturbed,
        history, memory, Recovering, InitialAt, Undoable, NewPair, Outcomes, HalfPair
<1>16. CASE Signal
    BY <1>f, <1>c, <1>p, <1>q, <1>t, <1>16
    DEF Signal, Goto, Leave, Undo, Die, SafeInv, ControlSafe, AnswerSafe, Unguarded, ControlShape, Undisturbed,
        history, memory, Recovering, InitialAt, Undoable, NewPair, Outcomes, HalfPair
<1>17. CASE CancelledBeforeJournal
    BY <1>f, <1>c, <1>p, <1>q, <1>t, <1>17
    DEF CancelledBeforeJournal, Goto, Leave, Undo, Die, SafeInv, ControlSafe, AnswerSafe, Unguarded, ControlShape, Undisturbed,
        history, memory, Recovering, InitialAt, Undoable, NewPair, Outcomes, HalfPair
<1>18. CASE WriteJournal
  <2>1. /\ txn \in Journal /\ txn # None /\ Undoable(fs, txn)
        /\ answer = "pending" /\ pc # "commit_unlinked"
      BY <1>f, <1>c, <1>18 DEF WriteJournal, ControlSafe, ControlShape
  <2>4. /\ [fs EXCEPT !.journal = txn] \in Namespace /\ Shape([fs EXCEPT !.journal = txn], txn)
        /\ [fs EXCEPT !.journal = txn].journal = txn
        /\ [fs EXCEPT !.journal = txn].content = fs.content
      BY <1>f, <1>c, <1>18, <2>1 DEF WriteJournal, ControlShape, Shape, Names, Namespace
  <2>5. UNCHANGED <<start, asked, answer, txn>> /\ fs' = [fs EXCEPT !.journal = txn] /\ Mutate([fs EXCEPT !.journal = txn]) /\ disk' = disk \cup {fs'}
      BY <1>18 DEF WriteJournal, Goto, history, memory, Mutate
  <2>6. DiskSafe' /\ Undoable(fs, txn)' /\ Pair(Recovered(fs')) = start
      BY <1>f, <2>1, <2>4, <2>5, JournalledStepSafe
  <2>7. ControlSafe'
      BY <1>f, <1>18, <2>1, <2>4, <2>5, <2>6 DEF WriteJournal, Goto, ControlSafe, memory
  <2>8. AnswerSafe'
      BY <1>f, <1>18, <2>1, <2>5, <2>6 DEF WriteJournal, Goto, AnswerSafe, Unguarded, memory
  <2> QED BY <1>t, <2>6, <2>7, <2>8 DEF SafeInv
<1>19. CASE SyncJournal
  <2>1. DiskSafe' /\ disk' \subseteq disk /\ fs' = fs /\ UNCHANGED <<start, asked>> /\ (Flush => disk' = {fs})
      BY <1>f, <1>19, SyncKeepsDiskSafe DEF SyncJournal, RolledBack, history
  <2> QED
      BY <1>f, <1>c, <1>p, <1>t, <1>19, <2>1
      DEF SyncJournal, Flush, FlushFails, Goto, Leave, RolledBack, SafeInv, ControlSafe, AnswerSafe, Unguarded, ControlShape,
          Undisturbed, history, memory, Recovering, InitialAt, Undoable, NewPair, Outcomes, HalfPair
<1>20. CASE MovePrevious
  <2>1. /\ txn \in Journal /\ txn # None /\ Undoable(fs, txn)
        /\ answer = "pending" /\ pc # "commit_unlinked"
      BY <1>f, <1>c, <1>20 DEF MovePrevious, ControlSafe, ControlShape
  <2>2. fs.staging # None /\ fs.journal = txn /\ txn.overwrite /\ InitialAt
      BY <1>f, <1>c, <1>20, <2>1 DEF MovePrevious, ControlShape, Shape, Names, Journal, InitialAt
  <2>3. Names(ExchangePrevious(fs)) = <<txn.current, txn.staging, txn.previous>>
      BY <1>f, <2>2, ExchangePreviousPermutes DEF InitialAt, Names
  <2>4. /\ ExchangePrevious(fs) \in Namespace /\ Shape(ExchangePrevious(fs), txn)
        /\ ExchangePrevious(fs).journal = txn /\ ExchangePrevious(fs).content = fs.content
      BY <1>f, <2>2, <2>3, ExchangePreviousPermutes DEF Shape
  <2>5. UNCHANGED <<start, asked, answer, txn>> /\ fs' = ExchangePrevious(fs) /\ Mutate(ExchangePrevious(fs)) /\ disk' = disk \cup {fs'}
      BY <1>20 DEF MovePrevious, Goto, history, memory, Mutate
  <2>6. DiskSafe' /\ Undoable(fs, txn)' /\ Pair(Recovered(fs')) = start
      BY <1>f, <2>1, <2>4, <2>5, JournalledStepSafe
  <2>7. ControlSafe'
      BY <1>f, <1>20, <2>1, <2>4, <2>5, <2>6 DEF MovePrevious, Goto, ControlSafe, memory
  <2>8. AnswerSafe'
      BY <1>f, <1>20, <2>1, <2>5, <2>6 DEF MovePrevious, Goto, AnswerSafe, Unguarded, memory
  <2> QED BY <1>t, <2>6, <2>7, <2>8 DEF SafeInv
<1>21. CASE SyncPrevious
  <2>1. DiskSafe' /\ disk' \subseteq disk /\ fs' = fs /\ UNCHANGED <<start, asked>> /\ (Flush => disk' = {fs})
      BY <1>f, <1>21, SyncKeepsDiskSafe DEF SyncPrevious, RolledBack, history
  <2> QED
      BY <1>f, <1>c, <1>p, <1>t, <1>21, <2>1
      DEF SyncPrevious, Flush, FlushFails, Goto, Leave, RolledBack, SafeInv, ControlSafe, AnswerSafe, Unguarded, ControlShape,
          Undisturbed, history, memory, Recovering, InitialAt, Undoable, NewPair, Outcomes, HalfPair
<1>22. CASE NotCancelled
    BY <1>f, <1>c, <1>p, <1>q, <1>t, <1>22
    DEF NotCancelled, Goto, Leave, Undo, Die, SafeInv, ControlSafe, AnswerSafe, Unguarded, ControlShape, Undisturbed,
        history, memory, Recovering, InitialAt, Undoable, NewPair, Outcomes, HalfPair
<1>23. CASE Cancelled
    BY <1>f, <1>c, <1>p, <1>q, <1>t, <1>23
    DEF Cancelled, Goto, Leave, Undo, Die, SafeInv, ControlSafe, AnswerSafe, Unguarded, ControlShape, Undisturbed,
        history, memory, Recovering, InitialAt, Undoable, NewPair, Outcomes, HalfPair
<1>24. CASE ExchangeDelivered
  <2>1. /\ txn \in Journal /\ txn # None /\ Undoable(fs, txn)
        /\ answer = "pending" /\ pc # "commit_unlinked"
      BY <1>f, <1>c, <1>24 DEF ExchangeDelivered, ControlSafe, ControlShape
  <2>2. /\ fs.journal = txn
        /\ Names(fs) = IF txn.overwrite THEN <<txn.current, txn.staging, txn.previous>>
                                        ELSE <<txn.current, txn.previous, txn.staging>>
      BY <1>c, <1>24 DEF ExchangeDelivered, ControlShape, PreparedAt, InitialAt
  <2>4. /\ CommitExchange(fs, txn) \in Namespace /\ Shape(CommitExchange(fs, txn), txn)
        /\ CommitExchange(fs, txn).journal = txn /\ CommitExchange(fs, txn).content = fs.content
      BY <1>f, <2>1, <2>2, CommitExchangeCommits
  <2>5. UNCHANGED <<start, asked, answer, txn>> /\ fs' = CommitExchange(fs, txn) /\ Mutate(CommitExchange(fs, txn)) /\ disk' = disk \cup {fs'}
      BY <1>24 DEF ExchangeDelivered, Goto, history, memory, Mutate
  <2>6. DiskSafe' /\ Undoable(fs, txn)' /\ Pair(Recovered(fs')) = start
      BY <1>f, <2>1, <2>4, <2>5, JournalledStepSafe
  <2>7. ControlSafe'
      BY <1>f, <1>24, <2>1, <2>4, <2>5, <2>6 DEF ExchangeDelivered, Goto, ControlSafe, memory
  <2>8. AnswerSafe'
      BY <1>f, <1>24, <2>1, <2>5, <2>6 DEF ExchangeDelivered, Goto, AnswerSafe, Unguarded, memory
  <2> QED BY <1>t, <2>6, <2>7, <2>8 DEF SafeInv
<1>25. CASE SyncDelivery
  <2>1. DiskSafe' /\ disk' \subseteq disk /\ fs' = fs /\ UNCHANGED <<start, asked>> /\ (Flush => disk' = {fs})
      BY <1>f, <1>25, SyncKeepsDiskSafe DEF SyncDelivery, RolledBack, history
  <2> QED
      BY <1>f, <1>c, <1>p, <1>t, <1>25, <2>1
      DEF SyncDelivery, Flush, FlushFails, Goto, Leave, RolledBack, SafeInv, ControlSafe, AnswerSafe, Unguarded, ControlShape,
          Undisturbed, history, memory, Recovering, InitialAt, Undoable, NewPair, Outcomes, HalfPair
<1>26. CASE VerifyCommit
    BY <1>f, <1>c, <1>p, <1>q, <1>t, <1>26
    DEF VerifyCommit, Goto, Leave, Undo, Die, SafeInv, ControlSafe, AnswerSafe, Unguarded, ControlShape, Undisturbed,
        history, memory, Recovering, InitialAt, Undoable, NewPair, Outcomes, HalfPair
<1>27. CASE UnlinkJournal
  <2>1. /\ txn \in Journal /\ Undoable(fs, txn) /\ CommittedAt /\ Whole(fs)
        /\ answer = "pending" /\ pc = "commit_cleanup"
      BY <1>f, <1>c, <1>27 DEF UnlinkJournal, ControlSafe, ControlShape, DiskSafe
  <2>2. /\ fs' = [fs EXCEPT !.journal = None] /\ disk' = disk \cup {fs'} /\ pc' = "commit_unlinked"
        /\ UNCHANGED <<start, asked, answer, txn>>
      BY <1>27 DEF UnlinkJournal, Mutate, Goto, history
  <2>3. fs'.journal = None /\ Recovered(fs') = fs' /\ Whole(fs') /\ Pair(fs') = Pair(fs)
        /\ Undoable(fs', txn)
      BY <1>f, <2>1, <2>2 DEF Namespace, Recovered, Whole, Pair, ValueOf, Undoable
  <2>4. Pair(fs') = NewPair
      BY <1>f, <2>1, <2>3, CommittedIsNew DEF CommittedAt
  <2>5. DiskSafe'
      BY <1>f, <2>2, <2>3, <2>4 DEF DiskSafe, Undoable, NewPair, Outcomes, HalfPair
  <2>6. ControlSafe'
      BY <2>2, <2>3, <2>4 DEF ControlSafe, Undoable, NewPair, Outcomes, HalfPair
  <2>7. AnswerSafe'
      BY <2>1, <2>2 DEF AnswerSafe, Unguarded
  <2> QED BY <1>t, <2>5, <2>6, <2>7 DEF SafeInv
<1>28. CASE Commit
  <2>1. DiskSafe' /\ disk' \subseteq disk /\ fs' = fs /\ UNCHANGED <<start, asked>> /\ (Flush => disk' = {fs})
      BY <1>f, <1>28, SyncKeepsDiskSafe DEF Commit, RolledBack, history
  <2> QED
      BY <1>f, <1>c, <1>p, <1>t, <1>28, <2>1
      DEF Commit, Flush, FlushFails, Goto, Leave, RolledBack, SafeInv, ControlSafe, AnswerSafe, Unguarded, ControlShape,
          Undisturbed, history, memory, Recovering, InitialAt, Undoable, NewPair, Outcomes, HalfPair
<1>29. CASE TransactionFails
  <2>1. /\ txn \in Journal /\ Undoable(fs, txn) /\ answer = "pending"
        /\ pc' = "rollback" /\ UNCHANGED <<start, asked, answer, txn>>
        /\ pc # "rollback" /\ (pc = "commit_unlinked" => CleanupSyncMayFail /\ fs.journal = None /\ FlushFails)
        /\ fs.journal = None => InitialAt \/ CleanupSyncMayFail
        /\ fs.journal # None => fs.journal = txn
      BY <1>f, <1>c, <1>29 DEF TransactionFails, Undo, history, ControlSafe, ControlShape
  <2>2. /\ DiskSafe' /\ fs'.journal = fs.journal /\ (fs'.journal = None => fs' = fs) /\ fs'.content = fs.content
        /\ pc = "commit_unlinked" \/ \A ns \in disk' : Pair(Recovered(ns)) = start
    <3>1. CASE UNCHANGED <<fs, disk>>
        BY <1>f, <1>q, <2>1, <3>1 DEF AnswerSafe, Unguarded
    <3>2. CASE FlushFails
        BY <1>f, <2>1, <3>2, SyncKeepsDiskSafe DEF AnswerSafe, Unguarded
    <3>3. CASE pc = "previous_move" /\ Mutate(ExchangePrevious(fs))
      <4>1. fs.staging # None /\ fs.journal = txn /\ txn.overwrite /\ InitialAt /\ txn # None
          BY <1>f, <1>c, <2>1, <3>3 DEF ControlShape, Shape, Names, Journal, InitialAt
      <4>2. Names(ExchangePrevious(fs)) = <<txn.current, txn.staging, txn.previous>>
          BY <1>f, <4>1, ExchangePreviousPermutes DEF InitialAt, Names
      <4>3. /\ ExchangePrevious(fs) \in Namespace /\ Shape(ExchangePrevious(fs), txn)
            /\ ExchangePrevious(fs).journal = txn /\ ExchangePrevious(fs).content = fs.content
          BY <1>f, <4>1, <4>2, ExchangePreviousPermutes DEF Shape
      <4>4. DiskSafe' /\ Pair(Recovered(ExchangePrevious(fs))) = start
          BY <1>f, <2>1, <3>3, <4>1, <4>3, JournalledStepSafe
      <4> QED BY <1>f, <2>1, <3>3, <4>1, <4>3, <4>4 DEF Mutate, AnswerSafe, Unguarded
    <3>4. CASE pc = "delivery_exchange" /\ Mutate(CommitExchange(fs, txn))
      <4>1. /\ fs.journal = txn /\ txn # None
            /\ Names(fs) = IF txn.overwrite THEN <<txn.current, txn.staging, txn.previous>>
                                            ELSE <<txn.current, txn.previous, txn.staging>>
          BY <1>c, <2>1, <3>4 DEF ControlShape, PreparedAt, InitialAt
      <4>2. /\ CommitExchange(fs, txn) \in Namespace /\ Shape(CommitExchange(fs, txn), txn)
            /\ CommitExchange(fs, txn).journal = txn /\ CommitExchange(fs, txn).content = fs.content
          BY <1>f, <2>1, <4>1, CommitExchangeCommits
      <4>3. DiskSafe' /\ Pair(Recovered(CommitExchange(fs, txn))) = start
          BY <1>f, <2>1, <3>4, <4>1, <4>2, JournalledStepSafe
      <4> QED BY <1>f, <2>1, <3>4, <4>1, <4>2, <4>3 DEF Mutate, AnswerSafe, Unguarded
    <3> QED BY <1>29, <3>1, <3>2, <3>3, <3>4 DEF TransactionFails
  <2>3. ControlSafe'
    <3>1. Undoable(fs, txn)'
        BY <2>1, <2>2 DEF Undoable, ValueOf
    <3> QED BY <2>1, <2>2, <3>1 DEF ControlSafe, InitialAt
  <2>4. AnswerSafe'
      BY <2>1, <2>2 DEF AnswerSafe, Unguarded
  <2> QED BY <1>t, <2>2, <2>3, <2>4 DEF SafeInv
<1>30. CASE RollBack
  <2>1. /\ txn \in Journal /\ Shape(fs, txn) /\ fs.journal \in {None, txn} /\ Undoable(fs, txn)
        /\ UNCHANGED <<start, asked, answer, txn, pc>> /\ pc = "rollback"
        /\ fs' = RollbackExchange(fs, txn) /\ Mutate(fs') /\ disk' = disk \cup {fs'}
      BY <1>f, <1>c, <1>30 DEF RollBack, Mutate, ControlShape, ControlSafe, memory, history
  <2>2. /\ fs' \in Namespace /\ Shape(fs', txn) /\ fs'.journal = fs.journal /\ fs'.content = fs.content
      BY <1>f, <2>1, RollbackExchangeKeepsShape
  <2>3. Undoable(fs', txn) /\ Undoable(fs, txn)'
      BY <2>1, <2>2 DEF Undoable, ValueOf
(* Without a journal the rollback goes on under the eyes of the disk.       *)
  <2>4. CASE fs.journal = None
    <3>1. CleanupSyncMayFail /\ answer = "pending"
      <4> SUFFICES ASSUME ~CleanupSyncMayFail PROVE FALSE
          BY <1>f, <2>1, <2>4 DEF ControlSafe
      <4>1. PublicationState(fs, txn) = "initial"
          BY <1>f, <2>1, <2>4, PublicationStateReads DEF ControlSafe, InitialAt
      <4> QED BY <1>30, <4>1 DEF RollBack, RollbackExchange
    <3>2. Pair(Recovered(fs')) \in Outcomes /\ Whole(fs') /\ fs'.journal = None
        BY <2>1, <2>2, <2>3, <2>4, <3>1, HalfWayIsOutcome, UndoableIsWhole DEF Recovered
    <3>3. DiskSafe'
        BY <1>f, <2>1, <3>2, MutateKeepsDiskSafe
    <3>4. ControlSafe' /\ AnswerSafe'
        BY <2>1, <2>3, <3>1, <3>2 DEF ControlSafe, AnswerSafe, Unguarded
    <3> QED BY <1>t, <3>3, <3>4 DEF SafeInv
  <2>5. CASE fs.journal # None
    <3>1. DiskSafe' /\ Pair(Recovered(fs')) = start
        BY <1>f, <1>p, <2>1, <2>2, <2>5, JournalledStepSafe
    <3>2. ControlSafe'
        BY <2>1, <2>2, <2>3, <2>5 DEF ControlSafe
    <3>3. AnswerSafe'
      <4>1. answer # "published"
          BY <1>f, <2>5 DEF AnswerSafe
      <4> QED BY <1>f, <2>1, <2>2, <2>5, <3>1, <4>1 DEF AnswerSafe, Unguarded
    <3> QED BY <1>t, <3>1, <3>2, <3>3 DEF SafeInv
  <2> QED BY <2>4, <2>5
<1>31. CASE SyncRollback
  <2>1. DiskSafe' /\ disk' = {fs} /\ fs' = fs /\ UNCHANGED <<start, asked, answer, txn>>
        /\ pc = "rollback" /\ pc' = "rollback_journal" /\ txn \in Journal /\ Undoable(fs, txn)
      BY <1>f, <1>c, <1>31, SyncKeepsDiskSafe DEF SyncRollback, Goto, history, ControlShape, ControlSafe
  <2>2. Pair(Recovered(fs)) = start
    <3>1. CASE fs.journal = None
      <4>1. Names(fs) = <<txn.current, txn.previous, txn.staging>>
          BY <1>31, <2>1 DEF SyncRollback, PublicationState
      <4> QED BY <1>f, <1>p, <2>1, <3>1, <4>1, InitialIsStart
    <3> QED BY <1>p, <3>1
  <2>3. ControlSafe'
      BY <2>1 DEF ControlSafe, Undoable
  <2>4. AnswerSafe'
    <3>1. answer = "published" => fs.journal = None /\ Pair(fs) = NewPair
        BY <1>f DEF AnswerSafe
    <3> QED BY <2>1, <2>2, <3>1 DEF AnswerSafe, NewPair
  <2> QED BY <1>t, <2>1, <2>3, <2>4 DEF SafeInv
<1>32. CASE KeepJournal
    BY <1>f, <1>c, <1>p, <1>q, <1>t, <1>32
    DEF KeepJournal, Goto, Leave, Undo, Die, SafeInv, ControlSafe, AnswerSafe, Unguarded, ControlShape, Undisturbed,
        history, memory, Recovering, InitialAt, Undoable, NewPair, Outcomes, HalfPair, RolledBack, TypeInv, TypeOK
<1>33. CASE RemoveJournal
  <2>1. /\ txn \in Journal /\ InitialAt /\ fs.journal \in {None, txn}
        /\ UNCHANGED <<start, asked, answer, txn>> /\ pc = "rollback_journal" /\ pc' = "rollback_unlinked"
        /\ fs' = [fs EXCEPT !.journal = None] /\ disk' = disk \cup {fs'}
      BY <1>c, <1>33 DEF RemoveJournal, Mutate, ControlShape, Goto, history
  <2>2. /\ fs'.journal = None /\ Recovered(fs') = fs' /\ Pair(fs') = Pair(fs) /\ Whole(fs')
        /\ Names(fs') = Names(fs)
      BY <1>f, <2>1 DEF Namespace, Recovered, Pair, ValueOf, Whole, DiskSafe, Names
  <2>3. Pair(fs) = Pair(Recovered(fs))
      BY <1>f, <1>p, <2>1, InitialIsStart DEF InitialAt
  <2>4. DiskSafe'
      BY <1>f, <2>1, <2>2, <2>3 DEF DiskSafe, Undoable, NewPair, Outcomes, HalfPair
  <2>5. ControlSafe'
    <3>1. Undoable(fs, txn) /\ fs'.content = fs.content
        BY <1>f, <2>1 DEF ControlSafe, Namespace
    <3>2. Undoable(fs, txn)'
        BY <2>1, <3>1 DEF Undoable, ValueOf
    <3> QED BY <2>1, <2>2, <3>2 DEF ControlSafe
  <2>6. AnswerSafe'
    <3>1. answer = "published" => fs.journal = None /\ Pair(fs) = NewPair
        BY <1>f DEF AnswerSafe, Unguarded
    <3> QED BY <1>f, <2>1, <2>2, <2>3, <3>1 DEF AnswerSafe, Unguarded, NewPair, Outcomes, HalfPair
  <2> QED BY <1>t, <2>4, <2>5, <2>6 DEF SafeInv
<1>34. CASE SyncRemoval
  <2>1. DiskSafe' /\ disk' \subseteq disk /\ fs' = fs /\ UNCHANGED <<start, asked>> /\ (Flush => disk' = {fs})
      BY <1>f, <1>34, SyncKeepsDiskSafe DEF SyncRemoval, RolledBack, history
  <2> QED
      BY <1>f, <1>c, <1>p, <1>t, <1>34, <2>1
      DEF SyncRemoval, Flush, FlushFails, Goto, Leave, RolledBack, SafeInv, ControlSafe, AnswerSafe, Unguarded, ControlShape,
          Undisturbed, history, memory, Recovering, InitialAt, Undoable, NewPair, Outcomes, HalfPair, TypeInv, TypeOK
<1>35. CASE RollbackFails
  <2>1. DiskSafe' /\ disk' \subseteq disk /\ fs' = fs /\ UNCHANGED <<start, asked>> /\ (Flush => disk' = {fs})
      BY <1>f, <1>35, SyncKeepsDiskSafe DEF RollbackFails, RolledBack, history
  <2> QED
      BY <1>f, <1>c, <1>p, <1>t, <1>35, <2>1
      DEF RollbackFails, Flush, FlushFails, Goto, Leave, RolledBack, SafeInv, ControlSafe, AnswerSafe, Unguarded, ControlShape,
          Undisturbed, history, memory, Recovering, InitialAt, Undoable, NewPair, Outcomes, HalfPair
<1>36. CASE Kill
    BY <1>f, <1>c, <1>p, <1>q, <1>t, <1>36
    DEF Kill, Goto, Leave, Undo, Die, SafeInv, ControlSafe, AnswerSafe, Unguarded, ControlShape, Undisturbed,
        history, memory, Recovering, InitialAt, Undoable, NewPair, Outcomes, HalfPair
<1>37. CASE PowerLoss
    BY <1>f, <1>t, <1>37 DEF PowerLoss, Die, Leave, SafeInv, DiskSafe, ControlSafe, AnswerSafe, Unguarded, Undoable, NewPair, Outcomes, HalfPair, Undisturbed
<1>38. CASE UNCHANGED vars
    BY <1>f, <1>t, <1>q, <1>38 DEF vars, memory, history, SafeInv, ControlSafe, AnswerSafe, Unguarded, Undoable, NewPair, Outcomes, HalfPair, Undisturbed, InitialAt
<1> QED
    BY <1>1, <1>2, <1>3, <1>4, <1>5, <1>6, <1>7, <1>8, <1>9, <1>10, <1>11, <1>12, <1>13, <1>14, <1>15, <1>16, <1>17, <1>18, <1>19, <1>20, <1>21, <1>22, <1>23, <1>24, <1>25, <1>26, <1>27, <1>28, <1>29, <1>30, <1>31, <1>32, <1>33, <1>34, <1>35, <1>36, <1>37, <1>38 DEF Next, Proceed

-----------------------------------------------------------------------------
(* Crash safety                                                             *)

(* SafeInv holds in every reachable state.                                  *)
LEMMA PublicationSafeInv == Spec => []SafeInv
BY InitSafeInv, NextSafeInv, PTL DEF Spec

(* Whatever instant the process dies or the power fails at, recovery leaves *)
(* delivery and delivery.previous as the run found them or both switched.   *)
THEOREM PublicationCrashSafe ==
    ASSUME CleanupSyncMayFail = FALSE
    PROVE  Spec => []PowerLossSafe
<1>1. SafeInv => PowerLossSafe
    BY DEF SafeInv, TypeInv, DiskShape, DiskSafe, PowerLossSafe, Outcomes
<1> QED BY <1>1, PublicationSafeInv, PTL

(* Also where that fsync fails, at most the backup is lost: recovery leaves *)
(* the delivery the run found or the one it published, and beside it a      *)
(* backup that is one of the three directories of the transaction.          *)
DeliveryKept ==
    \A ns \in disk \cup {fs} :
        LET pair == Pair(Recovered(ns))
        IN  \/ pair \in {start, NewPair}
            \/ start.delivery # Empty /\ pair.delivery = start.delivery /\ pair.previous = asked

(* Whichever system call fails, and whenever the process or the power does. *)
THEOREM PublicationKeepsDelivery == Spec => []DeliveryKept
<1>1. SafeInv => DeliveryKept
    BY DEF SafeInv, TypeInv, DiskShape, DiskSafe, DeliveryKept, Outcomes, HalfPair
<1> QED BY <1>1, PublicationSafeInv, PTL

(* What the publish call told its run is what every later power loss and    *)
(* recovery leave on disk.                                                  *)
THEOREM PublicationTruthful == Spec => []AnswerTruthful
<1>1. SafeInv => AnswerTruthful
    BY DEF SafeInv, AnswerSafe, AnswerTruthful, Recovered
<1> QED BY <1>1, PublicationSafeInv, PTL

(* No reader of either directory ever meets one built or removed in part.   *)
THEOREM PublicationNeverTorn == Spec => []NeverTorn
<1>1. SafeInv => NeverTorn
  <2> SUFFICES ASSUME SafeInv, NEW ns \in disk
               PROVE  ValueOf(ns, ns.delivery) # Torn /\ ValueOf(ns, ns.previous) # Torn
      BY DEF SafeInv, TypeInv, DiskShape, NeverTorn, Pair
  <2>1. ns \in Namespace /\ Whole(ns)
      BY DEF SafeInv, TypeInv, DiskShape, WellFormed, DiskSafe
  <2>2. /\ ns.delivery \in Dirs /\ ns.previous \in Dirs
        /\ ns.content[ns.delivery] \in Contents /\ ns.content[ns.previous] \in Contents
      BY <2>1 DEF Namespace
  <2> QED BY <2>1, <2>2, ConstantsAssumption DEF ValueOf, Whole, Contents
<1> QED BY <1>1, PublicationSafeInv, PTL

-----------------------------------------------------------------------------
(* The transaction implements AtomicPublication, as long as the fsync that  *)
(* follows the commit's journal unlink does not fail: journals, exchanges,  *)
(* rollbacks, crashes and recoveries are invisible, both directories change *)
(* at once or never.  While a state the disk may come back to holds the     *)
(* journal the decided outcome is what the publication found, otherwise it  *)
(* is what every state of the disk shows.  So it can change only in a step  *)
(* that drops the journal from the disk, and no step brings it back unless  *)
(* a publication is pending.                                                *)

\* The journal may still be there after a loss of power.
Open == \E ns \in disk : ns.journal # None

RefInv ==
    /\ SafeInv
    /\ pc = "commit_unlinked" => Open
    /\ ~Open => \A ns \in disk : Pair(ns) = Pair(fs)
    /\ answer = "none" => ~Open /\ Pair(fs) = start
    /\ answer # "none" => asked \notin {start.delivery, start.previous}

-----------------------------------------------------------------------------
(* What a step of the process or its environment can do                     *)

\* Nothing moves; the disk settles on one of its states; or a name changes,
\* which is visible only under a journal.
MoveOfFiles ==
    \/ UNCHANGED <<fs, disk>>
    \/ fs' \in disk /\ disk' = {fs'}
    \/ /\ disk' = disk \cup {fs'}
       /\ IF fs'.journal = None THEN Pair(fs') = Pair(fs)
                                ELSE answer = "pending" \/ fs.journal # None

\* The caller learns nothing, begins a publication, or gets its answer.
MoveOfAnswer ==
    \/ UNCHANGED history
    \/ BeginPublish
    \/ /\ answer = "pending"
       /\ answer' \in {"published", "failed", "interrupted", "lost", "rollback_failed"}
       /\ answer' = "rollback_failed" => pc # "commit_unlinked" /\ disk' \subseteq disk
       /\ UNCHANGED <<start, asked>>

\* The commit's unlink leaves the journal on the disk until the next fsync.
MoveOfCommit ==
    pc' = "commit_unlinked" => disk \subseteq disk' /\ (pc = "commit_unlinked" \/ fs.journal # None)

Move == MoveOfFiles /\ MoveOfAnswer /\ MoveOfCommit

(* The exchanges of the transaction keep the journal where it is.           *)
LEMMA JournalSurvives ==
    ASSUME fs \in Namespace, fs.journal = txn, txn \in Journal
    PROVE  ExchangePrevious(fs).journal # None /\ CommitExchange(fs, txn).journal # None
BY NoneAssumption DEF ExchangePrevious, CommitExchange, ExchangeDelivery, ExchangeFresh, Namespace

(* Only the publication and the recovery of a journal touch the two names a *)
(* reader opens, every other step works in the staging directory: under     *)
(* SafeInv each step of the code is one of the moves above.                 *)
LEMMA EveryStepIsMove ==
    ASSUME CleanupSyncMayFail = FALSE
    PROVE  SafeInv /\ [Next]_vars => Move
<1> SUFFICES ASSUME SafeInv, [Next]_vars PROVE Move
    OBVIOUS
<1> USE ConstantsAssumption, NoneAssumption DEF Publishing, RollingBack
<1>f. /\ fs \in Namespace /\ disk \subseteq Namespace /\ fs \in disk
      /\ DistinctNames(fs) /\ ControlShape
      /\ verdict \in {"failed", "interrupted"}
    BY DEF SafeInv, TypeInv, TypeOK, DiskShape, WellFormed
<1>1. CASE Acquire
    BY <1>f, <1>1
    DEF Acquire, Goto, Leave, Undo, Die, RolledBack, Recovering, history, memory, Move, MoveOfFiles, MoveOfAnswer, MoveOfCommit, ControlShape
<1>2. CASE RecoverNothing
    BY <1>f, <1>2
    DEF RecoverNothing, Goto, Leave, Undo, Die, RolledBack, Recovering, history, memory, Move, MoveOfFiles, MoveOfAnswer, MoveOfCommit, ControlShape
<1>3. CASE RecoverJournal
    BY <1>f, <1>3
    DEF RecoverJournal, Goto, Leave, Undo, Die, RolledBack, Recovering, history, memory, Move, MoveOfFiles, MoveOfAnswer, MoveOfCommit, ControlShape
<1>4. CASE LeaveOnError
    BY <1>f, <1>4
    DEF LeaveOnError, Goto, Leave, Undo, Die, RolledBack, Recovering, history, memory, Move, MoveOfFiles, MoveOfAnswer, MoveOfCommit, ControlShape
<1>5. CASE CleanupRefused
    BY <1>f, <1>5
    DEF CleanupRefused, Goto, Leave, Undo, Die, RolledBack, Recovering, history, memory, Move, MoveOfFiles, MoveOfAnswer, MoveOfCommit, ControlShape
<1>6. CASE BuildFails
    BY <1>f, <1>6
    DEF BuildFails, Goto, Leave, Undo, Die, RolledBack, Recovering, history, memory, Move, MoveOfFiles, MoveOfAnswer, MoveOfCommit, ControlShape
<1>7. CASE RefuseDestination
    BY <1>f, <1>7
    DEF RefuseDestination, Goto, Leave, Undo, Die, RolledBack, Recovering, history, memory, Move, MoveOfFiles, MoveOfAnswer, MoveOfCommit, ControlShape
<1>8. CASE CancelledBeforeJournal
    BY <1>f, <1>8
    DEF CancelledBeforeJournal, Goto, Leave, Undo, Die, RolledBack, Recovering, history, memory, Move, MoveOfFiles, MoveOfAnswer, MoveOfCommit, ControlShape
<1>9. CASE NotCancelled
    BY <1>f, <1>9
    DEF NotCancelled, Goto, Leave, Undo, Die, RolledBack, Recovering, history, memory, Move, MoveOfFiles, MoveOfAnswer, MoveOfCommit, ControlShape
<1>10. CASE Cancelled
    BY <1>f, <1>10
    DEF Cancelled, Goto, Leave, Undo, Die, RolledBack, Recovering, history, memory, Move, MoveOfFiles, MoveOfAnswer, MoveOfCommit, ControlShape
<1>11. CASE VerifyCommit
    BY <1>f, <1>11
    DEF VerifyCommit, Goto, Leave, Undo, Die, RolledBack, Recovering, history, memory, Move, MoveOfFiles, MoveOfAnswer, MoveOfCommit, ControlShape
<1>12. CASE KeepJournal
    BY <1>f, <1>12
    DEF KeepJournal, Goto, Leave, Undo, Die, RolledBack, Recovering, history, memory, Move, MoveOfFiles, MoveOfAnswer, MoveOfCommit, ControlShape
<1>13. CASE Kill
    BY <1>f, <1>13
    DEF Kill, Goto, Leave, Undo, Die, RolledBack, Recovering, history, memory, Move, MoveOfFiles, MoveOfAnswer, MoveOfCommit, ControlShape
<1>14. CASE Signal
    BY <1>f, <1>14
    DEF Signal, Goto, Leave, Undo, Die, RolledBack, Recovering, history, memory, Move, MoveOfFiles, MoveOfAnswer, MoveOfCommit, ControlShape
<1>15. CASE BeginPublish
    BY <1>f, <1>15
    DEF BeginPublish, Goto, Leave, Undo, Die, RolledBack, Recovering, history, memory, Move, MoveOfFiles, MoveOfAnswer, MoveOfCommit, ControlShape
<1>16. CASE CleanupStaleTemporary
    BY <1>f, <1>16
    DEF CleanupStaleTemporary, Flush, FlushFails, Goto, Leave, Undo, Die, RolledBack, Recovering, history, memory, Move, MoveOfFiles, MoveOfAnswer, MoveOfCommit, ControlShape
<1>17. CASE CleanupRunTemporary
    BY <1>f, <1>17
    DEF CleanupRunTemporary, Flush, FlushFails, Goto, Leave, Undo, Die, RolledBack, Recovering, history, memory, Move, MoveOfFiles, MoveOfAnswer, MoveOfCommit, ControlShape
<1>18. CASE SyncJournal
    BY <1>f, <1>18
    DEF SyncJournal, Flush, FlushFails, Goto, Leave, Undo, Die, RolledBack, Recovering, history, memory, Move, MoveOfFiles, MoveOfAnswer, MoveOfCommit, ControlShape
<1>19. CASE SyncPrevious
    BY <1>f, <1>19
    DEF SyncPrevious, Flush, FlushFails, Goto, Leave, Undo, Die, RolledBack, Recovering, history, memory, Move, MoveOfFiles, MoveOfAnswer, MoveOfCommit, ControlShape
<1>20. CASE SyncDelivery
    BY <1>f, <1>20
    DEF SyncDelivery, Flush, FlushFails, Goto, Leave, Undo, Die, RolledBack, Recovering, history, memory, Move, MoveOfFiles, MoveOfAnswer, MoveOfCommit, ControlShape
<1>21. CASE Commit
    BY <1>f, <1>21
    DEF Commit, Flush, FlushFails, Goto, Leave, Undo, Die, RolledBack, Recovering, history, memory, Move, MoveOfFiles, MoveOfAnswer, MoveOfCommit, ControlShape
<1>22. CASE SyncRollback
    BY <1>f, <1>22
    DEF SyncRollback, Flush, FlushFails, Goto, Leave, Undo, Die, RolledBack, Recovering, history, memory, Move, MoveOfFiles, MoveOfAnswer, MoveOfCommit, ControlShape
<1>23. CASE SyncRemoval
    BY <1>f, <1>23
    DEF SyncRemoval, Flush, FlushFails, Goto, Leave, Undo, Die, RolledBack, Recovering, history, memory, Move, MoveOfFiles, MoveOfAnswer, MoveOfCommit, ControlShape
<1>24. CASE RollbackFails
    BY <1>f, <1>24
    DEF RollbackFails, Flush, FlushFails, Goto, Leave, Undo, Die, RolledBack, Recovering, history, memory, Move, MoveOfFiles, MoveOfAnswer, MoveOfCommit, ControlShape
<1>25. CASE PowerLoss
    BY <1>f, <1>25
    DEF PowerLoss, Flush, FlushFails, Goto, Leave, Undo, Die, RolledBack, Recovering, history, memory, Move, MoveOfFiles, MoveOfAnswer, MoveOfCommit, ControlShape
<1>26. CASE RemoveContents
  <2>1. /\ fs' = [fs EXCEPT !.content[fs.staging] = "partial"]
        /\ disk' = disk \cup {fs'} /\ fs.journal = None
        /\ UNCHANGED history /\ pc' # "commit_unlinked"
      BY <1>f, <1>26 DEF RemoveContents, MayRemoveStaging, Mutate, Goto, memory, ControlShape
  <2>2. fs'.journal = None /\ Pair(fs') = Pair(fs)
      BY <1>f, <2>1 DEF Namespace, Pair, ValueOf, DistinctNames
  <2> QED BY <2>1, <2>2 DEF Move, MoveOfFiles, MoveOfAnswer, MoveOfCommit
<1>27. CASE RemoveStaging
  <2>1. /\ fs' = [fs EXCEPT !.content[fs.staging] = "empty", !.staging = None]
        /\ disk' = disk \cup {fs'} /\ fs.journal = None
        /\ UNCHANGED history /\ pc' # "commit_unlinked"
      BY <1>f, <1>27 DEF RemoveStaging, MayRemoveStaging, Mutate, Goto, memory, ControlShape
  <2>2. fs'.journal = None /\ Pair(fs') = Pair(fs)
      BY <1>f, <2>1 DEF Namespace, Pair, ValueOf, DistinctNames
  <2> QED BY <2>1, <2>2 DEF Move, MoveOfFiles, MoveOfAnswer, MoveOfCommit
<1>28. CASE BuildPart
  <2>1. /\ fs' = [fs EXCEPT !.content[fs.staging] = "partial"]
        /\ disk' = disk \cup {fs'} /\ fs.journal = None
        /\ UNCHANGED history /\ pc' # "commit_unlinked"
      BY <1>f, <1>28 DEF BuildPart, MayRemoveStaging, Mutate, Goto, memory, ControlShape
  <2>2. fs'.journal = None /\ Pair(fs') = Pair(fs)
      BY <1>f, <2>1 DEF Namespace, Pair, ValueOf, DistinctNames
  <2> QED BY <2>1, <2>2 DEF Move, MoveOfFiles, MoveOfAnswer, MoveOfCommit
<1>29. CASE BuildComplete
  <2>1. /\ fs' = [fs EXCEPT !.content[fs.staging] = "complete"]
        /\ disk' = disk \cup {fs'} /\ fs.journal = None
        /\ UNCHANGED history /\ pc' # "commit_unlinked"
      BY <1>f, <1>29 DEF BuildComplete, MayRemoveStaging, Mutate, Goto, memory, ControlShape
  <2>2. fs'.journal = None /\ Pair(fs') = Pair(fs)
      BY <1>f, <2>1 DEF Namespace, Pair, ValueOf, DistinctNames
  <2> QED BY <2>1, <2>2 DEF Move, MoveOfFiles, MoveOfAnswer, MoveOfCommit
<1>30. CASE CreateStaging
  <2>1. PICK d \in Dirs \ {fs.delivery, fs.previous} :
            Mutate([fs EXCEPT !.staging = d, !.content[d] = "empty"])
      BY <1>30 DEF CreateStaging
  <2>2. /\ fs' = [fs EXCEPT !.staging = d, !.content[d] = "empty"]
        /\ disk' = disk \cup {fs'} /\ fs.journal = None
        /\ UNCHANGED history /\ pc' # "commit_unlinked"
      BY <1>f, <1>30, <2>1 DEF CreateStaging, Mutate, Goto, ControlShape
  <2>3. fs'.journal = None /\ Pair(fs') = Pair(fs)
      BY <1>f, <2>2 DEF Namespace, Pair, ValueOf
  <2> QED BY <2>2, <2>3 DEF Move, MoveOfFiles, MoveOfAnswer, MoveOfCommit
<1>31. CASE WriteJournal
  <2>1. /\ answer = "pending" /\ disk' = disk \cup {fs'}
        /\ UNCHANGED history /\ pc' # "commit_unlinked"
      BY <1>f, <1>31 DEF WriteJournal, Mutate, Goto, ControlShape
  <2>2. fs'.journal # None
      BY <1>f, <1>31, JournalSurvives DEF WriteJournal, Mutate, ControlShape, Namespace
  <2> QED BY <2>1, <2>2 DEF Move, MoveOfFiles, MoveOfAnswer, MoveOfCommit
<1>32. CASE MovePrevious
  <2>1. /\ answer = "pending" /\ disk' = disk \cup {fs'}
        /\ UNCHANGED history /\ pc' # "commit_unlinked"
      BY <1>f, <1>32 DEF MovePrevious, Mutate, Goto, ControlShape
  <2>2. fs'.journal # None
      BY <1>f, <1>32, JournalSurvives DEF MovePrevious, Mutate, ControlShape, Namespace
  <2> QED BY <2>1, <2>2 DEF Move, MoveOfFiles, MoveOfAnswer, MoveOfCommit
<1>33. CASE ExchangeDelivered
  <2>1. /\ answer = "pending" /\ disk' = disk \cup {fs'}
        /\ UNCHANGED history /\ pc' # "commit_unlinked"
      BY <1>f, <1>33 DEF ExchangeDelivered, Mutate, Goto, ControlShape
  <2>2. fs'.journal # None
      BY <1>f, <1>33, JournalSurvives DEF ExchangeDelivered, Mutate, ControlShape, Namespace
  <2> QED BY <2>1, <2>2 DEF Move, MoveOfFiles, MoveOfAnswer, MoveOfCommit
<1>34. CASE UnlinkJournal
  <2>1. /\ fs' = [fs EXCEPT !.journal = None] /\ disk' = disk \cup {fs'}
        /\ UNCHANGED history
        /\ pc' = "commit_unlinked" => fs.journal # None
      BY <1>f, <1>34 DEF UnlinkJournal, Mutate, Goto, ControlShape
  <2>2. fs'.journal = None /\ Pair(fs') = Pair(fs)
      BY <1>f, <2>1 DEF Namespace, Pair, ValueOf
  <2> QED BY <2>1, <2>2 DEF Move, MoveOfFiles, MoveOfAnswer, MoveOfCommit
<1>35. CASE RemoveJournal
  <2>1. /\ fs' = [fs EXCEPT !.journal = None] /\ disk' = disk \cup {fs'}
        /\ UNCHANGED history
        /\ pc' = "commit_unlinked" => fs.journal # None
      BY <1>f, <1>35 DEF RemoveJournal, Mutate, Goto, ControlShape
  <2>2. fs'.journal = None /\ Pair(fs') = Pair(fs)
      BY <1>f, <2>1 DEF Namespace, Pair, ValueOf
  <2> QED BY <2>1, <2>2 DEF Move, MoveOfFiles, MoveOfAnswer, MoveOfCommit
<1>36. CASE TransactionFails
  <2>1. answer = "pending" /\ UNCHANGED history /\ pc' # "commit_unlinked"
      BY <1>f, <1>36 DEF TransactionFails, Undo, ControlShape
  <2>2. CASE UNCHANGED <<fs, disk>> \/ FlushFails
      BY <1>f, <2>1, <2>2 DEF FlushFails, Move, MoveOfFiles, MoveOfAnswer, MoveOfCommit
  <2>3. CASE /\ pc \in {"previous_move", "delivery_exchange"}
             /\ Mutate(ExchangePrevious(fs)) \/ Mutate(CommitExchange(fs, txn))
    <3>1. fs'.journal # None /\ disk' = disk \cup {fs'}
        BY <1>f, <2>3, JournalSurvives DEF Mutate, ControlShape
    <3> QED BY <2>1, <3>1 DEF Move, MoveOfFiles, MoveOfAnswer, MoveOfCommit
  <2> QED BY <1>36, <2>2, <2>3 DEF TransactionFails
<1>37. CASE RollBack
  <2>1. /\ fs' = RollbackExchange(fs, txn) /\ disk' = disk \cup {fs'}
        /\ UNCHANGED history /\ pc' # "commit_unlinked"
        /\ txn \in Journal /\ Shape(fs, txn)
      BY <1>f, <1>37 DEF RollBack, Mutate, memory, ControlShape
  <2>2. fs'.journal = fs.journal /\ fs' \in Namespace
      BY <1>f, <2>1, RollbackExchangeKeepsShape
  <2>3. fs.journal # None
    <3> SUFFICES ASSUME fs.journal = None PROVE FALSE
        OBVIOUS
    <3>1. PublicationState(fs, txn) = "initial"
        BY <1>f, <1>37, <2>1, PublicationStateReads DEF RollBack, SafeInv, ControlSafe, InitialAt
    <3> QED BY <1>37, <3>1 DEF RollBack, RollbackExchange
  <2> QED BY <2>1, <2>2, <2>3 DEF Move, MoveOfFiles, MoveOfAnswer, MoveOfCommit
<1>38. CASE UNCHANGED vars
    BY <1>38 DEF vars, memory, history, Move, MoveOfFiles, MoveOfAnswer, MoveOfCommit
<1> QED
    BY <1>1, <1>2, <1>3, <1>4, <1>5, <1>6, <1>7, <1>8, <1>9, <1>10, <1>11, <1>12, <1>13, <1>14, <1>15, <1>16, <1>17, <1>18, <1>19, <1>20, <1>21, <1>22, <1>23, <1>24, <1>25, <1>26, <1>27, <1>28, <1>29, <1>30, <1>31, <1>32, <1>33, <1>34, <1>35, <1>36, <1>37, <1>38 DEF Next, Proceed

-----------------------------------------------------------------------------
(* The decided outcome                                                      *)

(* A journal the disk may come back to decides for what the publication     *)
(* found, whichever of the states that hold one is taken.                   *)
LEMMA OpenMeansStart ==
    ASSUME SafeInv, Open
    PROVE  Decided = start
<1> DEFINE j == CHOOSE ns \in disk : ns.journal # None
<1>1. j \in disk /\ j.journal # None
    BY DEF Open
<1>2. j \in Namespace /\ Undoable(j, j.journal)
    BY <1>1 DEF SafeInv, TypeInv, TypeOK, DiskSafe
<1>3. Pair(Recovered(j)) = start
    BY <1>1, <1>2, UndoableRecovers
<1> QED BY <1>3 DEF Decided, Open

(* Without one, what the namespace shows is final.                          *)
LEMMA ClosedMeansShown ==
    ASSUME SafeInv, ~Open, CleanupSyncMayFail = FALSE
    PROVE  /\ Decided = Pair(fs) /\ Recovered(fs) = fs /\ fs \in disk
           /\ Pair(fs) \in {start, NewPair}
BY DEF Open, Decided, Recovered, SafeInv, TypeInv, DiskShape, DiskSafe, Outcomes

\* The decided outcome is the pair the publication found or the one it made,
\* and the answer says which.
Told ==
    /\ Decided \in {start, NewPair}
    /\ answer \in {"none", "pending", "failed", "interrupted"} => Decided = start
    /\ answer = "published" => ~Open /\ Decided = NewPair

(* A rejected or pending call has changed nothing, a published one          *)
(* everything.                                                              *)
LEMMA AnswerDecides ==
    ASSUME CleanupSyncMayFail = FALSE
    PROVE  RefInv => Told
<1> SUFFICES ASSUME RefInv PROVE Told
    OBVIOUS
<1>1. SafeInv
    BY DEF RefInv
<1>2. CASE Open
    BY <1>1, <1>2, OpenMeansStart DEF SafeInv, AnswerSafe, Unguarded, Open, RefInv, Told
<1>3. CASE ~Open
    BY <1>1, <1>3, ClosedMeansShown DEF SafeInv, AnswerSafe, Unguarded, RefInv, Told
<1> QED BY <1>2, <1>3

(* Once the journal is gone from every state of the disk nothing but a new  *)
(* publication brings one back, and the pair stays as it is shown.          *)
LEMMA ClosedStays ==
    ASSUME RefInv, Move, ~Open
    PROVE  \/ Open' /\ answer = "pending"
           \/ ~Open' /\ Pair(fs') = Pair(fs)
<1>1. fs \in disk /\ fs.journal = None /\ \A ns \in disk : ns.journal = None /\ Pair(ns) = Pair(fs)
    BY DEF RefInv, SafeInv, TypeInv, DiskShape, Open
<1>2. CASE UNCHANGED <<fs, disk>>
    BY <1>2 DEF Open
<1>3. CASE fs' \in disk /\ disk' = {fs'}
    BY <1>1, <1>3 DEF Open
<1>4. CASE disk' = disk \cup {fs'} /\ fs'.journal = None /\ Pair(fs') = Pair(fs)
    BY <1>1, <1>4 DEF Open
<1>5. CASE disk' = disk \cup {fs'} /\ fs'.journal # None /\ answer = "pending"
    BY <1>5 DEF Open
<1> QED BY <1>1, <1>2, <1>3, <1>4, <1>5 DEF Move, MoveOfFiles

-----------------------------------------------------------------------------
(* Invariance                                                               *)

(* Between two runs there is no journal and both directories are as found.  *)
LEMMA InitRefInv == Init => RefInv
<1> SUFFICES ASSUME Init PROVE RefInv
    OBVIOUS
<1>1. SafeInv
    BY InitSafeInv
<1>2. /\ pc = "idle" /\ answer = "none" /\ disk = {fs} /\ fs.journal = None
      /\ start = Pair(fs)
    BY DEF Init, Pair
<1> QED BY <1>1, <1>2 DEF RefInv, Open

(* A publication is given a directory that is neither of the two it finds.  *)
LEMMA BeginIsFresh ==
    ASSUME RefInv, BeginPublish
    PROVE  /\ ~Open /\ UNCHANGED <<fs, disk>> /\ start' = Pair(fs)
           /\ asked' \in Dirs /\ asked' \notin {start'.delivery, start'.previous}
           /\ answer # "pending" /\ answer' = "pending"
<1>1. /\ pc = "built" /\ asked' = fs.staging /\ answer' = "pending" /\ UNCHANGED <<fs, disk>>
      /\ start' = Pair(fs)
    BY DEF BeginPublish, Pair
<1>2. /\ fs \in Namespace /\ DistinctNames(fs) /\ fs.staging # None
      /\ answer # "pending" /\ ~Open
    BY <1>1 DEF RefInv, SafeInv, TypeInv, TypeOK, DiskShape, WellFormed, ControlShape, ControlSafe,
          Undisturbed, Open, Publishing, RollingBack
<1>3. fs.staging \in Dirs /\ Pair(fs).delivery # fs.staging /\ Pair(fs).previous # fs.staging
    BY <1>2, ConstantsAssumption DEF Pair, ValueOf, Namespace, Entry, DistinctNames
<1> QED BY <1>1, <1>2, <1>3

(* Every step preserves the invariant of the refinement.                    *)
LEMMA NextRefInv ==
    ASSUME CleanupSyncMayFail = FALSE
    PROVE  RefInv /\ [Next]_vars => RefInv'
<1> SUFFICES ASSUME RefInv, [Next]_vars PROVE RefInv'
    OBVIOUS
<1>1. SafeInv /\ SafeInv' /\ Move
    BY NextSafeInv, EveryStepIsMove DEF RefInv
<1>2. fs \in disk /\ fs' \in disk'
    BY <1>1 DEF SafeInv, TypeInv, DiskShape
<1>3. pc' = "commit_unlinked" => Open'
    BY <1>1, <1>2 DEF Move, MoveOfCommit, RefInv, Open
<1>4. ~Open' => \A ns \in disk' : Pair(ns) = Pair(fs')
  <2> SUFFICES ASSUME ~Open', NEW ns \in disk' PROVE Pair(ns) = Pair(fs')
      OBVIOUS
  <2>1. CASE Open
      BY <1>1, <2>1 DEF Move, MoveOfFiles, Open
  <2>2. CASE ~Open
    <3>1. Pair(fs') = Pair(fs)
        BY <1>1, <2>2, ClosedStays
    <3>2. ns \in disk \/ ns = fs'
        BY <1>1 DEF Move, MoveOfFiles
    <3> QED BY <2>2, <3>1, <3>2 DEF RefInv
  <2> QED BY <2>1, <2>2
<1>5. answer' = "none" => ~Open' /\ Pair(fs') = start'
  <2> SUFFICES ASSUME answer' = "none" PROVE ~Open' /\ Pair(fs') = start'
      OBVIOUS
  <2>1. answer = "none" /\ start' = start
      BY <1>1, BeginIsFresh DEF Move, MoveOfAnswer, history
  <2> QED BY <1>1, <2>1, ClosedStays DEF RefInv
<1>6. answer' # "none" => asked' \notin {start'.delivery, start'.previous}
    BY <1>1, BeginIsFresh DEF Move, MoveOfAnswer, history, RefInv
<1>7. (\A ns \in disk : Pair(ns) = Pair(fs))' <=> \A ns \in disk' : Pair(ns) = Pair(fs')
    BY DEF Pair, ValueOf
<1> QED BY <1>1, <1>3, <1>4, <1>5, <1>6, <1>7 DEF RefInv, Pair, ValueOf

-----------------------------------------------------------------------------
(* The refinement                                                           *)

(* The workspace between two runs is an initial state of the promise.       *)
LEMMA InitImplements == Init => Abstract!Init
<1> SUFFICES ASSUME Init PROVE Abstract!Init
    OBVIOUS
<1>1. SafeInv /\ ~Open /\ answer = "none" /\ asked = Empty
    BY InitRefInv DEF RefInv, Init
<1>2. Decided = Pair(fs) /\ fs \in Namespace /\ Whole(fs)
    BY <1>1 DEF Decided, Open, SafeInv, TypeInv, TypeOK, DiskSafe, DiskShape
<1>3. {ValueOf(fs, fs.delivery), ValueOf(fs, fs.previous)} \subseteq Dirs \cup {Empty}
    BY <1>2 DEF Whole, ValueOf, Namespace, Contents
<1> QED BY <1>1, <1>2, <1>3 DEF Abstract!Init, Pair

(* A complete switch of the decided pair is the promise's Switch.           *)
LEMMA NewPairIsSwitch ==
    ASSUME Decided = start, Decided' = NewPair, UNCHANGED asked
    PROVE  Abstract!Switch
BY DEF Abstract!Switch, NewPair

(* The call that fails, is interrupted, ends in doubt or dies, and the one  *)
(* that publishes, answer as the promise lets them.                         *)
LEMMA AnsweringImplements ==
    ASSUME CleanupSyncMayFail = FALSE, RefInv, Told, Told', SafeInv', MoveOfFiles,
           answer = "pending", UNCHANGED <<start, asked>>,
           answer' \in {"published", "failed", "interrupted", "lost", "rollback_failed"},
           answer' = "rollback_failed" => pc # "commit_unlinked" /\ disk' \subseteq disk
    PROVE  Abstract!Next
<1>1. /\ Decided = start /\ NewPair' = NewPair /\ Decided' \in {start, NewPair}
      /\ answer' = "published" => Decided' = NewPair
      /\ answer' \in {"failed", "interrupted"} => Decided' = start
    BY DEF Told, NewPair
<1>2. Decided' = NewPair => Abstract!Switch
    BY <1>1, NewPairIsSwitch
<1>3. Decided' = start => UNCHANGED <<Decided, asked>>
    BY <1>1
<1>4. CASE answer' = "published"
    BY <1>1, <1>2, <1>4 DEF Abstract!Next, Abstract!Publish
<1>5. CASE answer' \in {"failed", "interrupted"}
    BY <1>1, <1>3, <1>5 DEF Abstract!Next, Abstract!Reject
<1>6. CASE answer' = "lost"
    BY <1>1, <1>2, <1>3, <1>6 DEF Abstract!Next, Abstract!Die
<1>7. CASE answer' = "rollback_failed"
  <2>1. \A ns \in disk' : Pair(Recovered(ns)) = start
      BY <1>7 DEF RefInv, SafeInv, AnswerSafe, Unguarded
  <2>2. Decided' = start
    <3>1. fs' \in disk'
        BY DEF SafeInv, TypeInv, DiskShape
    <3>2. Decided' = IF \E ns \in disk' : ns.journal # None
                     THEN Pair(Recovered(CHOOSE ns \in disk' : ns.journal # None))
                     ELSE Pair(fs')
        BY DEF Decided, Pair, Recovered, ValueOf
    <3>3. CASE \E ns \in disk' : ns.journal # None
        BY <2>1, <3>2, <3>3
    <3>4. CASE ~\E ns \in disk' : ns.journal # None
      <4>1. Recovered(fs') = fs'
          BY <3>1, <3>4 DEF Recovered
      <4> QED BY <2>1, <3>1, <3>2, <3>4, <4>1
    <3> QED BY <3>3, <3>4
  <2> QED BY <1>3, <1>7, <2>2 DEF Abstract!Next, Abstract!Uncertain
<1> QED BY <1>4, <1>5, <1>6, <1>7

(* While no answer is given and no publication begins, the decided pair     *)
(* stays, unless an open outcome turns out to be the complete switch.       *)
LEMMA SilentImplements ==
    ASSUME CleanupSyncMayFail = FALSE, RefInv, Told, Told', Move, UNCHANGED history, SafeInv'
    PROVE  Abstract!Next \/ UNCHANGED Abstract!vars
<1>1. /\ UNCHANGED <<start, asked, answer>> /\ NewPair' = NewPair
      /\ Decided \in {start, NewPair} /\ Decided' \in {start, NewPair}
    BY DEF Told, NewPair, history
<1>2. CASE Decided' = Decided
    BY <1>1, <1>2 DEF Abstract!vars
<1>3. CASE Decided = start /\ Decided' = NewPair /\ Decided' # Decided
  <2>1. answer \in {"lost", "rollback_failed"}
      BY <1>1, <1>3 DEF Told, RefInv, SafeInv, TypeInv, TypeOK
  <2>2. start.delivery # asked
      BY <2>1 DEF RefInv
  <2>3. Abstract!Switch
      BY <1>1, <1>3, NewPairIsSwitch
  <2> QED BY <1>1, <1>3, <2>1, <2>2, <2>3 DEF Abstract!Next, Abstract!LateSwitch
<1>4. CASE Decided = NewPair /\ Decided' = start /\ Decided' # Decided
  <2>1. SafeInv /\ ~Open /\ answer # "pending"
      BY <1>4, OpenMeansStart DEF Told, RefInv
  <2>2. Decided = Pair(fs)
      BY <2>1, ClosedMeansShown
  <2>3. ~Open' /\ Pair(fs') = Pair(fs)
      BY <2>1, ClosedStays
  <2>4. Decided' = Pair(fs')
      BY <2>3 DEF Open, Decided, Pair, ValueOf
  <2> QED BY <1>4, <2>2, <2>3, <2>4
<1> QED BY <1>1, <1>2, <1>3, <1>4

(* Every step of the transaction, of its recovery and of its environment is *)
(* a step of the promise or leaves what it talks about unchanged.           *)
LEMMA NextImplements ==
    ASSUME CleanupSyncMayFail = FALSE
    PROVE  RefInv /\ RefInv' /\ Told /\ Told' /\ [Next]_vars => [Abstract!Next]_(Abstract!vars)
<1> SUFFICES ASSUME RefInv, RefInv', Told, Told', [Next]_vars
             PROVE  Abstract!Next \/ UNCHANGED Abstract!vars
    OBVIOUS
<1>1. Move /\ SafeInv /\ SafeInv'
    BY EveryStepIsMove DEF RefInv
<1>2. CASE UNCHANGED history
    BY <1>1, <1>2, SilentImplements
<1>3. CASE BeginPublish
  <2>1. /\ ~Open /\ start' = Pair(fs) /\ answer # "pending" /\ answer' = "pending"
        /\ asked' \in Dirs /\ asked' \notin {start'.delivery, start'.previous}
      BY <1>3, BeginIsFresh
  <2>2. Decided = start' /\ Decided' = start'
      BY <1>1, <2>1, ClosedMeansShown DEF Told
  <2> QED BY <2>1, <2>2 DEF Abstract!Next, Abstract!Begin
<1>4. CASE /\ answer = "pending"
           /\ answer' \in {"published", "failed", "interrupted", "lost", "rollback_failed"}
           /\ answer' = "rollback_failed" => pc # "commit_unlinked" /\ disk' \subseteq disk
           /\ UNCHANGED <<start, asked>>
    BY <1>1, <1>4, AnsweringImplements DEF Move
<1> QED BY <1>1, <1>2, <1>3, <1>4 DEF Move, MoveOfAnswer

(* Publishing a delivery is atomic for whoever only looks at what both      *)
(* directories hold once recovery has run: journals, exchanges, rollbacks,  *)
(* kills and power losses implement AtomicPublication.                      *)
THEOREM PublicationImplements ==
    ASSUME CleanupSyncMayFail = FALSE
    PROVE  Spec => Implements
<1>1. Spec => []RefInv
    BY InitRefInv, NextRefInv, PTL DEF Spec
<1>2. Spec => [][Next]_vars
    BY PTL DEF Spec
<1>3. Spec => Abstract!Init
    BY InitImplements DEF Spec
<1> QED BY <1>1, <1>2, <1>3, AnswerDecides, NextImplements, PTL DEF Implements, Abstract!Spec
=============================================================================
