------------------------- MODULE OutboxRelayProofs -------------------------
(***************************************************************************)
(* Proofs about OutboxRelay, for any orders, relays, batch size and number   *)
(* of faults: a row marked as published has been accepted by the broker, and *)
(* only the relay whose transaction holds the row marks it; every repeated    *)
(* publication has its failure, and outbox.attempts accounts for every        *)
(* attempt until something is lost.                                            *)
(***************************************************************************)
EXTENDS OutboxRelay, FiniteSetTheorems, TLAPS

(* The batch holds only rows it selected from. *)
LEMMA FirstRowsAreRows == ASSUME NEW S PROVE FirstRows(S) \subseteq S
  BY DEF FirstRows

LEMMA SomeRowsAreRows == ASSUME NEW S, NEW T \in SomeRows(S) PROVE T \subseteq S
  BY DEF SomeRows

(* Leaving batch() keeps the shape of what it resets. *)
LEMMA LeaveBatchType ==
  ASSUME TypeOK, NEW r \in Relays, LeaveBatch(r)
  PROVE  /\ pc' \in [Relays -> {"idle", "flushing", "scan", "publish", "mark", "commit"}]
         /\ live' \in [Relays -> BOOLEAN]
         /\ todo' \in [Relays -> SUBSET Orders]
         /\ attempted' \in [Relays -> SUBSET Orders]
         /\ holder' \in [Orders -> Relays \cup {NoRelay}]
  BY DEF TypeOK, LeaveBatch, ReleaseRows

LEMMA CountFailuresType ==
  ASSUME TypeOK, NEW r \in Relays, NEW ids, CountFailures(r, ids)
  PROVE  failed' \in [Relays -> [Orders -> Nat]]
<1>1. [o \in Orders |-> failed[r][o] + (IF o \in ids THEN 1 ELSE 0)] \in [Orders -> Nat]
  BY DEF TypeOK
<1> QED
  BY <1>1 DEF TypeOK, CountFailures

LEMMA OneFaultType ==
  ASSUME TypeOK, OneFault PROVE faults' \in 0..MaxFaults
  BY BoundsAssumption DEF TypeOK, OneFault

LEMMA FlushedAttemptsType ==
  ASSUME TypeOK, NEW r \in Relays PROVE FlushedAttempts(r) \in [Orders -> Nat]
  BY DEF TypeOK, FlushedAttempts

LEMMA CommitMarksType ==
  ASSUME TypeOK, NEW r \in Relays, CommitMarks(r)
  PROVE  row' \in [Orders -> RowStates] /\ attempts' \in [Orders -> Nat]
  BY DEF TypeOK, CommitMarks, RowStates

(* Every step keeps the types: one case per action of Next. *)
LEMMA TypeStep == TypeOK /\ [Next]_vars => TypeOK'
<1> SUFFICES ASSUME TypeOK, [Next]_vars PROVE TypeOK'
  OBVIOUS
<1>1. ASSUME NEW o \in Orders, Place(o) PROVE TypeOK'
  BY <1>1 DEF TypeOK, Place, RowStates, relayVars, history
<1>2. ASSUME NEW o \in Orders, Prune(o) PROVE TypeOK'
  BY <1>2 DEF TypeOK, Prune, RowStates, relayVars, Losses
<1>3. ASSUME NEW r \in Relays, FlushBegin(r) PROVE TypeOK'
  <2>1. PICK S \in SUBSET Orders : todo' = [todo EXCEPT ![r] = S] /\ LockRows(r, S)
    <3>1. PICK S \in SomeRows({o \in Recorded(r) :
                     row[o] \in {"pending", "published"} /\ Unlocked(o)}) :
            todo' = [todo EXCEPT ![r] = S] /\ LockRows(r, S)
      BY <1>3 DEF FlushBegin
    <3>2. S \subseteq Orders
      BY <3>1, SomeRowsAreRows DEF Recorded
    <3> QED
      BY <3>1, <3>2
  <2> QED
    BY <1>3, <2>1 DEF TypeOK, FlushBegin, LockRows, history
<1>4. ASSUME NEW r \in Relays, FlushCommit(r) PROVE TypeOK'
  <2>1. [o \in Orders |-> IF o \in todo[r] \/ row[o] = "deleted" THEN 0 ELSE failed[r][o]]
          \in [Orders -> Nat]
    BY DEF TypeOK
  <2>2. failed' \in [Relays -> [Orders -> Nat]]
    BY <1>4, <2>1 DEF TypeOK, FlushCommit
  <2>3. attempts' \in [Orders -> Nat]
    BY <1>4, FlushedAttemptsType DEF FlushCommit
  <2> QED
    BY <1>4, <2>2, <2>3 DEF TypeOK, FlushCommit, ReleaseRows, history
<1>5. ASSUME NEW r \in Relays, FlushCommitUnanswered(r) PROVE TypeOK'
  BY <1>5, FlushedAttemptsType, LeaveBatchType, OneFaultType
  DEF TypeOK, FlushCommitUnanswered, Losses
<1>6. ASSUME NEW r \in Relays, FlushFail(r) PROVE TypeOK'
  BY <1>6, LeaveBatchType DEF TypeOK, FlushFail, history
<1>7. ASSUME NEW r \in Relays, Scan(r) PROVE TypeOK'
  <2>1. PICK S \in SUBSET Orders :
          /\ todo' = [todo EXCEPT ![r] = S] /\ LockRows(r, S)
          /\ pc' = [pc EXCEPT ![r] = IF S = {} THEN "idle" ELSE "publish"]
    BY <1>7, FirstRowsAreRows DEF Scan
  <2>2. pc' \in [Relays -> {"idle", "flushing", "scan", "publish", "mark", "commit"}]
    BY <2>1 DEF TypeOK
  <2>3. holder' \in [Orders -> Relays \cup {NoRelay}]
    BY <2>1 DEF TypeOK, LockRows
  <2> QED
    BY <1>7, <2>1, <2>2, <2>3 DEF TypeOK, Scan, history
<1>8. ASSUME NEW r \in Relays, NEW o \in Orders, PublishConfirmed(r, o) PROVE TypeOK'
  <2>1. pc' \in [Relays -> {"idle", "flushing", "scan", "publish", "mark", "commit"}]
    BY <1>8 DEF TypeOK, PublishConfirmed
  <2>2. attempted' \in [Relays -> SUBSET Orders]
    BY <1>8 DEF TypeOK, PublishConfirmed
  <2>3. tries' \in [Orders -> Nat] /\ sent' \in [Orders -> Nat]
    BY <1>8 DEF TypeOK, PublishConfirmed, Try, Accept
  <2> QED
    BY <1>8, <2>1, <2>2, <2>3 DEF TypeOK, PublishConfirmed, dbVars
<1>9. ASSUME NEW r \in Relays, NEW o \in Orders, PublishRefused(r, o) PROVE TypeOK'
  BY <1>9, LeaveBatchType, CountFailuresType, OneFaultType
  DEF TypeOK, PublishRefused, Try
<1>10. ASSUME NEW r \in Relays, NEW o \in Orders, PublishUnconfirmed(r, o) PROVE TypeOK'
  BY <1>10, LeaveBatchType, CountFailuresType, OneFaultType
  DEF TypeOK, PublishUnconfirmed, Try, Accept
<1>11. ASSUME NEW r \in Relays, NEW o \in Orders, Mark(r, o) PROVE TypeOK'
  BY <1>11 DEF TypeOK, Mark, dbVars, history
<1>12. ASSUME NEW r \in Relays, Commit(r) PROVE TypeOK'
  BY <1>12, LeaveBatchType, CommitMarksType DEF TypeOK, Commit, history
<1>13. ASSUME NEW r \in Relays, CommitUnanswered(r) PROVE TypeOK'
  BY <1>13, LeaveBatchType, CommitMarksType, CountFailuresType, OneFaultType
  DEF TypeOK, CommitUnanswered, Losses
<1>14. ASSUME NEW r \in Relays, BatchFail(r) PROVE TypeOK'
  BY <1>14, LeaveBatchType, CountFailuresType DEF TypeOK, BatchFail, history
<1>15. ASSUME NEW r \in Relays, SessionLost(r) PROVE TypeOK'
  BY <1>15, OneFaultType DEF TypeOK, SessionLost, ReleaseRows, history
<1>16. ASSUME NEW r \in Relays, Crash(r) PROVE TypeOK'
  BY <1>16, LeaveBatchType, OneFaultType DEF TypeOK, Crash, Losses
<1>17. CASE UNCHANGED vars
  BY <1>17 DEF TypeOK, vars, dbVars, relayVars, history
<1> QED
  BY <1>1, <1>2, <1>3, <1>4, <1>5, <1>6, <1>7, <1>8, <1>9, <1>10, <1>11, <1>12,
     <1>13, <1>14, <1>15, <1>16, <1>17 DEF Next, Work, Fault

-----------------------------------------------------------------------------
(* A relay that leaves batch() disturbs no other batch, provided the rows it *)
(* wrote were its own: they stay locked by whoever holds them.                *)
LEMMA LeaveBatchOwns ==
  ASSUME TypeOK, NothingInHand, BatchOwnsItsRows,
         NEW r \in Relays, LeaveBatch(r),
         \A o \in Orders : row'[o] # row[o] => holder[o] = r
  PROVE  NothingInHand' /\ BatchOwnsItsRows'
<1>1. NothingInHand'
  BY DEF TypeOK, NothingInHand, LeaveBatch
<1>2. ASSUME NEW q \in Relays, live'[q], NEW o \in todo'[q] \cup attempted'[q]
      PROVE  holder'[o] = q /\ (pc'[q] # "flushing" => row'[o] = "pending")
  <2>1. q # r
    BY <1>2 DEF TypeOK, LeaveBatch
  <2>2. /\ o \in Orders /\ o \in todo[q] \cup attempted[q]
        /\ live[q] /\ pc'[q] = pc[q]
    BY <1>2, <2>1 DEF TypeOK, LeaveBatch
  <2>3. holder[o] = q /\ (pc[q] # "flushing" => row[o] = "pending")
    BY <2>2 DEF BatchOwnsItsRows
  <2> QED
    BY <2>1, <2>2, <2>3 DEF LeaveBatch, ReleaseRows
<1> QED
  BY <1>1, <1>2 DEF BatchOwnsItsRows

(* The rows a COMMIT marks are its own. *)
LEMMA CommitMarksOwnRows ==
  ASSUME TypeOK, BatchOwnsItsRows, NEW r \in Relays, live[r], CommitMarks(r)
  PROVE  \A o \in Orders : row'[o] # row[o] => holder[o] = r /\ o \in attempted[r]
  BY DEF TypeOK, BatchOwnsItsRows, CommitMarks

(* Locking rows nobody holds takes nothing from another batch. *)
LEMMA LockRowsOwns ==
  ASSUME TypeOK, BatchOwnsItsRows, NEW r \in Relays,
         NEW S \in SUBSET Orders, \A o \in S : Unlocked(o), LockRows(r, S),
         UNCHANGED <<row, live, attempted>>, attempted[r] = {},
         todo' = [todo EXCEPT ![r] = S],
         \A q \in Relays \ {r} : pc'[q] = pc[q],
         pc'[r] # "flushing" => \A o \in S : row[o] = "pending"
  PROVE  BatchOwnsItsRows'
<1>1. ASSUME NEW q \in Relays, live'[q], NEW o \in todo'[q] \cup attempted'[q]
      PROVE  holder'[o] = q /\ (pc'[q] # "flushing" => row'[o] = "pending")
  <2>1. CASE q = r
    BY <1>1, <2>1 DEF TypeOK, LockRows
  <2>2. CASE q # r
    <3>1. o \in Orders /\ holder[o] = q /\ (pc[q] # "flushing" => row[o] = "pending")
      BY <1>1, <2>2 DEF TypeOK, BatchOwnsItsRows
    <3>2. o \notin S
      BY <3>1, RelaysAssumption DEF Unlocked
    <3> QED
      BY <3>1, <3>2, <2>2 DEF LockRows
  <2> QED
    BY <2>1, <2>2
<1> QED
  BY <1>1 DEF BatchOwnsItsRows

(* Every step keeps live batches in possession of their rows. *)
LEMMA OwnershipStep ==
  ASSUME TypeOK, NothingInHand, BatchOwnsItsRows, [Next]_vars
  PROVE  NothingInHand' /\ BatchOwnsItsRows'
<1>1. ASSUME NEW o \in Orders, Place(o) PROVE NothingInHand' /\ BatchOwnsItsRows'
  BY <1>1 DEF TypeOK, NothingInHand, BatchOwnsItsRows, Place, relayVars
<1>2. ASSUME NEW o \in Orders, Prune(o) PROVE NothingInHand' /\ BatchOwnsItsRows'
  BY <1>2 DEF TypeOK, NothingInHand, BatchOwnsItsRows, Prune, relayVars
<1>3. ASSUME NEW r \in Relays, FlushBegin(r) PROVE NothingInHand' /\ BatchOwnsItsRows'
  <2> DEFINE Free == {o \in Recorded(r) : row[o] \in {"pending", "published"} /\ Unlocked(o)}
  <2>1. PICK S \in SomeRows(Free) : todo' = [todo EXCEPT ![r] = S] /\ LockRows(r, S)
    BY <1>3 DEF FlushBegin
  <2>2. S \subseteq Free /\ Free \subseteq Orders
    BY <2>1, SomeRowsAreRows DEF Recorded
  <2>3. NothingInHand'
    BY <1>3 DEF TypeOK, NothingInHand, FlushBegin
  <2>4. pc'[r] = "flushing" /\ attempted[r] = {} /\ \A q \in Relays \ {r} : pc'[q] = pc[q]
    BY <1>3 DEF TypeOK, NothingInHand, FlushBegin
  <2> QED
    BY <1>3, <2>1, <2>2, <2>3, <2>4, LockRowsOwns DEF FlushBegin
<1>4. ASSUME NEW r \in Relays, FlushCommit(r) PROVE NothingInHand' /\ BatchOwnsItsRows'
  <2>1. NothingInHand'
    BY <1>4 DEF TypeOK, NothingInHand, FlushCommit
  <2>2. ASSUME NEW q \in Relays, live'[q], NEW o \in todo'[q] \cup attempted'[q]
        PROVE  holder'[o] = q /\ (pc'[q] # "flushing" => row'[o] = "pending")
    <3>1. q # r
      BY <1>4, <2>2 DEF TypeOK, NothingInHand, FlushCommit
    <3> QED
      BY <1>4, <2>2, <3>1 DEF TypeOK, BatchOwnsItsRows, FlushCommit, ReleaseRows
  <2> QED
    BY <2>1, <2>2 DEF BatchOwnsItsRows
<1>5. ASSUME NEW r \in Relays, Scan(r) PROVE NothingInHand' /\ BatchOwnsItsRows'
  <2> DEFINE Free == {o \in Orders : row[o] = "pending" /\ Unlocked(o)}
             S == FirstRows(Free)
  <2>1. S \subseteq Free
    BY FirstRowsAreRows
  <2>2. /\ todo' = [todo EXCEPT ![r] = S] /\ LockRows(r, S)
        /\ pc' = [pc EXCEPT ![r] = IF S = {} THEN "idle" ELSE "publish"]
        /\ UNCHANGED <<row, live, attempted>>
    BY <1>5 DEF Scan
  <2>3. attempted[r] = {} /\ live[r] /\ pc[r] # "flushing"
    BY <1>5 DEF NothingInHand, Scan
  <2> HIDE DEF S
  <2>4. NothingInHand'
    BY <2>2, <2>3 DEF TypeOK, NothingInHand
  <2>5. \A q \in Relays \ {r} : pc'[q] = pc[q]
    BY <2>2 DEF TypeOK
  <2> QED
    BY <2>1, <2>2, <2>3, <2>4, <2>5, LockRowsOwns
<1>6. ASSUME NEW r \in Relays, NEW o \in Orders, PublishConfirmed(r, o)
      PROVE  NothingInHand' /\ BatchOwnsItsRows'
  <2>1. NothingInHand'
    BY <1>6 DEF TypeOK, NothingInHand, PublishConfirmed
  <2>2. BatchOwnsItsRows'
    BY <1>6 DEF TypeOK, BatchOwnsItsRows, PublishConfirmed, IsNext, dbVars
  <2> QED
    BY <2>1, <2>2
<1>7. ASSUME NEW r \in Relays, NEW o \in Orders, Mark(r, o)
      PROVE  NothingInHand' /\ BatchOwnsItsRows'
  <2>1. NothingInHand'
    BY <1>7 DEF TypeOK, NothingInHand, Mark
  <2>2. BatchOwnsItsRows'
    BY <1>7 DEF TypeOK, BatchOwnsItsRows, Mark, dbVars
  <2> QED
    BY <2>1, <2>2
<1>8. ASSUME NEW r \in Relays, SessionLost(r) PROVE NothingInHand' /\ BatchOwnsItsRows'
  <2>1. NothingInHand'
    BY <1>8 DEF TypeOK, NothingInHand, SessionLost
  <2>2. BatchOwnsItsRows'
    BY <1>8 DEF TypeOK, BatchOwnsItsRows, SessionLost, ReleaseRows
  <2> QED
    BY <2>1, <2>2
<1>9. ASSUME NEW r \in Relays, Commit(r) \/ CommitUnanswered(r)
      PROVE  NothingInHand' /\ BatchOwnsItsRows'
  BY <1>9, LeaveBatchOwns, CommitMarksOwnRows DEF Commit, CommitUnanswered
<1>10. ASSUME NEW r \in Relays,
              \/ FlushCommitUnanswered(r) \/ FlushFail(r) \/ BatchFail(r) \/ Crash(r)
              \/ \E o \in Orders : PublishRefused(r, o) \/ PublishUnconfirmed(r, o)
       PROVE  NothingInHand' /\ BatchOwnsItsRows'
  <2>1. LeaveBatch(r) /\ row' = row
    BY <1>10 DEF FlushCommitUnanswered, FlushFail, BatchFail, Crash,
                 PublishRefused, PublishUnconfirmed
  <2> QED
    BY <2>1, LeaveBatchOwns
<1>11. CASE UNCHANGED vars
  BY <1>11 DEF NothingInHand, BatchOwnsItsRows, vars, dbVars, relayVars
<1> QED
  BY <1>1, <1>2, <1>3, <1>4, <1>5, <1>6, <1>7, <1>8, <1>9, <1>10, <1>11
  DEF Next, Work, Fault

-----------------------------------------------------------------------------
(* The broker has whatever an open batch is going to mark, and whatever has  *)
(* been marked.                                                               *)
LEMMA AcceptanceStep ==
  ASSUME TypeOK, AttemptedIsAccepted, PublishedMeansAccepted, [Next]_vars
  PROVE  AttemptedIsAccepted' /\ PublishedMeansAccepted'
<1>1. ASSUME NEW o \in Orders, Place(o) \/ Prune(o)
      PROVE  AttemptedIsAccepted' /\ PublishedMeansAccepted'
  BY <1>1 DEF TypeOK, AttemptedIsAccepted, PublishedMeansAccepted,
              Place, Prune, relayVars, history
<1>2. ASSUME NEW r \in Relays, Commit(r) \/ CommitUnanswered(r)
      PROVE  AttemptedIsAccepted' /\ PublishedMeansAccepted'
  <2>1. LeaveBatch(r) /\ CommitMarks(r) /\ sent' = sent
    BY <1>2 DEF Commit, CommitUnanswered, history
  <2>2. AttemptedIsAccepted'
    BY <2>1 DEF TypeOK, AttemptedIsAccepted, LeaveBatch
  <2>3. PublishedMeansAccepted'
    BY <2>1 DEF TypeOK, AttemptedIsAccepted, PublishedMeansAccepted, CommitMarks
  <2> QED
    BY <2>2, <2>3
<1>3. ASSUME NEW r \in Relays, NEW o \in Orders, PublishConfirmed(r, o)
      PROVE  AttemptedIsAccepted' /\ PublishedMeansAccepted'
  <2>1. sent'[o] >= 1 /\ \A p \in Orders : sent[p] >= 1 => sent'[p] >= 1
    BY <1>3 DEF TypeOK, PublishConfirmed, Accept
  <2>2. AttemptedIsAccepted'
    BY <1>3, <2>1 DEF TypeOK, AttemptedIsAccepted, PublishConfirmed
  <2>3. PublishedMeansAccepted'
    BY <1>3, <2>1 DEF PublishedMeansAccepted, PublishConfirmed, dbVars
  <2> QED
    BY <2>2, <2>3
<1>4. ASSUME NEW r \in Relays, NEW o \in Orders, PublishUnconfirmed(r, o)
      PROVE  AttemptedIsAccepted' /\ PublishedMeansAccepted'
  <2>1. \A p \in Orders : sent[p] >= 1 => sent'[p] >= 1
    BY <1>4 DEF TypeOK, PublishUnconfirmed, Accept
  <2>2. AttemptedIsAccepted'
    BY <1>4, <2>1 DEF TypeOK, AttemptedIsAccepted, PublishUnconfirmed, LeaveBatch
  <2>3. PublishedMeansAccepted'
    BY <1>4, <2>1 DEF PublishedMeansAccepted, PublishUnconfirmed
  <2> QED
    BY <2>2, <2>3
<1>5. ASSUME NEW r \in Relays,
             \/ FlushCommitUnanswered(r) \/ FlushFail(r) \/ BatchFail(r) \/ Crash(r)
             \/ \E o \in Orders : PublishRefused(r, o)
      PROVE  AttemptedIsAccepted' /\ PublishedMeansAccepted'
  <2>1. LeaveBatch(r) /\ row' = row /\ sent' = sent
    BY <1>5 DEF FlushCommitUnanswered, FlushFail, BatchFail, Crash,
                PublishRefused, history
  <2> QED
    BY <2>1 DEF TypeOK, AttemptedIsAccepted, PublishedMeansAccepted, LeaveBatch
<1>6. ASSUME NEW r \in Relays,
             \/ FlushBegin(r) \/ FlushCommit(r) \/ Scan(r) \/ SessionLost(r)
             \/ \E o \in Orders : Mark(r, o)
      PROVE  AttemptedIsAccepted' /\ PublishedMeansAccepted'
  <2>1. UNCHANGED <<row, attempted, sent>>
    BY <1>6 DEF FlushBegin, FlushCommit, Scan, SessionLost, Mark, dbVars, history
  <2> QED
    BY <2>1 DEF AttemptedIsAccepted, PublishedMeansAccepted
<1>7. CASE UNCHANGED vars
  BY <1>7 DEF AttemptedIsAccepted, PublishedMeansAccepted, vars, dbVars,
              relayVars, history
<1> QED
  BY <1>1, <1>2, <1>3, <1>4, <1>5, <1>6, <1>7 DEF Next, Work, Fault

(* A relay publishes one event at a time. *)
LEMMA OneAcceptance ==
  ASSUME TypeOK, NEW r \in Relays, Work(r) \/ Fault(r)
  PROVE  sent' = sent \/ \E o \in Orders : sent' = [sent EXCEPT ![o] = @ + 1]
  BY DEF Work, Fault, FlushBegin, FlushCommit, FlushFail, Scan, PublishConfirmed, Mark,
         Commit, BatchFail, FlushCommitUnanswered, CommitUnanswered, PublishRefused,
         PublishUnconfirmed, SessionLost, Crash, Accept, history

(* A relay neither places nor unplaces an order: it marks rows it has locked. *)
LEMMA RelaysPlaceNothing ==
  ASSUME TypeOK, BatchOwnsItsRows, NEW r \in Relays, Work(r) \/ Fault(r),
         NEW o \in Orders
  PROVE  row'[o] = "none" <=> row[o] = "none"
<1>1. CASE Commit(r) \/ CommitUnanswered(r)
  <2>1. live[r] /\ pc[r] = "commit" /\ CommitMarks(r)
    BY <1>1 DEF Commit, CommitUnanswered
  <2>2. \A p \in attempted[r] : row[p] = "pending"
    BY <2>1 DEF BatchOwnsItsRows
  <2> QED
    BY <2>1, <2>2 DEF CommitMarks
<1>2. CASE row' = row
  BY <1>2
<1> QED
  BY <1>1, <1>2
  DEF Work, Fault, FlushBegin, FlushCommit, FlushFail, Scan, PublishConfirmed, Mark,
      BatchFail, FlushCommitUnanswered, PublishRefused, PublishUnconfirmed,
      SessionLost, Crash, dbVars

-----------------------------------------------------------------------------
(* A batch attempts each of its rows once. *)
LEMMA EachRowOnceStep ==
  ASSUME TypeOK, NothingInHand, EachRowOnce, [Next]_vars PROVE EachRowOnce'
<1>1. ASSUME NEW o \in Orders, Place(o) \/ Prune(o) PROVE EachRowOnce'
  BY <1>1 DEF EachRowOnce, IsNext, Place, Prune, relayVars
<1>2. ASSUME NEW r \in Relays, FlushBegin(r) \/ FlushCommit(r) \/ Scan(r) PROVE EachRowOnce'
  <2>1. /\ attempted' = attempted /\ attempted[r] = {}
        /\ \A q \in Relays \ {r} : todo'[q] = todo[q] /\ pc'[q] = pc[q]
    BY <1>2 DEF TypeOK, NothingInHand, FlushBegin, FlushCommit, Scan
  <2> QED
    BY <2>1 DEF EachRowOnce, IsNext
<1>3. ASSUME NEW r \in Relays, LeaveBatch(r) PROVE EachRowOnce'
  <2>1. /\ todo'[r] = {}
        /\ \A q \in Relays \ {r} : todo'[q] = todo[q] /\ attempted'[q] = attempted[q]
                                   /\ pc'[q] = pc[q]
    BY <1>3 DEF TypeOK, LeaveBatch
  <2> QED
    BY <2>1 DEF EachRowOnce, IsNext
<1>4. ASSUME NEW r \in Relays, NEW o \in Orders, PublishConfirmed(r, o) PROVE EachRowOnce'
  <2>1. /\ todo' = todo /\ IsNext(r, o) /\ pc[r] = "publish" /\ pc'[r] = "mark"
        /\ attempted'[r] = attempted[r] \cup {o}
        /\ \A q \in Relays \ {r} : attempted'[q] = attempted[q] /\ pc'[q] = pc[q]
    BY <1>4 DEF TypeOK, PublishConfirmed
  <2>2. todo[r] \cap attempted'[r] \subseteq {o}
    BY <2>1 DEF EachRowOnce
  <2> QED
    BY <2>1, <2>2 DEF EachRowOnce, IsNext
<1>5. ASSUME NEW r \in Relays, NEW o \in Orders, Mark(r, o) PROVE EachRowOnce'
  <2>1. /\ attempted' = attempted /\ todo'[r] = todo[r] \ {o} /\ IsNext(r, o)
        /\ \A q \in Relays \ {r} : todo'[q] = todo[q] /\ pc'[q] = pc[q]
    BY <1>5 DEF TypeOK, Mark
  <2>2. ASSUME NEW p \in todo[r] \cap attempted[r] PROVE p = o
    <3>1. p \in todo[r] /\ o \in todo[r] /\ o <= p /\ p <= o
      BY <2>1, <2>2 DEF EachRowOnce, IsNext
    <3> QED
      BY <3>1, OrdersAssumption DEF TypeOK
  <2> QED
    BY <2>1, <2>2 DEF EachRowOnce, IsNext
<1>6. CASE UNCHANGED <<pc, todo, attempted>>
  BY <1>6 DEF EachRowOnce, IsNext
<1>7. ASSUME NEW r \in Relays, Work(r) \/ Fault(r) PROVE EachRowOnce'
  BY <1>2, <1>3, <1>4, <1>5, <1>6, <1>7
  DEF Work, Fault, FlushFail, Commit, BatchFail, FlushCommitUnanswered, CommitUnanswered,
      PublishRefused, PublishUnconfirmed, SessionLost, Crash
<1> QED
  BY <1>1, <1>6, <1>7 DEF Next, vars, relayVars

-----------------------------------------------------------------------------
(* A step of one relay changes the late publications of a row by at most its *)
(* own.                                                                       *)
LEMMA LateMoves ==
  ASSUME NEW r \in Relays, NEW o \in Orders,
         \A q \in Relays \ {r} : pc'[q] = pc[q] /\ live'[q] = live[q] /\ todo'[q] = todo[q]
  PROVE  /\ Cardinality(Late(o)) \in Nat /\ Cardinality(Late(o)') \in Nat
         /\ r \in Late(o) /\ r \notin Late(o)' =>
              Cardinality(Late(o)') = Cardinality(Late(o)) - 1
         /\ r \notin Late(o) /\ r \in Late(o)' =>
              Cardinality(Late(o)') = Cardinality(Late(o)) + 1
         /\ (r \in Late(o) <=> r \in Late(o)') =>
              Cardinality(Late(o)') = Cardinality(Late(o))
<1>1. IsFiniteSet(Late(o)) /\ IsFiniteSet(Late(o)')
  BY RelaysAssumption, FS_Subset DEF Late
<1>2. Late(o)' \ {r} = Late(o) \ {r}
  BY DEF Late
<1>3. CASE r \in Late(o) /\ r \notin Late(o)'
  <2>1. Late(o)' = Late(o) \ {r}
    BY <1>2, <1>3
  <2> QED
    BY <1>1, <1>3, <2>1, FS_CardinalityType, FS_RemoveElement
<1>4. CASE r \notin Late(o) /\ r \in Late(o)'
  <2>1. Late(o)' = Late(o) \cup {r}
    BY <1>2, <1>4
  <2> QED
    BY <1>1, <1>4, <2>1, FS_CardinalityType, FS_AddElement
<1>5. CASE r \in Late(o) <=> r \in Late(o)'
  <2>1. Late(o)' = Late(o)
    BY <1>2, <1>5
  <2> QED
    BY <1>1, <1>5, <2>1, FS_CardinalityType
<1> QED
  BY <1>3, <1>4, <1>5

(* The balance of one row after a step of relay r: what is sent or becomes   *)
(* late, and what stops being accounted for, must come with a fault.          *)
LEMMA Balance ==
  ASSUME TypeOK, RepeatsArePaidFor, NEW r \in Relays, NEW o \in Orders,
         \A q \in Relays \ {r} : /\ pc'[q] = pc[q] /\ live'[q] = live[q]
                                 /\ todo'[q] = todo[q] /\ attempted'[q] = attempted[q],
         sent'[o] \in Nat, faults' \in Nat,
         (sent'[o] - sent[o]) + (IF r \in Late(o)' /\ r \notin Late(o) THEN 1 ELSE 0)
             + (IF Accounted(o) /\ ~Accounted(o)' THEN 1 ELSE 0)
           <= (faults' - faults) + (IF r \in Late(o) /\ r \notin Late(o)' THEN 1 ELSE 0)
             + (IF ~Accounted(o) /\ Accounted(o)' THEN 1 ELSE 0)
  PROVE  sent'[o] + Cardinality(Late(o)') <= faults' + (IF Accounted(o)' THEN 1 ELSE 0)
<1> DEFINE A == IF Accounted(o) THEN 1 ELSE 0
           B == IF Accounted(o)' THEN 1 ELSE 0
           late == IF r \in Late(o)' /\ r \notin Late(o) THEN 1 ELSE 0
           done == IF r \in Late(o) /\ r \notin Late(o)' THEN 1 ELSE 0
           gone == IF Accounted(o) /\ ~Accounted(o)' THEN 1 ELSE 0
           new == IF ~Accounted(o) /\ Accounted(o)' THEN 1 ELSE 0
<1>1. Cardinality(Late(o)) \in Nat /\ Cardinality(Late(o)') \in Nat
      /\ Cardinality(Late(o)') = Cardinality(Late(o)) + late - done
  BY LateMoves
<1>2. A \in 0..1 /\ B \in 0..1 /\ B = A - gone + new
      /\ late \in 0..1 /\ done \in 0..1 /\ gone \in 0..1 /\ new \in 0..1
  OBVIOUS
<1>3. sent[o] + Cardinality(Late(o)) <= faults + A
  BY DEF RepeatsArePaidFor
<1>4. sent[o] \in Nat /\ faults \in Nat
  BY BoundsAssumption DEF TypeOK
<1>5. (sent'[o] - sent[o]) + late + gone <= (faults' - faults) + done + new
  OBVIOUS
<1> HIDE DEF A, B, late, done, gone, new
<1>6. sent'[o] + Cardinality(Late(o)') <= faults' + B
  BY <1>1, <1>2, <1>3, <1>4, <1>5
<1> QED
  BY <1>6 DEF B

(* What is accounted for stays so, unless relay r drops it. *)
LEMMA AccountedKept ==
  ASSUME NEW r \in Relays, NEW o \in Orders, Accounted(o), ~Accounted(o)',
         \A q \in Relays \ {r} : live'[q] = live[q] /\ attempted'[q] = attempted[q],
         row'[o] = row[o] \/ row'[o] \in {"published", "deleted"}
  PROVE  live[r] /\ o \in attempted[r] /\ ~(live'[r] /\ o \in attempted'[r]) /\ row'[o] = row[o]
  BY DEF Accounted

(* A relay that publishes a row while its session lives is the first to      *)
(* account for it.                                                            *)
LEMMA NotYetAccounted ==
  ASSUME TypeOK, BatchOwnsItsRows, EachRowOnce, NEW r \in Relays, NEW o \in todo[r],
         live[r], pc[r] = "publish"
  PROVE  o \in Orders /\ ~Accounted(o)
<1>1. o \in Orders /\ holder[o] = r /\ row[o] = "pending"
  BY DEF TypeOK, BatchOwnsItsRows
<1>2. ASSUME NEW q \in Relays, live[q], o \in attempted[q] PROVE FALSE
  <2>1. q = r
    BY <1>1, <1>2 DEF BatchOwnsItsRows
  <2> QED
    BY <1>2, <2>1 DEF EachRowOnce
<1> QED
  BY <1>1, <1>2 DEF Accounted

(* Every publication beyond the accounted one is paid for by a fault. *)
LEMMA RepeatsStep ==
  ASSUME TypeOK, NothingInHand, BatchOwnsItsRows, EachRowOnce, RepeatsArePaidFor,
         [Next]_vars
  PROVE  RepeatsArePaidFor'
<1> DEFINE Others(r) == \A q \in Relays \ {r} :
                          /\ pc'[q] = pc[q] /\ live'[q] = live[q]
                          /\ todo'[q] = todo[q] /\ attempted'[q] = attempted[q]
<1>1. ASSUME NEW p \in Orders, Place(p) \/ Prune(p) PROVE RepeatsArePaidFor'
  <2>1. ASSUME NEW o \in Orders
        PROVE  Late(o)' = Late(o) /\ (Accounted(o) => Accounted(o)')
    BY <1>1 DEF TypeOK, Late, Accounted, Place, Prune, relayVars
  <2>2. sent' = sent /\ faults' = faults
    BY <1>1 DEF Place, Prune, history
  <2>3. ASSUME NEW o \in Orders
        PROVE  sent'[o] + Cardinality(Late(o)') <= faults' + (IF Accounted(o)' THEN 1 ELSE 0)
    <3>1. sent[o] + Cardinality(Late(o)) <= faults + (IF Accounted(o) THEN 1 ELSE 0)
      BY DEF RepeatsArePaidFor
    <3>2. sent[o] \in Nat /\ faults \in Nat /\ Cardinality(Late(o)) \in Nat
      BY BoundsAssumption, RelaysAssumption, FS_Subset, FS_CardinalityType DEF TypeOK, Late
    <3> QED
      BY <2>1, <2>2, <3>1, <3>2
  <2> QED
    BY <2>3 DEF RepeatsArePaidFor
<1>2. ASSUME NEW r \in Relays,
             FlushBegin(r) \/ FlushCommit(r) \/ Scan(r) \/ \E p \in Orders : Mark(r, p)
      PROVE RepeatsArePaidFor'
  <2>1. /\ Others(r) /\ live[r] /\ live' = live /\ row' = row /\ attempted' = attempted
        /\ sent' = sent /\ faults' = faults
    BY <1>2 DEF TypeOK, NothingInHand, FlushBegin, FlushCommit, Scan, Mark, dbVars, history
  <2>2. ASSUME NEW o \in Orders
        PROVE  sent'[o] + Cardinality(Late(o)') <= faults' + (IF Accounted(o)' THEN 1 ELSE 0)
    <3>1. r \notin Late(o)' /\ (Accounted(o) <=> Accounted(o)')
      BY <2>1 DEF Late, Accounted
    <3>2. sent[o] \in Nat /\ faults \in Nat
      BY BoundsAssumption DEF TypeOK
    <3> QED
      BY <2>1, <3>1, <3>2, Balance
  <2> QED
    BY <2>2 DEF RepeatsArePaidFor
<1>3. ASSUME NEW r \in Relays, LeaveBatch(r), sent' = sent, NEW paid \in 0..1,
             faults' = faults + paid,
             \A o \in Orders : row'[o] = row[o] \/ row'[o] \in {"published", "deleted"},
             live[r] /\ paid = 0 => \A o \in attempted[r] : row'[o] = "published"
      PROVE RepeatsArePaidFor'
  <2>1. Others(r) /\ todo'[r] = {}
    BY <1>3 DEF TypeOK, LeaveBatch
  <2>2. ASSUME NEW o \in Orders
        PROVE  sent'[o] + Cardinality(Late(o)') <= faults' + (IF Accounted(o)' THEN 1 ELSE 0)
    <3>1. r \notin Late(o)'
      BY <2>1 DEF Late
    <3>2. Accounted(o) /\ ~Accounted(o)' => paid = 1
      BY <1>3, <2>1, AccountedKept DEF Accounted
    <3>3. sent[o] \in Nat /\ faults \in Nat
      BY BoundsAssumption DEF TypeOK
    <3> QED
      BY <1>3, <2>1, <3>1, <3>2, <3>3, Balance
  <2> QED
    BY <2>2 DEF RepeatsArePaidFor
<1>4. ASSUME NEW r \in Relays,
             \/ FlushFail(r) \/ BatchFail(r) \/ Commit(r)
             \/ CommitUnanswered(r) \/ FlushCommitUnanswered(r) \/ Crash(r)
             \/ \E p \in Orders : PublishRefused(r, p)
      PROVE RepeatsArePaidFor'
  <2>1. CASE FlushFail(r) \/ BatchFail(r)
    <3>1. /\ LeaveBatch(r) /\ sent' = sent /\ row' = row /\ faults' = faults + 0 /\ ~live[r]
      BY <2>1, BoundsAssumption DEF TypeOK, FlushFail, BatchFail, history
    <3> QED
      BY <3>1, <1>3
  <2>2. CASE Commit(r)
    <3>1. /\ LeaveBatch(r) /\ sent' = sent /\ faults' = faults + 0
          /\ \A o \in Orders : row'[o] = row[o] \/ row'[o] = "published"
          /\ \A o \in attempted[r] : row'[o] = "published"
      BY <2>2, BoundsAssumption DEF TypeOK, Commit, CommitMarks, history
    <3> QED
      BY <3>1, <1>3
  <2>3. CASE \/ CommitUnanswered(r) \/ FlushCommitUnanswered(r) \/ Crash(r)
             \/ \E p \in Orders : PublishRefused(r, p)
    <3>1. /\ LeaveBatch(r) /\ sent' = sent /\ faults' = faults + 1
          /\ \A o \in Orders : row'[o] = row[o] \/ row'[o] = "published"
      BY <2>3 DEF TypeOK, CommitUnanswered, CommitMarks, FlushCommitUnanswered, Crash,
                  PublishRefused, OneFault
    <3> QED
      BY <3>1, <1>3
  <2> QED
    BY <1>4, <2>1, <2>2, <2>3
<1>5. ASSUME NEW r \in Relays, NEW p \in Orders, PublishConfirmed(r, p)
      PROVE RepeatsArePaidFor'
  <2>1. /\ Others(r) /\ live' = live /\ row' = row /\ todo' = todo
        /\ pc[r] = "publish" /\ pc'[r] = "mark" /\ p \in todo[r]
        /\ attempted'[r] = attempted[r] \cup {p}
        /\ faults' = faults + 0 /\ sent'[p] = sent[p] + 1
        /\ \A o \in Orders \ {p} : sent'[o] = sent[o] + 0
    BY <1>5, BoundsAssumption DEF TypeOK, PublishConfirmed, IsNext, Accept, dbVars
  <2>2. ASSUME NEW o \in Orders
        PROVE  /\ r \notin Late(o)' /\ row'[o] = row[o]
               /\ (Accounted(o) => Accounted(o)')
               /\ sent[o] \in Nat /\ faults \in Nat
    BY <2>1, BoundsAssumption DEF TypeOK, Late, Accounted
  <2>3. ASSUME NEW o \in Orders \ {p}
        PROVE  sent'[o] + Cardinality(Late(o)') <= faults' + (IF Accounted(o)' THEN 1 ELSE 0)
    BY <2>1, <2>2, Balance
  <2>4. CASE live[r]
    <3>1. ~Accounted(p) /\ Accounted(p)'
      BY <2>1, <2>4, NotYetAccounted DEF Accounted
    <3>2. sent'[p] + Cardinality(Late(p)') <= faults' + (IF Accounted(p)' THEN 1 ELSE 0)
      BY <2>1, <2>2, <3>1, Balance
    <3> QED
      BY <2>3, <3>2 DEF RepeatsArePaidFor
  <2>5. CASE ~live[r]
    <3>1. r \in Late(p) /\ r \notin Late(p)'
      BY <2>1, <2>5 DEF Late
    <3>2. sent'[p] + Cardinality(Late(p)') <= faults' + (IF Accounted(p)' THEN 1 ELSE 0)
      BY <2>1, <2>2, <3>1, Balance
    <3> QED
      BY <2>3, <3>2 DEF RepeatsArePaidFor
  <2> QED
    BY <2>4, <2>5
<1>6. ASSUME NEW r \in Relays, NEW p \in Orders, PublishUnconfirmed(r, p)
      PROVE RepeatsArePaidFor'
  <2>1. /\ Others(r) /\ row' = row /\ todo'[r] = {} /\ attempted'[r] = {}
        /\ pc[r] = "publish" /\ p \in todo[r]
        /\ faults' = faults + 1 /\ sent'[p] = sent[p] + 1
        /\ \A o \in Orders \ {p} : sent'[o] = sent[o] + 0
    BY <1>6, BoundsAssumption
    DEF TypeOK, PublishUnconfirmed, LeaveBatch, IsNext, Accept, OneFault
  <2>2. ASSUME NEW o \in Orders
        PROVE  r \notin Late(o)' /\ row'[o] = row[o] /\ sent[o] \in Nat /\ faults \in Nat
    BY <2>1, BoundsAssumption DEF Late, TypeOK
  <2>3. ASSUME NEW o \in Orders \ {p}
        PROVE  sent'[o] + Cardinality(Late(o)') <= faults' + (IF Accounted(o)' THEN 1 ELSE 0)
    BY <2>1, <2>2, Balance
  <2>4. p \notin attempted[r]
    BY <2>1 DEF EachRowOnce
  <2>5. ~(Accounted(p) /\ ~Accounted(p)')
    BY <2>1, <2>2, <2>4, AccountedKept
  <2>6. sent'[p] + Cardinality(Late(p)') <= faults' + (IF Accounted(p)' THEN 1 ELSE 0)
    BY <2>1, <2>2, <2>5, Balance
  <2> QED
    BY <2>3, <2>6 DEF RepeatsArePaidFor
<1>7. ASSUME NEW r \in Relays, SessionLost(r) PROVE RepeatsArePaidFor'
  <2>1. /\ Others(r) /\ row' = row /\ todo' = todo /\ attempted' = attempted /\ pc' = pc
        /\ faults' = faults + 1 /\ sent' = sent
    BY <1>7 DEF TypeOK, SessionLost, OneFault, history
  <2>2. ASSUME NEW o \in Orders
        PROVE  sent'[o] + Cardinality(Late(o)') <= faults' + (IF Accounted(o)' THEN 1 ELSE 0)
    <3>1. sent[o] \in Nat /\ faults \in Nat /\ row'[o] = row[o]
      BY <2>1, BoundsAssumption DEF TypeOK
    <3>2. CASE o \in attempted[r]
      <4>1. r \notin Late(o)'
        BY <2>1, <3>2 DEF Late, EachRowOnce
      <4> QED
        BY <2>1, <3>1, <4>1, Balance
    <3>3. CASE o \notin attempted[r]
      <4>1. ~(Accounted(o) /\ ~Accounted(o)')
        BY <2>1, <3>1, <3>3, AccountedKept
      <4> QED
        BY <2>1, <3>1, <4>1, Balance
    <3> QED
      BY <3>2, <3>3
  <2> QED
    BY <2>2 DEF RepeatsArePaidFor
<1>8. CASE UNCHANGED vars
  BY <1>8 DEF RepeatsArePaidFor, Late, Accounted, vars, dbVars, relayVars, history
<1> QED
  BY <1>1, <1>2, <1>4, <1>5, <1>6, <1>7, <1>8 DEF Next, Work, Fault

(* Retention leaves its trace. *)
LEMMA DeletedStep ==
  ASSUME TypeOK, \A o \in Orders : row[o] = "deleted" => "row" \in lost, [Next]_vars
  PROVE  \A o \in Orders : row'[o] = "deleted" => "row" \in lost'
<1>1. ASSUME NEW p \in Orders, Place(p) \/ Prune(p)
      PROVE  \A o \in Orders : row'[o] = "deleted" => "row" \in lost'
  BY <1>1 DEF TypeOK, Place, Prune, history
<1>2. ASSUME NEW r \in Relays, Work(r) \/ Fault(r)
      PROVE  \A o \in Orders : row'[o] = "deleted" => "row" \in lost'
  <2>1. lost \subseteq lost' /\ (row' = row \/ CommitMarks(r))
    BY <1>2 DEF Work, Fault, FlushBegin, FlushCommit, FlushFail, Scan, PublishConfirmed,
       Mark, Commit, BatchFail, FlushCommitUnanswered, CommitUnanswered, PublishRefused,
       PublishUnconfirmed, SessionLost, Crash, dbVars, history
  <2> QED
    BY <2>1 DEF CommitMarks
<1> QED
  BY <1>1, <1>2 DEF Next, vars, dbVars, history

(* OutboxInv holds in every reachable state. *)
THEOREM OutboxInvariant == Spec => []OutboxInv
<1>1. Init => OutboxInv
  <2> SUFFICES ASSUME Init PROVE OutboxInv
    OBVIOUS
  <2>1. TypeOK /\ NothingInHand /\ BatchOwnsItsRows
    BY RelaysAssumption, BoundsAssumption
    DEF Init, TypeOK, RowStates, NothingInHand, BatchOwnsItsRows
  <2>2. AttemptedIsAccepted /\ PublishedMeansAccepted /\ EachRowOnce
    BY DEF Init, AttemptedIsAccepted, PublishedMeansAccepted, EachRowOnce
  <2>3. RepeatsArePaidFor
    <3>1. \A o \in Orders : Late(o) = {} /\ sent[o] = 0 /\ faults = 0
      BY DEF Init, Late
    <3> QED
      BY <3>1, FS_EmptySet DEF RepeatsArePaidFor
  <2> QED
    BY <2>1, <2>2, <2>3 DEF OutboxInv, Init
<1>2. OutboxInv /\ [Next]_vars => OutboxInv'
  BY TypeStep, OwnershipStep, AcceptanceStep, EachRowOnceStep, RepeatsStep, DeletedStep
  DEF OutboxInv
<1> QED
  BY <1>1, <1>2, PTL DEF Spec

(* Without a failure an event is published at most once. *)
THEOREM RepeatsNeedFaults == Spec => []DuplicatesNeedFaults
<1>1. OutboxInv => DuplicatesNeedFaults
  <2> SUFFICES ASSUME OutboxInv, NEW o \in Orders PROVE sent[o] <= 1 + faults
    BY DEF DuplicatesNeedFaults
  <2>1. IsFiniteSet(Late(o))
    BY RelaysAssumption, FS_Subset DEF Late
  <2>2. Cardinality(Late(o)) \in Nat /\ sent[o] \in Nat /\ faults \in Nat
    BY <2>1, BoundsAssumption, FS_CardinalityType DEF OutboxInv, TypeOK
  <2> QED
    BY <2>2 DEF OutboxInv, RepeatsArePaidFor
<1> QED
  BY <1>1, OutboxInvariant, PTL

-----------------------------------------------------------------------------
(* Numbering the counts of the relays: the sum of counts, without a sum. *)
LEMMA NumberedBut ==
  ASSUME NEW f \in [Relays -> Nat], NEW r \in Relays
  PROVE  LET others == UNION {{q} \X (1..f[q]) : q \in Relays \ {r}}
         IN  /\ IsFiniteSet(others) /\ Cardinality(others) \in Nat
             /\ Cardinality(Numbered(f)) = Cardinality(others) + f[r]
<1> DEFINE Own(q) == {q} \X (1..f[q])
           parts == {Own(q) : q \in Relays \ {r}}
           others == UNION parts
<1>1. ASSUME NEW q \in Relays PROVE IsFiniteSet(Own(q)) /\ Cardinality(Own(q)) = f[q]
  <2>1. IsFiniteSet({q}) /\ Cardinality({q}) = 1
    BY FS_Singleton
  <2>2. f[q] \in Nat /\ IsFiniteSet(1..f[q]) /\ Cardinality(1..f[q]) = f[q]
    BY FS_Interval
  <2>3. IsFiniteSet(Own(q)) /\ Cardinality(Own(q)) = Cardinality({q}) * Cardinality(1..f[q])
    BY <2>1, <2>2, FS_Product
  <2>4. \A n \in Nat : 1 * n = n
    OBVIOUS
  <2> QED
    BY <2>1, <2>2, <2>3, <2>4
<1>2. IsFiniteSet(parts)
  <2>1. [q \in Relays \ {r} |-> Own(q)] \in Surjection(Relays \ {r}, parts)
    BY DEF Surjection
  <2>2. IsFiniteSet(Relays \ {r})
    BY RelaysAssumption, FS_Difference
  <2> QED
    BY <2>1, <2>2, FS_Surjection
<1>3. IsFiniteSet(others)
  BY <1>1, <1>2, FS_UNION
<1>4. Numbered(f) = others \cup Own(r)
  BY DEF Numbered
<1>5. others \cap Own(r) = {}
  OBVIOUS
<1>6. Cardinality(others) \in Nat
  BY <1>3, FS_CardinalityType
<1>7. Cardinality(Numbered(f)) =
        Cardinality(others) + Cardinality(Own(r)) - Cardinality(others \cap Own(r))
  BY <1>1, <1>3, <1>4, FS_Union
<1>8. Cardinality(others \cap Own(r)) = 0
  BY <1>5, FS_EmptySet
<1>9. Cardinality(Numbered(f)) = Cardinality(others) + f[r]
  BY <1>1, <1>6, <1>7, <1>8
<1> QED
  BY <1>3, <1>6, <1>9

LEMMA NumberedMoves ==
  ASSUME NEW f \in [Relays -> Nat], NEW g \in [Relays -> Nat], NEW r \in Relays,
         \A q \in Relays \ {r} : g[q] = f[q]
  PROVE  /\ Cardinality(Numbered(f)) \in Nat /\ Cardinality(Numbered(g)) \in Nat
         /\ Cardinality(Numbered(g)) - g[r] = Cardinality(Numbered(f)) - f[r]
<1>1. UNION {{q} \X (1..f[q]) : q \in Relays \ {r}} = UNION {{q} \X (1..g[q]) : q \in Relays \ {r}}
  OBVIOUS
<1> DEFINE others == UNION {{q} \X (1..f[q]) : q \in Relays \ {r}}
<1>2. f[r] \in Nat /\ g[r] \in Nat
  OBVIOUS
<1>3. Cardinality(others) \in Nat /\ Cardinality(Numbered(f)) = Cardinality(others) + f[r]
  BY NumberedBut
<1>4. Cardinality(Numbered(g)) = Cardinality(others) + g[r]
  BY <1>1, NumberedBut
<1> HIDE DEF others
<1> QED
  BY <1>2, <1>3, <1>4

LEMMA NumberedZero ==
  Cardinality(Numbered([r \in Relays |-> 0])) = 0
<1>1. Numbered([r \in Relays |-> 0]) = {}
  BY DEF Numbered
<1> QED
  BY <1>1, FS_EmptySet

(* What a step of one relay does to the number of unfinished attempts. *)
LEMMA UnfinishedMoves ==
  ASSUME NEW r \in Relays, NEW o \in Orders,
         \A q \in Relays \ {r} : attempted'[q] = attempted[q]
  PROVE  /\ Unfinished(o) \in Nat /\ Unfinished(o)' \in Nat
         /\ o \in attempted[r] /\ o \notin attempted'[r] => Unfinished(o)' = Unfinished(o) - 1
         /\ o \notin attempted[r] /\ o \in attempted'[r] => Unfinished(o)' = Unfinished(o) + 1
         /\ (o \in attempted[r] <=> o \in attempted'[r]) => Unfinished(o)' = Unfinished(o)
<1> DEFINE S == {q \in Relays : o \in attempted[q]}
           T == {q \in Relays : o \in attempted'[q]}
<1>1. IsFiniteSet(S) /\ IsFiniteSet(T)
  BY RelaysAssumption, FS_Subset
<1>2. T \ {r} = S \ {r}
  OBVIOUS
<1>3. Unfinished(o) = Cardinality(S) /\ Unfinished(o)' = Cardinality(T)
  BY DEF Unfinished
<1>4. CASE r \in S /\ r \notin T
  <2>1. T = S \ {r}
    BY <1>2, <1>4
  <2> HIDE DEF S, T
  <2>2. Cardinality(T) = Cardinality(S) - 1 /\ Cardinality(S) \in Nat /\ Cardinality(T) \in Nat
    BY <1>1, <1>4, <2>1, FS_CardinalityType, FS_RemoveElement
  <2> QED
    BY <1>3, <1>4, <2>2 DEF S, T
<1>5. CASE r \notin S /\ r \in T
  <2>1. T = S \cup {r}
    BY <1>2, <1>5
  <2> HIDE DEF S, T
  <2>2. Cardinality(T) = Cardinality(S) + 1 /\ Cardinality(S) \in Nat /\ Cardinality(T) \in Nat
    BY <1>1, <1>5, <2>1, FS_CardinalityType, FS_AddElement
  <2> QED
    BY <1>3, <1>5, <2>2 DEF S, T
<1>6. CASE r \in S <=> r \in T
  <2>1. T = S
    BY <1>2, <1>6
  <2> HIDE DEF S, T
  <2>2. Cardinality(T) = Cardinality(S) /\ Cardinality(S) \in Nat /\ Cardinality(T) \in Nat
    BY <1>1, <2>1, FS_CardinalityType
  <2> QED
    BY <1>3, <1>6, <2>2 DEF S, T
<1> QED
  BY <1>4, <1>5, <1>6

(* The entries of row o in the ledger after a step of relay r: what leaves    *)
(* the map or the batch must arrive in the row, and the other way round.      *)
Counted(o) == attempts[o] + Remembered(o) + Unfinished(o)
Open(r, o) == failed[r][o] + (IF o \in attempted[r] THEN 1 ELSE 0)

LEMMA LedgerMoves ==
  ASSUME TypeOK, TypeOK', NEW r \in Relays, NEW o \in Orders,
         \A q \in Relays \ {r} : attempted'[q] = attempted[q] /\ failed'[q] = failed[q]
  PROVE  /\ Counted(o) \in Nat /\ Counted(o)' \in Nat
         /\ Open(r, o) \in Nat /\ Open(r, o)' \in Nat
         /\ Counted(o)' = Counted(o) + (attempts'[o] - attempts[o]) + (Open(r, o)' - Open(r, o))
<1> DEFINE f == [q \in Relays |-> failed[q][o]]
           g == [q \in Relays |-> failed'[q][o]]
           a == IF o \in attempted[r] THEN 1 ELSE 0
           b == IF o \in attempted'[r] THEN 1 ELSE 0
<1>1. f \in [Relays -> Nat] /\ g \in [Relays -> Nat] /\ \A q \in Relays \ {r} : g[q] = f[q]
  BY DEF TypeOK
<1>2. /\ Remembered(o) = Cardinality(Numbered(f)) /\ Remembered(o)' = Cardinality(Numbered(g))
      /\ f[r] = failed[r][o] /\ g[r] = failed'[r][o]
  BY DEF Remembered, Numbered
<1> HIDE DEF f, g
<1>3. /\ Remembered(o) \in Nat /\ Remembered(o)' \in Nat
      /\ failed[r][o] \in Nat /\ failed'[r][o] \in Nat
      /\ Remembered(o)' - failed'[r][o] = Remembered(o) - failed[r][o]
  BY <1>1, <1>2, NumberedMoves
<1>4. /\ Unfinished(o) \in Nat /\ Unfinished(o)' \in Nat /\ a \in 0..1 /\ b \in 0..1
      /\ Unfinished(o)' = Unfinished(o) + b - a
  BY UnfinishedMoves
<1>5. attempts[o] \in Nat /\ attempts'[o] \in Nat
  BY DEF TypeOK
<1>6. Open(r, o) = failed[r][o] + a /\ Open(r, o)' = failed'[r][o] + b
  BY DEF Open
<1>7. /\ Counted(o) = attempts[o] + Remembered(o) + Unfinished(o)
      /\ Counted(o)' = attempts'[o] + Remembered(o)' + Unfinished(o)'
  BY DEF Counted
<1> HIDE DEF a, b
<1>8. Open(r, o) \in Nat /\ Open(r, o)' \in Nat
  BY <1>3, <1>4, <1>6
<1>9. Counted(o) \in Nat /\ Counted(o)' \in Nat
  BY <1>3, <1>4, <1>5, <1>7
<1>10. Counted(o)' = Counted(o) + (attempts'[o] - attempts[o]) + (Open(r, o)' - Open(r, o))
  <2>1. PICK df \in Int : failed'[r][o] = failed[r][o] + df /\ Remembered(o)' = Remembered(o) + df
    <3>1. failed'[r][o] - failed[r][o] \in Int
      BY <1>3
    <3> QED
      BY <1>3, <3>1
  <2>2. PICK du \in Int : b = a + du /\ Unfinished(o)' = Unfinished(o) + du
    <3>1. b - a \in Int
      BY <1>4
    <3> QED
      BY <1>4, <3>1
  <2>3. PICK da \in Int : attempts'[o] = attempts[o] + da
    <3>1. attempts'[o] - attempts[o] \in Int
      BY <1>5
    <3> QED
      BY <1>5, <3>1
  <2>4. Counted(o)' = Counted(o) + da + (df + du)
    BY <1>3, <1>4, <1>5, <1>7, <2>1, <2>2, <2>3
  <2>5. Open(r, o)' = Open(r, o) + (df + du)
    BY <1>3, <1>4, <1>6, <2>1, <2>2
  <2> QED
    BY <1>5, <1>8, <1>9, <2>3, <2>4, <2>5
<1> QED
  BY <1>8, <1>9, <1>10

Balanced(o) ==
  /\ "answer" \notin lost => Counted(o) <= tries[o]
  /\ lost = {} => Counted(o) = tries[o]

LEMMA LedgerIsBalance == AttemptsLedger <=> \A o \in Orders : Balanced(o)
  BY DEF AttemptsLedger, Balanced, Counted

(* A row stays balanced when relay r moves as many entries as it tries; when *)
(* it forgets some, something must have been lost.                            *)
LEMMA StaysBalanced ==
  ASSUME TypeOK, TypeOK', NEW o \in Orders, Balanced(o), NEW r \in Relays,
         \A q \in Relays \ {r} : attempted'[q] = attempted[q] /\ failed'[q] = failed[q],
         lost \subseteq lost',
         \/ "answer" \in lost'
         \/ attempts'[o] + Open(r, o)' - tries'[o] = attempts[o] + Open(r, o) - tries[o]
         \/ /\ lost' # {}
            /\ attempts'[o] + Open(r, o)' - tries'[o] <= attempts[o] + Open(r, o) - tries[o]
  PROVE  Balanced(o)'
<1>1. /\ Counted(o) \in Nat /\ Counted(o)' \in Nat
      /\ Open(r, o) \in Nat /\ Open(r, o)' \in Nat
      /\ Counted(o)' = Counted(o) + (attempts'[o] - attempts[o]) + (Open(r, o)' - Open(r, o))
  BY LedgerMoves
<1>2. /\ attempts[o] \in Nat /\ attempts'[o] \in Nat
      /\ tries[o] \in Nat /\ tries'[o] \in Nat
  BY DEF TypeOK
<1>3. CASE "answer" \in lost'
  BY <1>3 DEF Balanced
<1>4. CASE attempts'[o] + Open(r, o)' - tries'[o] = attempts[o] + Open(r, o) - tries[o]
  <2>1. Counted(o)' - tries'[o] = Counted(o) - tries[o]
    BY <1>1, <1>2, <1>4
  <2> QED
    BY <1>1, <1>2, <2>1 DEF Balanced
<1>5. CASE /\ lost' # {}
           /\ attempts'[o] + Open(r, o)' - tries'[o] <= attempts[o] + Open(r, o) - tries[o]
  <2>1. Counted(o)' - tries'[o] <= Counted(o) - tries[o]
    BY <1>1, <1>2, <1>5
  <2> QED
    BY <1>1, <1>2, <1>5, <2>1 DEF Balanced
<1> QED
  BY <1>3, <1>4, <1>5

(* The catch block moves the attempts of the batch into the map. *)
LEMMA CatchBlockMoves ==
  ASSUME TypeOK, NEW r \in Relays, NEW ids, CountFailures(r, ids), LeaveBatch(r),
         attempted[r] \subseteq ids, NEW o \in Orders
  PROVE  /\ \A q \in Relays \ {r} : attempted'[q] = attempted[q] /\ failed'[q] = failed[q]
         /\ Open(r, o) \in Nat
         /\ Open(r, o)' = Open(r, o) + (IF o \in ids \ attempted[r] THEN 1 ELSE 0)
<1>1. /\ \A q \in Relays \ {r} : attempted'[q] = attempted[q] /\ failed'[q] = failed[q]
      /\ attempted'[r] = {}
  BY DEF TypeOK, CountFailures, LeaveBatch
<1>2. failed'[r][o] = failed[r][o] + (IF o \in ids THEN 1 ELSE 0) /\ failed[r][o] \in Nat
  BY DEF TypeOK, CountFailures
<1>3. CASE o \in attempted[r]
  BY <1>1, <1>2, <1>3 DEF Open
<1>4. CASE o \notin attempted[r] /\ o \in ids
  BY <1>1, <1>2, <1>4 DEF Open
<1>5. CASE o \notin ids
  BY <1>1, <1>2, <1>5 DEF Open
<1> QED
  BY <1>3, <1>4, <1>5

(* Every attempt is in a row, in a map or in an open batch. *)
LEMMA LedgerStep ==
  ASSUME OutboxInv, TypeOK', [Next]_vars, NEW o \in Orders, Balanced(o)
  PROVE  Balanced(o)'
<1> USE DEF OutboxInv
<1>1. ASSUME UNCHANGED <<attempts, failed, attempted, tries>>, lost \subseteq lost'
      PROVE  Balanced(o)'
  <2>1. Counted(o)' = Counted(o)
    BY <1>1 DEF Counted, Remembered, Unfinished
  <2>2. (Counted(o) \in Nat /\ tries[o] \in Nat) \/ Relays = {}
    BY LedgerMoves, <1>1 DEF TypeOK
  <2>3. CASE Relays = {}
    <3>1. Balanced(o)' \/ lost' # {}
      BY <1>1, <2>1 DEF Balanced
    <3> QED
      BY <1>1, <2>1, <3>1 DEF Balanced
  <2> QED
    BY <1>1, <2>1, <2>2, <2>3 DEF Balanced
<1>2. ASSUME NEW p \in Orders, Place(p) \/ Prune(p) PROVE Balanced(o)'
  BY <1>1, <1>2 DEF Place, Prune, relayVars, history
<1>3. ASSUME NEW r \in Relays,
             FlushBegin(r) \/ Scan(r) \/ SessionLost(r) \/ \E p \in Orders : Mark(r, p)
      PROVE  Balanced(o)'
  BY <1>1, <1>3 DEF FlushBegin, Scan, SessionLost, Mark, dbVars, history
<1>4. ASSUME NEW r \in Relays, FlushCommit(r) PROVE Balanced(o)'
  <2>1. /\ \A q \in Relays \ {r} : attempted'[q] = attempted[q] /\ failed'[q] = failed[q]
        /\ attempted' = attempted /\ tries' = tries /\ lost' = lost
        /\ attempts'[o] = attempts[o] + (IF o \in todo[r] THEN failed[r][o] ELSE 0)
        /\ failed'[r][o] = IF o \in todo[r] \/ row[o] = "deleted" THEN 0 ELSE failed[r][o]
    BY <1>4 DEF TypeOK, FlushCommit, FlushedAttempts, history
  <2>2. failed[r][o] \in Nat /\ attempts[o] \in Nat /\ tries[o] \in Nat
    BY DEF TypeOK
  <2>3. row[o] = "deleted" => lost' # {}
    BY <2>1
  <2>4. \/ attempts'[o] + Open(r, o)' - tries'[o] = attempts[o] + Open(r, o) - tries[o]
        \/ /\ lost' # {}
           /\ attempts'[o] + Open(r, o)' - tries'[o] <= attempts[o] + Open(r, o) - tries[o]
    BY <2>1, <2>2, <2>3 DEF Open
  <2> QED
    BY <2>1, <2>4, StaysBalanced
<1>5. ASSUME NEW r \in Relays, FlushFail(r) PROVE Balanced(o)'
  <2>1. attempted' = attempted
    BY <1>5 DEF TypeOK, NothingInHand, FlushFail, LeaveBatch
  <2> QED
    BY <1>1, <1>5, <2>1 DEF FlushFail, history
<1>6. ASSUME NEW r \in Relays, FlushCommitUnanswered(r) \/ CommitUnanswered(r)
      PROVE Balanced(o)'
  BY <1>6 DEF Balanced, FlushCommitUnanswered, CommitUnanswered
<1>7. ASSUME NEW r \in Relays, Commit(r) PROVE Balanced(o)'
  <2>1. /\ \A q \in Relays \ {r} : attempted'[q] = attempted[q] /\ failed'[q] = failed[q]
        /\ attempted'[r] = {} /\ failed' = failed /\ tries' = tries /\ lost' = lost
        /\ attempts'[o] = attempts[o] + (IF o \in attempted[r] THEN 1 ELSE 0)
    BY <1>7 DEF TypeOK, Commit, CommitMarks, LeaveBatch, history
  <2>2. failed[r][o] \in Nat /\ attempts[o] \in Nat /\ tries[o] \in Nat
    BY DEF TypeOK
  <2>3. attempts'[o] + Open(r, o)' - tries'[o] = attempts[o] + Open(r, o) - tries[o]
    BY <2>1, <2>2 DEF Open
  <2> QED
    BY <2>1, <2>3, StaysBalanced
<1>8. ASSUME NEW r \in Relays, BatchFail(r) PROVE Balanced(o)'
  <2>1. /\ \A q \in Relays \ {r} : attempted'[q] = attempted[q] /\ failed'[q] = failed[q]
        /\ Open(r, o) \in Nat /\ Open(r, o)' = Open(r, o) + 0
    BY <1>8, CatchBlockMoves DEF BatchFail
  <2>2. attempts' = attempts /\ tries' = tries /\ lost' = lost
    BY <1>8 DEF BatchFail, history
  <2>3. attempts'[o] + Open(r, o)' - tries'[o] = attempts[o] + Open(r, o) - tries[o]
    BY <2>1, <2>2
  <2> QED
    BY <2>1, <2>2, <2>3, StaysBalanced
<1>9. ASSUME NEW r \in Relays, NEW p \in Orders, PublishRefused(r, p) \/ PublishUnconfirmed(r, p)
      PROVE Balanced(o)'
  <2>1. p \notin attempted[r]
    BY <1>9 DEF EachRowOnce, PublishRefused, PublishUnconfirmed, IsNext
  <2>2. /\ \A q \in Relays \ {r} : attempted'[q] = attempted[q] /\ failed'[q] = failed[q]
        /\ Open(r, o) \in Nat /\ Open(r, o)' = Open(r, o) + (IF o = p THEN 1 ELSE 0)
    <3>1. o \in (attempted[r] \cup {p}) \ attempted[r] <=> o = p
      BY <2>1
    <3> QED
      BY <1>9, <3>1, CatchBlockMoves DEF PublishRefused, PublishUnconfirmed
  <2>3. /\ attempts' = attempts /\ lost' = lost
        /\ tries'[o] = tries[o] + (IF o = p THEN 1 ELSE 0)
        /\ attempts[o] \in Nat /\ tries[o] \in Nat
    BY <1>9 DEF TypeOK, PublishRefused, PublishUnconfirmed, Try
  <2>4. attempts'[o] + Open(r, o)' - tries'[o] = attempts[o] + Open(r, o) - tries[o]
    BY <2>2, <2>3
  <2> QED
    BY <2>2, <2>3, <2>4, StaysBalanced
<1>10. ASSUME NEW r \in Relays, NEW p \in Orders, PublishConfirmed(r, p) PROVE Balanced(o)'
  <2>1. p \notin attempted[r]
    BY <1>10 DEF EachRowOnce, PublishConfirmed, IsNext
  <2>2. /\ \A q \in Relays \ {r} : attempted'[q] = attempted[q] /\ failed'[q] = failed[q]
        /\ attempted'[r] = attempted[r] \cup {p} /\ failed' = failed
        /\ attempts' = attempts /\ lost' = lost
        /\ tries'[o] = tries[o] + (IF o = p THEN 1 ELSE 0)
    BY <1>10 DEF TypeOK, PublishConfirmed, Try, dbVars
  <2>3. failed[r][o] \in Nat /\ attempts[o] \in Nat /\ tries[o] \in Nat
    BY DEF TypeOK
  <2>4. attempts'[o] + Open(r, o)' - tries'[o] = attempts[o] + Open(r, o) - tries[o]
    BY <2>1, <2>2, <2>3 DEF Open
  <2> QED
    BY <2>2, <2>4, StaysBalanced
<1>11. ASSUME NEW r \in Relays, Crash(r) PROVE Balanced(o)'
  <2>1. /\ \A q \in Relays \ {r} : attempted'[q] = attempted[q] /\ failed'[q] = failed[q]
        /\ attempted'[r] = {} /\ failed'[r][o] = 0
        /\ attempts' = attempts /\ tries' = tries /\ lost' = lost \cup {"memory"}
    BY <1>11 DEF TypeOK, Crash, LeaveBatch
  <2>2. failed[r][o] \in Nat /\ attempts[o] \in Nat /\ tries[o] \in Nat
    BY DEF TypeOK
  <2>3. attempts'[o] + Open(r, o)' - tries'[o] <= attempts[o] + Open(r, o) - tries[o]
    BY <2>1, <2>2 DEF Open
  <2> QED
    BY <2>1, <2>3, StaysBalanced
<1>12. CASE UNCHANGED vars
  BY <1>1, <1>12 DEF vars, dbVars, relayVars, history
<1> QED
  BY <1>2, <1>3, <1>4, <1>5, <1>6, <1>7, <1>8, <1>9, <1>10, <1>11, <1>12
  DEF Next, Work, Fault

(* outbox.attempts, the maps and the open batches account for every attempt. *)
THEOREM LedgerHolds == Spec => []AttemptsLedger
<1>1. Init => AttemptsLedger
  <2> SUFFICES ASSUME Init, NEW o \in Orders PROVE Balanced(o)
    BY LedgerIsBalance
  <2>1. Remembered(o) = 0
    <3>1. [r \in Relays |-> failed[r][o]] = [r \in Relays |-> 0]
      BY DEF Init
    <3> QED
      BY <3>1, NumberedZero DEF Remembered
  <2>2. Unfinished(o) = 0
    <3>1. {r \in Relays : o \in attempted[r]} = {}
      BY DEF Init
    <3> QED
      BY <3>1, FS_EmptySet DEF Unfinished
  <2>3. attempts[o] = 0 /\ tries[o] = 0
    BY DEF Init
  <2> QED
    BY <2>1, <2>2, <2>3 DEF Balanced, Counted
<1>2. OutboxInv /\ OutboxInv' /\ AttemptsLedger /\ [Next]_vars => AttemptsLedger'
  <2> SUFFICES ASSUME OutboxInv, OutboxInv', AttemptsLedger, [Next]_vars
               PROVE  \A o \in Orders : Balanced(o)'
    BY LedgerIsBalance DEF AttemptsLedger, Balanced, Counted
  <2> QED
    BY LedgerStep, LedgerIsBalance DEF OutboxInv
<1> QED
  BY <1>1, <1>2, OutboxInvariant, PTL DEF Spec

-----------------------------------------------------------------------------
(* Whatever fails, a row marked as published has been accepted by the broker. *)
THEOREM NoMarkWithoutEvent == Spec => []PublishedMeansAccepted
  BY OutboxInvariant, PTL DEF OutboxInv

(* A batch whose session lives holds the lock of every row it works on. *)
THEOREM BatchesOwnRows == Spec => []BatchOwnsItsRows
  BY OutboxInvariant, PTL DEF OutboxInv

(* Only the relay whose transaction holds a row marks it, and only orders    *)
(* and retention change a row otherwise.                                       *)
THEOREM OnlyTheHolderMarks == Spec => MarkedByItsHolder
<1> DEFINE Allowed ==
      \A o \in Orders : row[o] # row'[o] =>
        \/ row[o] = "none" /\ row'[o] = "pending"
        \/ row[o] = "published" /\ row'[o] = "deleted" /\ holder[o] = NoRelay
        \/ /\ row[o] = "pending" /\ row'[o] = "published"
           /\ \E r \in Relays : holder[o] = r /\ o \in attempted[r]
<1>1. ASSUME OutboxInv, [Next]_vars PROVE Allowed
  <2>1. ASSUME NEW p \in Orders, Place(p) \/ Prune(p) PROVE Allowed
    BY <1>1, <2>1 DEF OutboxInv, TypeOK, Place, Prune, Unlocked
  <2>2. ASSUME NEW r \in Relays, Commit(r) \/ CommitUnanswered(r) PROVE Allowed
    <3>1. live[r] /\ pc[r] = "commit" /\ CommitMarks(r)
      BY <2>2 DEF Commit, CommitUnanswered
    <3>2. \A o \in attempted[r] : row[o] = "pending" /\ holder[o] = r
      BY <1>1, <3>1 DEF OutboxInv, BatchOwnsItsRows
    <3> QED
      BY <3>1, <3>2 DEF CommitMarks
  <2>3. CASE row' = row
    BY <2>3
  <2>4. row' = row \/ (\E p \in Orders : Place(p) \/ Prune(p))
                  \/ (\E r \in Relays : Commit(r) \/ CommitUnanswered(r))
    BY <1>1 DEF Next, Work, Fault, vars, dbVars, FlushBegin, FlushCommit, FlushFail,
       Scan, PublishConfirmed, Mark, BatchFail, FlushCommitUnanswered,
       PublishRefused, PublishUnconfirmed, SessionLost, Crash
  <2> QED
    BY <2>1, <2>2, <2>3, <2>4
<1> QED
  BY <1>1, OutboxInvariant, PTL DEF Spec, MarkedByItsHolder
=============================================================================
