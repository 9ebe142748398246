-------------------------- MODULE StandaloneProofs --------------------------
(***************************************************************************)
(* Proofs about components that share no state with one another:             *)
(*   DlqDrain            nothing leaves the dead-letter queue without a        *)
(*                       complete archive, whatever drains at once              *)
(*   RetryTransaction    no update is lost or applied twice, and every          *)
(*                       serialization failure is paid for by another's success *)
(*   PasswordRotation    a rotation that succeeds leaves one password           *)
(*   AsideCache          no stale card outlives an invalidation; one reader     *)
(*                       fills a cold key                                       *)
(*   Operations          retention keeps the newest bundle; a drill removes     *)
(*                       what it made                                           *)
(*   ConfirmedPublisher  a publication that resolved is queued                  *)
(*   RequestEdge         no burst beyond the limit, sessions are earned         *)
(*   OrderFeed           events follow commits, replays are exact, streams      *)
(*                       have no gap                                            *)
(*   Paging              walks are exact                                        *)
(*   WarmUpServer        a response does not depend on how TCP cut the request  *)
(***************************************************************************)
EXTENDS DlqDrain, RetryTransaction, PasswordRotation, AsideCache, Operations,
        ConfirmedPublisher, RequestEdge, OrderFeed, Paging, WarmUpServer,
        FiniteSetTheorems, SequenceTheorems, NaturalsInduction,
        WellFoundedInduction, TLAPS

LEMMA ReadyIsCountable == Cardinality(Ready) \in Nat
<1>1. IsFiniteSet(Ready)
  BY DeadAssumption, FS_Subset DEF Ready
<1> QED
  BY <1>1, FS_CardinalityType

(* A statement that archives: only its run moves, and only copies of its      *)
(* message may be added.                                                       *)
LEMMA ArchivingKeepsInv ==
  ASSUME DrainInv, NEW d \in Drains, NEW from \in Archiving, NEW to \in Archiving,
         drain[d].at = from,
         \/ drain' = [drain EXCEPT ![d].at = to]
         \/ drain' = [drain EXCEPT ![d].at = to, ![d].synced = TRUE],
         from # "ack", to \in {"rename", "syncFolder", "ack"} => drain'[d].synced,
         UNCHANGED <<queue, losses>>,
         IF to = "ack" THEN copies' = Kept(d) /\ drain[d].synced ELSE copies' = copies
  PROVE  DrainInv'
<1> USE DEF DrainInv
<1>1. /\ drain' \in [Drains -> Drained]
      /\ drain[d].at = from /\ drain'[d].at = to /\ drain'[d].of = drain[d].of
      /\ \A e \in Drains \ {d} : drain'[e] = drain[e]
  BY DEF DrainTypeOK, Drained
<1>2. drain[d].of \in Dead /\ queue[drain[d].of] = d
  BY <1>1 DEF OneArchiveEach, DrainTypeOK, Drained
<1>3. /\ copies' \in [Dead -> Nat]
      /\ \A m \in Dead : m # drain[d].of => copies'[m] = copies[m]
      /\ copies'[drain[d].of] = copies[drain[d].of] + (IF to = "ack" THEN 1 ELSE 0)
  BY <1>2 DEF DrainTypeOK, Kept
<1>4. DrainTypeOK'
  BY <1>1, <1>3 DEF DrainTypeOK
<1>5. ArchivedBeforeGone'
  BY <1>3 DEF ArchivedBeforeGone, DrainTypeOK
<1>6. copies[drain[d].of] <= losses
  BY <1>1 DEF OneArchiveEach
<1>7. OneArchiveEach'
  <2>1. \A e \in Drains : drain'[e].at \in Archiving <=> drain'[e].of # NoMessage
    BY <1>1 DEF OneArchiveEach
  <2>2. \A e \in Drains, m \in Dead : queue[m] = e <=> drain'[e].of = m
    BY <1>1 DEF OneArchiveEach
  <2>3. \A e \in Drains : drain'[e].at \in {"rename", "syncFolder", "ack"} => drain'[e].synced
    BY <1>1 DEF OneArchiveEach
  <2>4. ASSUME NEW e \in Drains, drain'[e].at \in Archiving
        PROVE  IF drain'[e].at = "ack" THEN copies'[drain'[e].of] >= 1
               ELSE copies'[drain'[e].of] <= losses
    <3>1. CASE e = d
      BY <3>1, <1>1, <1>2, <1>3, <1>6 DEF DrainTypeOK
    <3>2. CASE e # d
      <4>1. /\ drain'[e] = drain[e] /\ drain[e].of \in Dead /\ queue[drain[e].of] = e
        BY <2>4, <3>2, <1>1 DEF OneArchiveEach, DrainTypeOK, Drained
      <4>2. drain[e].of # drain[d].of
        BY <4>1, <1>2, <3>2
      <4> QED
        BY <4>1, <4>2, <2>4, <1>3 DEF OneArchiveEach
    <3> QED
      BY <3>1, <3>2
  <2>5. \A m \in Dead : copies'[m] <= losses + (IF queue[m] \in {"elsewhere", "ready"} THEN 0 ELSE 1)
    BY <1>2, <1>3, <1>6, DrainsAssumption DEF OneArchiveEach, DrainTypeOK
  <2> QED
    BY <2>1, <2>2, <2>3, <2>4, <2>5 DEF OneArchiveEach, Archiving
<1> QED
  BY <1>4, <1>5, <1>7

(* A failed run gives its message back; its archive may have been completed. *)
LEMMA FailureKeepsInv ==
  ASSUME DrainInv, NEW d \in Drains, Lose, drain[d].at \notin {"end", "failed"},
         queue' = Requeued(d),
         drain' = [drain EXCEPT ![d].at = "failed", ![d].of = NoMessage],
         \/ copies' = copies
         \/ drain[d].at = "syncFolder" /\ copies' = Kept(d)
  PROVE  DrainInv'
<1> USE DEF DrainInv
<1>1. /\ drain' \in [Drains -> Drained]
      /\ drain'[d].at = "failed" /\ drain'[d].of = NoMessage
      /\ \A e \in Drains \ {d} : drain'[e] = drain[e]
  BY DEF DrainTypeOK, Drained
<1>2. /\ losses' = losses + 1 /\ losses' \in 0..MaxLosses /\ losses \in Nat
  BY LimitAssumption DEF Lose, DrainTypeOK
<1>3. /\ queue' \in [Dead -> {"elsewhere", "ready", "gone"} \cup Drains]
      /\ \A m \in Dead : queue'[m] = IF queue[m] = d THEN "ready" ELSE queue[m]
  BY DEF Requeued, DrainTypeOK
<1>4. /\ copies' \in [Dead -> Nat]
      /\ \A m \in Dead : copies'[m] >= copies[m]
      /\ \A m \in Dead : queue[m] # d => copies'[m] = copies[m]
      /\ \A m \in Dead : queue[m] = d => copies'[m] <= losses'
  <2>1. CASE copies' = copies
    BY <2>1, <1>2 DEF DrainTypeOK, OneArchiveEach
  <2>2. CASE drain[d].at = "syncFolder" /\ copies' = Kept(d)
    <3>1. drain[d].of \in Dead /\ copies[drain[d].of] <= losses /\ drain[d].synced
      BY <2>2 DEF OneArchiveEach, Archiving, DrainTypeOK, Drained
    <3>2. \A m \in Dead : copies'[m] = IF m = drain[d].of THEN copies[m] + 1 ELSE copies[m]
      BY <2>2, <3>1 DEF Kept, DrainTypeOK
    <3> QED
      BY <2>2, <3>1, <3>2, <1>2 DEF Kept, DrainTypeOK, OneArchiveEach
  <2> QED
    BY <2>1, <2>2
<1>5. DrainTypeOK'
  BY <1>1, <1>2, <1>3, <1>4 DEF DrainTypeOK
<1>6. ArchivedBeforeGone'
  BY <1>3, <1>4, DrainsAssumption DEF ArchivedBeforeGone, DrainTypeOK
<1>7. OneArchiveEach'
  <2>1. \A e \in Drains : drain'[e].at \in Archiving <=> drain'[e].of # NoMessage
    BY <1>1 DEF OneArchiveEach, Archiving
  <2>2. ASSUME NEW e \in Drains, NEW m \in Dead PROVE queue'[m] = e <=> drain'[e].of = m
    BY <1>1, <1>3, DeadAssumption, DrainsAssumption DEF OneArchiveEach
  <2>3. \A e \in Drains : drain'[e].at \in {"rename", "syncFolder", "ack"} => drain'[e].synced
    BY <1>1 DEF OneArchiveEach
  <2>4. ASSUME NEW e \in Drains, drain'[e].at \in Archiving
        PROVE  IF drain'[e].at = "ack" THEN copies'[drain'[e].of] >= 1
               ELSE copies'[drain'[e].of] <= losses'
    <3>1. e # d /\ drain'[e] = drain[e]
      BY <2>4, <1>1 DEF Archiving
    <3>2. drain[e].of \in Dead /\ queue[drain[e].of] = e
      BY <2>4, <3>1 DEF OneArchiveEach, DrainTypeOK, Drained
    <3>3. copies'[drain[e].of] = copies[drain[e].of] /\ copies[drain[e].of] \in Nat
      BY <3>1, <3>2, <1>4 DEF DrainTypeOK
    <3> QED
      BY <2>4, <3>1, <3>3, <1>2 DEF OneArchiveEach
  <2>5. ASSUME NEW m \in Dead
        PROVE  copies'[m] <= losses' + (IF queue'[m] \in {"elsewhere", "ready"} THEN 0 ELSE 1)
    BY <1>2, <1>3, <1>4, DrainsAssumption DEF OneArchiveEach, DrainTypeOK
  <2> QED
    BY <2>1, <2>2, <2>3, <2>4, <2>5 DEF OneArchiveEach, Archiving
<1> QED
  BY <1>5, <1>6, <1>7

(* What is left of a budget after one more message. *)
LEMMA OneLess == ASSUME NEW n \in Nat, NEW k \in 0..n, k > 0 PROVE k - 1 \in 0..n
  OBVIOUS

(* Every step keeps the invariant: one case per action of DrainNext. *)
LEMMA DrainStepKeepsInv == DrainInv /\ [DrainNext]_drainVars => DrainInv'
<1> SUFFICES ASSUME DrainInv, [DrainNext]_drainVars PROVE DrainInv'
  OBVIOUS
<1>1. ASSUME NEW m \in Dead, DeadLetter(m) PROVE DrainInv'
  BY <1>1, DrainsAssumption DEF DeadLetter, DrainInv, DrainTypeOK, ArchivedBeforeGone, OneArchiveEach
<1>2. ASSUME NEW d \in Drains, CheckQueue(d) \/ Leave(d) PROVE DrainInv'
  <2>1. /\ drain' \in [Drains -> Drained] /\ UNCHANGED <<queue, copies, losses>>
        /\ drain[d].at \in {"start", "get"} /\ drain'[d].at \in {"get", "end"}
        /\ drain'[d].of = drain[d].of
        /\ \A e \in Drains \ {d} : drain'[e] = drain[e]
    BY <1>2, ReadyIsCountable, LimitAssumption
    DEF CheckQueue, Leave, Goes, DrainInv, DrainTypeOK, Drained
  <2> QED
    BY <2>1 DEF DrainInv, DrainTypeOK, ArchivedBeforeGone, OneArchiveEach, Archiving
<1>3. ASSUME NEW d \in Drains, NEW m \in Dead, Get(d, m) PROVE DrainInv'
  <2>1. /\ drain' \in [Drains -> Drained] /\ UNCHANGED <<copies, losses>>
        /\ drain'[d].at = "write" /\ drain'[d].of = m /\ drain[d].of = NoMessage
        /\ \A e \in Drains \ {d} : drain'[e] = drain[e]
    <3>1. drain[d].at = "get" /\ drain[d].budget \in 0..Limit /\ drain[d].budget > 0
      BY <1>3 DEF Get, DrainInv, DrainTypeOK, Drained
    <3>2. drain[d].budget - 1 \in 0..Limit
      <4>1. Limit \in Nat
        BY LimitAssumption
      <4> QED
        BY <3>1, <4>1, OneLess, ZenonT(40)
    <3>3. drain[d].of = NoMessage
      BY <3>1 DEF DrainInv, OneArchiveEach, Archiving
    <3> QED
      BY <1>3, <3>2, <3>3 DEF Get, DrainInv, DrainTypeOK, Drained, Archiving
  <2>2. /\ queue' \in [Dead -> {"elsewhere", "ready", "gone"} \cup Drains]
        /\ queue[m] = "ready" /\ queue'[m] = d
        /\ \A x \in Dead \ {m} : queue'[x] = queue[x]
    BY <1>3 DEF Get, Ready, DrainInv, DrainTypeOK
  <2>3. copies[m] <= losses /\ losses \in Nat
    BY <2>2 DEF DrainInv, OneArchiveEach, DrainTypeOK
  <2>4. DrainTypeOK' /\ ArchivedBeforeGone'
    BY <2>1, <2>2, DrainsAssumption DEF DrainInv, DrainTypeOK, ArchivedBeforeGone
  <2>5. \A e \in Drains : drain'[e].at \in Archiving <=> drain'[e].of # NoMessage
    BY <2>1, DeadAssumption DEF DrainInv, OneArchiveEach, Archiving
  <2>6. \A e \in Drains, x \in Dead : queue'[x] = e <=> drain'[e].of = x
    BY <2>1, <2>2, DrainsAssumption, DeadAssumption DEF DrainInv, OneArchiveEach
  <2>7. \A x \in Dead : copies[x] <= losses + (IF queue'[x] \in {"elsewhere", "ready"} THEN 0 ELSE 1)
    BY <2>2, <2>3 DEF DrainInv, OneArchiveEach, DrainTypeOK
  <2> QED
    BY <2>1, <2>3, <2>4, <2>5, <2>6, <2>7 DEF DrainInv, OneArchiveEach
<1>4. ASSUME NEW d \in Drains, Write(d) \/ Sync(d) \/ Rename(d) \/ SyncFolder(d)
      PROVE  DrainInv'
  <2> "write" \in Archiving /\ "sync" \in Archiving /\ "rename" \in Archiving
      /\ "syncFolder" \in Archiving /\ "ack" \in Archiving
    BY DEF Archiving
  <2>1. CASE Write(d)
    <3>1. /\ drain[d].at = "write" /\ drain' = [drain EXCEPT ![d].at = "sync"]
          /\ UNCHANGED <<queue, losses>> /\ copies' = copies
      BY <2>1 DEF Write, Goes
    <3> QED
      BY <3>1, ArchivingKeepsInv
  <2>2. CASE Sync(d)
    <3>1. drain'[d].synced
      BY <2>2 DEF Sync, DrainInv, DrainTypeOK, Drained
    <3> QED
      BY <2>2, <3>1, ArchivingKeepsInv DEF Sync
  <2>3. CASE Rename(d)
    <3>1. drain[d].synced /\ drain'[d].synced
      BY <2>3 DEF Rename, Goes, DrainInv, OneArchiveEach, DrainTypeOK, Drained
    <3>2. /\ drain[d].at = "rename" /\ drain' = [drain EXCEPT ![d].at = "syncFolder"]
          /\ UNCHANGED <<queue, losses>> /\ copies' = copies
      BY <2>3 DEF Rename, Goes
    <3> QED
      BY <3>1, <3>2, ArchivingKeepsInv
  <2>4. CASE SyncFolder(d)
    <3>1. drain[d].synced /\ drain'[d].synced
      BY <2>4 DEF SyncFolder, Goes, DrainInv, OneArchiveEach, DrainTypeOK, Drained
    <3>2. /\ drain[d].at = "syncFolder" /\ drain' = [drain EXCEPT ![d].at = "ack"]
          /\ UNCHANGED <<queue, losses>> /\ copies' = Kept(d)
      BY <2>4 DEF SyncFolder, Goes
    <3> QED
      BY <3>1, <3>2, ArchivingKeepsInv
  <2> QED
    BY <1>4, <2>1, <2>2, <2>3, <2>4
<1>5. ASSUME NEW d \in Drains, AckDrained(d) PROVE DrainInv'
  <2>1. CASE Lose /\ queue' = Requeued(d)
             /\ drain' = [drain EXCEPT ![d].at = "failed", ![d].of = NoMessage]
    BY <1>5, <2>1, FailureKeepsInv DEF AckDrained
  <2>2. CASE /\ queue' = [queue EXCEPT ![drain[d].of] = "gone"]
             /\ drain' = [drain EXCEPT ![d].at = "get", ![d].of = NoMessage]
             /\ UNCHANGED losses
    <3>1. /\ drain[d].at = "ack" /\ drain[d].of \in Dead /\ queue[drain[d].of] = d
          /\ copies[drain[d].of] >= 1 /\ copies' = copies
      BY <1>5 DEF AckDrained, DrainInv, OneArchiveEach, Archiving, DrainTypeOK, Drained
    <3>2. /\ drain' \in [Drains -> Drained]
          /\ drain'[d].at = "get" /\ drain'[d].of = NoMessage
          /\ \A e \in Drains \ {d} : drain'[e] = drain[e]
      BY <2>2 DEF DrainInv, DrainTypeOK, Drained
    <3>3. /\ queue' \in [Dead -> {"elsewhere", "ready", "gone"} \cup Drains]
          /\ queue'[drain[d].of] = "gone"
          /\ \A x \in Dead : x # drain[d].of => queue'[x] = queue[x]
      BY <2>2, <3>1 DEF DrainInv, DrainTypeOK
    <3>4. DrainTypeOK' /\ ArchivedBeforeGone'
      BY <2>2, <3>1, <3>2, <3>3 DEF DrainInv, DrainTypeOK, ArchivedBeforeGone
    <3>5. \A e \in Drains : drain'[e].at \in Archiving <=> drain'[e].of # NoMessage
      BY <3>2 DEF DrainInv, OneArchiveEach, Archiving
    <3>6. \A e \in Drains, x \in Dead : queue'[x] = e <=> drain'[e].of = x
      BY <3>1, <3>2, <3>3, DrainsAssumption, DeadAssumption DEF DrainInv, OneArchiveEach
    <3>7. \A x \in Dead : copies[x] <= losses + (IF queue'[x] \in {"elsewhere", "ready"} THEN 0 ELSE 1)
      BY <3>1, <3>3, DrainsAssumption DEF DrainInv, OneArchiveEach
    <3> QED
      BY <2>2, <3>1, <3>2, <3>4, <3>5, <3>6, <3>7 DEF DrainInv, OneArchiveEach, Archiving
  <2> QED
    BY <1>5, <2>1, <2>2 DEF AckDrained
<1>6. ASSUME NEW d \in Drains, DrainBreaks(d) PROVE DrainInv'
  BY <1>6, FailureKeepsInv DEF DrainBreaks
<1>7. CASE UNCHANGED drainVars
  BY <1>7 DEF drainVars, DrainInv, DrainTypeOK, ArchivedBeforeGone, OneArchiveEach
<1> QED
  BY <1>1, <1>2, <1>3, <1>4, <1>5, <1>6, <1>7 DEF DrainNext, DrainStep

(* DrainInv holds in every reachable state: however many operators drain and  *)
(* whatever fails, a message leaves the queue only with a complete archive,     *)
(* and every archive beyond the first was paid for by a failure.                *)
THEOREM DrainInvariant == DrainSpec => []DrainInv
<1>1. DrainInit => DrainInv
  <2> SUFFICES ASSUME DrainInit PROVE DrainInv
    OBVIOUS
  <2>1. DrainTypeOK
    BY LimitAssumption DEF DrainInit, DrainTypeOK, Drained
  <2>2. ArchivedBeforeGone /\ OneArchiveEach
    BY DeadAssumption, DrainsAssumption DEF DrainInit, ArchivedBeforeGone, OneArchiveEach, Archiving
  <2> QED
    BY <2>1, <2>2 DEF DrainInv
<1> QED
  BY <1>1, DrainStepKeepsInv, PTL DEF DrainSpec

-----------------------------------------------------------------------------
LEMMA SubsetsAreCountable ==
  ASSUME NEW S \in SUBSET Callers
  PROVE  IsFiniteSet(S) /\ Cardinality(S) \in Nat
  BY CallersAssumption, FS_Subset, FS_CardinalityType

LEMMA PlanType ==
  ASSUME NEW c \in Callers
  PROVE  /\ Plan[c] \in Seq(Rows) /\ Len(Plan[c]) \in Nat
         /\ \A i \in 1..Len(Plan[c]) : Plan[c][i] \in Rows /\ Plan[c][i] \in PlanOf(c)
         /\ \A x \in PlanOf(c) : \E i \in 1..Len(Plan[c]) : x = Plan[c][i]
         /\ Len(Plan[c]) >= 1
<1>1. Plan[c] \in Seq(Rows) /\ Plan[c] # <<>>
  BY PlanAssumption
<1>2. /\ Len(Plan[c]) \in Nat /\ DOMAIN Plan[c] = 1..Len(Plan[c])
      /\ Len(Plan[c]) >= 1 /\ \A i \in 1..Len(Plan[c]) : Plan[c][i] \in Rows
  BY <1>1
<1> QED
  BY <1>1, <1>2 DEF PlanOf

LEMMA ReleaseType ==
  ASSUME RetryTypeOK, NEW c \in Callers, Release(c)
  PROVE  /\ holder' \in [Rows -> Callers \cup {Free}]
         /\ \A x \in Rows, d \in Callers : d # c /\ holder[x] = d => holder'[x] = d
  BY DEF RetryTypeOK, Release

(* A call that leaves its transaction without effect, to try again or to      *)
(* throw.                                                                      *)
LEMMA LeavingKeepsInv ==
  ASSUME RetryInv, NEW c \in Callers, at[c] \in {"update", "commit"}, Release(c),
         UNCHANGED <<balance, tried, updated, snapshot, applied, seen>>,
         \/ /\ \/ at' = [at EXCEPT ![c] = "begin"] /\ UNCHANGED outcome
               \/ Ends(c, "thrown", "exhausted") /\ tried[c] = MaxAttempts
            /\ \/ /\ conflicts' = [conflicts EXCEPT ![c] = @ + 1] /\ UNCHANGED deadlocks
                  /\ conflicts[c] + 1 <= Cardinality(applied \ {c})
               \/ deadlocks' = [deadlocks EXCEPT ![c] = @ + 1] /\ UNCHANGED conflicts
         \/ Ends(c, "thrown", "error") /\ UNCHANGED failures
  PROVE  RetryInv'
<1> USE DEF RetryInv
<1>1. /\ at' \in [Callers -> {"begin", "update", "commit", "returned", "thrown"}]
      /\ at'[c] \in {"begin", "thrown"}
      /\ \A d \in Callers \ {c} : at'[d] = at[d]
  <2>1. PICK where \in {"begin", "thrown"} : at' = [at EXCEPT ![c] = where]
    <3>1. at' = [at EXCEPT ![c] = "begin"] \/ at' = [at EXCEPT ![c] = "thrown"]
      BY DEF Ends
    <3> QED
      BY <3>1
  <2> QED
    BY <2>1 DEF RetryTypeOK
<1>2. /\ outcome' \in [Callers -> {"none", "done", "exhausted", "error"}]
      /\ \A d \in Callers \ {c} : outcome'[d] = outcome[d]
      /\ at'[c] = "begin" => outcome'[c] = outcome[c]
      /\ \/ outcome'[c] \in {outcome[c], "error"}
         \/ outcome'[c] = "exhausted" /\ tried[c] = MaxAttempts
  <2>1. CASE outcome' = outcome
    BY <2>1 DEF RetryTypeOK
  <2>2. CASE outcome' # outcome
    <3>1. PICK result \in {"error", "exhausted"} :
            /\ at' = [at EXCEPT ![c] = "thrown"] /\ outcome' = [outcome EXCEPT ![c] = result]
            /\ result = "exhausted" => tried[c] = MaxAttempts
      BY <2>2 DEF Ends
    <3> QED
      BY <3>1 DEF RetryTypeOK
  <2> QED
    BY <2>1, <2>2
<1>3. c \notin applied /\ outcome[c] = "none"
  BY DEF SnapshotsHold
<1>4. /\ conflicts' \in [Callers -> Nat] /\ deadlocks' \in [Callers -> Nat]
      /\ \A d \in Callers \ {c} : conflicts'[d] = conflicts[d] /\ deadlocks'[d] = deadlocks[d]
      /\ conflicts'[c] <= Cardinality(applied \ {c})
      /\ tried[c] = conflicts'[c] + deadlocks'[c]
                      + (IF at'[c] = "begin" \/ outcome'[c] = "exhausted" THEN 0 ELSE 1)
  <2>1. /\ conflicts \in [Callers -> Nat] /\ deadlocks \in [Callers -> Nat]
        /\ conflicts[c] <= Cardinality(applied \ {c})
        /\ tried[c] = conflicts[c] + deadlocks[c] + 1
    BY <1>3 DEF RetryTypeOK, GivingUpIsPaid, AttemptsAreCounted
  <2>2. CASE Ends(c, "thrown", "error") /\ UNCHANGED failures
    <3>1. at'[c] = "thrown" /\ outcome'[c] = "error" /\ UNCHANGED <<conflicts, deadlocks>>
      BY <2>2 DEF Ends, RetryTypeOK, failures
    <3> QED
      BY <2>1, <3>1
  <2>3. CASE /\ \/ at' = [at EXCEPT ![c] = "begin"] /\ UNCHANGED outcome
                \/ Ends(c, "thrown", "exhausted") /\ tried[c] = MaxAttempts
             /\ \/ /\ conflicts' = [conflicts EXCEPT ![c] = @ + 1] /\ UNCHANGED deadlocks
                   /\ conflicts[c] + 1 <= Cardinality(applied \ {c})
                \/ deadlocks' = [deadlocks EXCEPT ![c] = @ + 1] /\ UNCHANGED conflicts
    <3>1. at'[c] = "begin" \/ outcome'[c] = "exhausted"
      BY <2>3 DEF Ends, RetryTypeOK
    <3>2. \/ /\ conflicts' = [conflicts EXCEPT ![c] = @ + 1] /\ UNCHANGED deadlocks
             /\ conflicts[c] + 1 <= Cardinality(applied \ {c})
          \/ deadlocks' = [deadlocks EXCEPT ![c] = @ + 1] /\ UNCHANGED conflicts
      BY <2>3
    <3>3. /\ conflicts'[c] + deadlocks'[c] = conflicts[c] + deadlocks[c] + 1
          /\ conflicts'[c] <= Cardinality(applied \ {c})
          /\ conflicts' \in [Callers -> Nat] /\ deadlocks' \in [Callers -> Nat]
          /\ \A d \in Callers \ {c} : conflicts'[d] = conflicts[d] /\ deadlocks'[d] = deadlocks[d]
      BY <2>1, <3>2
    <3> QED
      BY <2>1, <3>1, <3>3
  <2> QED
    BY <2>2, <2>3
<1>5. RetryTypeOK'
  BY <1>1, <1>2, <1>4, ReleaseType DEF RetryTypeOK
<1>6. NoLostUpdate'
  BY DEF NoLostUpdate
<1>7. OutcomesAreTrue'
  BY <1>2, <1>3 DEF OutcomesAreTrue
<1>10. AttemptsAreCounted'
  BY <1>1, <1>2, <1>4 DEF AttemptsAreCounted
<1>8. GivingUpIsPaid'
  <2> SUFFICES ASSUME NEW d \in Callers PROVE GivingUpIsPaid!(d)'
    BY DEF GivingUpIsPaid
  <2>1. CASE d = c
    <3>1. /\ Cardinality(applied \ {c}) \in Nat
          /\ conflicts'[c] \in Nat /\ deadlocks'[c] \in Nat /\ MaxAttempts \in Nat
      BY <1>4, SubsetsAreCountable, AttemptsAssumption DEF RetryTypeOK
    <3>2. outcome'[c] = "exhausted" => tried[c] = MaxAttempts
      BY <1>7 DEF OutcomesAreTrue
    <3>3. outcome'[c] = "exhausted" => conflicts'[c] + deadlocks'[c] = MaxAttempts
      BY <3>1, <3>2, <1>4
    <3> QED
      BY <2>1, <3>1, <3>3, <1>4
  <2>2. CASE d # c
    BY <2>2, <1>2, <1>4 DEF GivingUpIsPaid
  <2> QED
    BY <2>1, <2>2
<1>9. SnapshotsHold'
  <2> SUFFICES ASSUME NEW d \in Callers PROVE SnapshotsHold!(d)'
    BY DEF SnapshotsHold
  <2>1. CASE d = c
    BY <2>1, <1>1, <1>2, <1>3 DEF SnapshotsHold
  <2>2. CASE d # c
    <3>1. /\ at'[d] = at[d] /\ outcome'[d] = outcome[d] /\ conflicts'[d] = conflicts[d]
      BY <2>2, <1>1, <1>2, <1>4
    <3>2. ASSUME at[d] \in {"update", "commit"}, NEW i \in 1..updated[d]
          PROVE  holder'[Plan[d][i]] = d /\ balance[Plan[d][i]] = snapshot[d][Plan[d][i]]
      <4>1. updated[d] \in 0..Len(Plan[d])
        BY <3>2, PlanType DEF SnapshotsHold, RetryTypeOK
      <4>2. Plan[d][i] \in Rows
        BY <4>1, PlanType
      <4> QED
        BY <2>2, <3>2, <4>2, ReleaseType DEF SnapshotsHold
    <3> QED
      BY <3>1, <3>2 DEF SnapshotsHold
  <2> QED
    BY <2>1, <2>2
<1> QED
  BY <1>5, <1>6, <1>7, <1>8, <1>9, <1>10

(* BEGIN: the snapshot shows every applied call. *)
LEMMA BeginKeepsInv ==
  ASSUME RetryInv, NEW c \in Callers, Begin(c)
  PROVE  RetryInv'
<1> USE DEF RetryInv
<1>1. /\ at[c] = "begin" /\ at'[c] = "update"
      /\ at' \in [Callers -> {"begin", "update", "commit", "returned", "thrown"}]
      /\ \A d \in Callers \ {c} : at'[d] = at[d]
  BY DEF Begin, RetryTypeOK
<1>2. /\ tried' \in [Callers -> 0..MaxAttempts]
      /\ \A d \in Callers \ {c} : tried'[d] = tried[d]
  <2>1. tried[c] \in 0..MaxAttempts /\ tried[c] < MaxAttempts
    BY DEF Begin, RetryTypeOK
  <2>2. tried[c] + 1 \in 0..MaxAttempts
    BY <2>1, AttemptsAssumption
  <2> QED
    BY <2>2 DEF Begin, RetryTypeOK
<1>3. /\ updated' \in [Callers -> Nat] /\ updated'[c] = 0
      /\ \A d \in Callers \ {c} : updated'[d] = updated[d]
  BY DEF Begin, RetryTypeOK
<1>4. /\ snapshot' \in [Callers -> [Rows -> SUBSET Callers]] /\ snapshot'[c] = balance
      /\ \A d \in Callers \ {c} : snapshot'[d] = snapshot[d]
  BY DEF Begin, RetryTypeOK
<1>5. /\ seen' \in [Callers -> SUBSET Callers] /\ seen'[c] = applied
      /\ \A d \in Callers \ {c} : seen'[d] = seen[d]
  BY DEF Begin, RetryTypeOK
<1>6. UNCHANGED <<balance, holder, outcome, applied, conflicts, deadlocks>>
  BY DEF Begin, failures
<1>7. RetryTypeOK'
  BY <1>1, <1>2, <1>3, <1>4, <1>5, <1>6 DEF RetryTypeOK
<1>8. NoLostUpdate' /\ GivingUpIsPaid'
  BY <1>6 DEF NoLostUpdate, GivingUpIsPaid
<1>9. c \notin applied /\ outcome[c] = "none"
  BY <1>1 DEF SnapshotsHold
<1>12. AttemptsAreCounted'
  <2>1. /\ tried[c] = conflicts[c] + deadlocks[c] /\ tried'[c] = tried[c] + 1
        /\ conflicts[c] \in Nat /\ deadlocks[c] \in Nat
    BY <1>1 DEF AttemptsAreCounted, Begin, RetryTypeOK
  <2> QED
    BY <2>1, <1>1, <1>2, <1>6, <1>9 DEF AttemptsAreCounted
<1>10. OutcomesAreTrue'
  BY <1>2, <1>6, <1>9 DEF OutcomesAreTrue
<1>11. SnapshotsHold'
  <2> SUFFICES ASSUME NEW d \in Callers PROVE SnapshotsHold!(d)'
    BY DEF SnapshotsHold
  <2>1. CASE d = c
    <3>1. applied \ {c} = applied
      BY <1>9
    <3>2. conflicts[c] <= Cardinality(applied)
      BY <3>1 DEF GivingUpIsPaid
    <3>3. \A x \in Rows : balance[x] = {e \in applied : x \in PlanOf(e)}
      BY DEF NoLostUpdate
    <3>4. 1..updated'[c] = {} /\ updated'[c] < Len(Plan[c])
      BY <1>3, PlanType
    <3> QED
      BY <2>1, <1>1, <1>4, <1>5, <1>6, <1>9, <3>2, <3>3, <3>4
  <2>2. CASE d # c
    <3>1. /\ at'[d] = at[d] /\ updated'[d] = updated[d]
          /\ snapshot'[d] = snapshot[d] /\ seen'[d] = seen[d]
      BY <2>2, <1>1, <1>3, <1>4, <1>5
    <3>2. SnapshotsHold!(d)
      BY DEF SnapshotsHold
    <3> QED
      BY <1>6, <3>1, <3>2
  <2> QED
    BY <2>1, <2>2
<1> QED
  BY <1>7, <1>8, <1>10, <1>11, <1>12

(* An UPDATE takes a row nobody has, unchanged since the snapshot. *)
LEMMA UpdateKeepsInv ==
  ASSUME RetryInv, NEW c \in Callers, Update(c)
  PROVE  RetryInv'
<1> USE DEF RetryInv
<1>1. /\ at[c] = "update" /\ updated[c] \in Nat /\ updated[c] < Len(Plan[c])
  BY DEF Update, SnapshotsHold, RetryTypeOK
<1>2. /\ updated[c] + 1 \in 1..Len(Plan[c]) /\ NextRow(c) \in Rows
      /\ NextRow(c) = Plan[c][updated[c] + 1]
  BY <1>1, PlanType DEF NextRow
<1>3. /\ at' \in [Callers -> {"begin", "update", "commit", "returned", "thrown"}]
      /\ at'[c] = IF updated[c] + 1 = Len(Plan[c]) THEN "commit" ELSE "update"
      /\ \A d \in Callers \ {c} : at'[d] = at[d]
  BY DEF Update, RetryTypeOK
<1>4. /\ updated' \in [Callers -> Nat] /\ updated'[c] = updated[c] + 1
      /\ \A d \in Callers \ {c} : updated'[d] = updated[d]
  BY <1>1 DEF Update, RetryTypeOK
<1>5. /\ holder' \in [Rows -> Callers \cup {Free}] /\ holder'[NextRow(c)] = c
      /\ \A x \in Rows : x # NextRow(c) => holder'[x] = holder[x]
      /\ holder[NextRow(c)] \in {Free, c}
      /\ balance[NextRow(c)] = snapshot[c][NextRow(c)]
  BY <1>2 DEF Update, Unchanged, RetryTypeOK
<1>6. UNCHANGED <<balance, tried, snapshot, outcome, applied, seen, conflicts, deadlocks>>
  BY DEF Update, history, failures
<1>7. RetryTypeOK'
  BY <1>3, <1>4, <1>5, <1>6 DEF RetryTypeOK
<1>8. NoLostUpdate' /\ GivingUpIsPaid' /\ OutcomesAreTrue'
  BY <1>6 DEF NoLostUpdate, GivingUpIsPaid, OutcomesAreTrue
<1>10. AttemptsAreCounted'
  BY <1>1, <1>3, <1>6 DEF AttemptsAreCounted
<1>9. SnapshotsHold'
  <2> SUFFICES ASSUME NEW d \in Callers PROVE SnapshotsHold!(d)'
    BY DEF SnapshotsHold
  <2>1. CASE d = c
    <3>1. ASSUME NEW i \in 1..updated'[c]
          PROVE  holder'[Plan[c][i]] = c /\ balance[Plan[c][i]] = snapshot[c][Plan[c][i]]
      <4>1. CASE i = updated[c] + 1
        BY <4>1, <1>2, <1>5
      <4>2. CASE i # updated[c] + 1
        <5>1. i \in 1..updated[c] /\ Plan[c][i] \in Rows
          BY <4>2, <1>1, <1>4, PlanType
        <5>2. holder[Plan[c][i]] = c /\ balance[Plan[c][i]] = snapshot[c][Plan[c][i]]
          BY <5>1, <1>1 DEF SnapshotsHold
        <5> QED
          BY <5>1, <5>2, <1>5
      <4> QED
        BY <4>1, <4>2
    <3>2. /\ at'[c] = "update" => updated'[c] < Len(Plan[c])
          /\ at'[c] = "commit" => updated'[c] = Len(Plan[c])
      BY <1>1, <1>3, <1>4, PlanType
    <3> QED
      BY <2>1, <1>1, <1>3, <1>6, <3>1, <3>2 DEF SnapshotsHold
  <2>2. CASE d # c
    <3>1. ASSUME at[d] \in {"update", "commit"}, NEW i \in 1..updated[d]
          PROVE  holder'[Plan[d][i]] = d /\ balance[Plan[d][i]] = snapshot[d][Plan[d][i]]
      <4>1. Plan[d][i] \in Rows
        BY <3>1, PlanType DEF SnapshotsHold, RetryTypeOK
      <4>2. holder[Plan[d][i]] = d /\ balance[Plan[d][i]] = snapshot[d][Plan[d][i]]
        BY <3>1 DEF SnapshotsHold
      <4>3. Plan[d][i] # NextRow(c)
        BY <4>2, <2>2, <1>5, CallersAssumption
      <4> QED
        BY <4>1, <4>2, <4>3, <1>5
    <3> QED
      BY <2>2, <3>1, <1>3, <1>4, <1>6 DEF SnapshotsHold
  <2> QED
    BY <2>1, <2>2
<1> QED
  BY <1>7, <1>8, <1>9, <1>10

(* The COMMIT: its rows are as the snapshot shows them and nobody else's. *)
LEMMA CommitKeepsInv ==
  ASSUME RetryInv, NEW c \in Callers, CommitApplies(c),
         NEW how \in {"returned", "thrown"}, NEW result \in {"done", "error"},
         Ends(c, how, result)
  PROVE  RetryInv'
<1> USE DEF RetryInv
<1>1. /\ at[c] = "commit" /\ updated[c] = Len(Plan[c]) /\ c \notin applied
      /\ seen[c] \subseteq applied
  BY DEF CommitApplies, SnapshotsHold
<1>2. \A x \in PlanOf(c) : x \in Rows /\ holder[x] = c /\ balance[x] = snapshot[c][x]
  BY <1>1, PlanType DEF SnapshotsHold
<1>3. /\ applied' = applied \cup {c} /\ Release(c)
      /\ UNCHANGED <<tried, updated, snapshot, seen, conflicts, deadlocks>>
  BY DEF CommitApplies, failures
<1>4. \A x \in Rows : balance'[x] = IF x \in PlanOf(c) THEN balance[x] \cup {c} ELSE balance[x]
  BY <1>2 DEF CommitApplies
<1>5. balance' \in [Rows -> SUBSET Callers]
  BY DEF CommitApplies, RetryTypeOK
<1>6. /\ at' \in [Callers -> {"begin", "update", "commit", "returned", "thrown"}] /\ at'[c] = how
      /\ outcome' \in [Callers -> {"none", "done", "exhausted", "error"}] /\ outcome'[c] = result
      /\ \A d \in Callers \ {c} : at'[d] = at[d] /\ outcome'[d] = outcome[d]
  BY DEF Ends, RetryTypeOK
<1>7. RetryTypeOK'
  BY <1>3, <1>5, <1>6, ReleaseType DEF RetryTypeOK
<1>8. NoLostUpdate'
  <2> SUFFICES ASSUME NEW x \in Rows PROVE balance'[x] = {d \in applied' : x \in PlanOf(d)}
    BY DEF NoLostUpdate
  <2>1. balance[x] = {d \in applied : x \in PlanOf(d)}
    BY DEF NoLostUpdate
  <2> QED
    BY <2>1, <1>3, <1>4
<1>9. OutcomesAreTrue'
  BY <1>1, <1>3, <1>6 DEF OutcomesAreTrue, SnapshotsHold
<1>10. GivingUpIsPaid'
  <2> SUFFICES ASSUME NEW d \in Callers PROVE GivingUpIsPaid!(d)'
    BY DEF GivingUpIsPaid
  <2>1. applied \ {d} \subseteq applied' \ {d} /\ applied' \ {d} \in SUBSET Callers
    BY <1>3, <1>7 DEF RetryTypeOK
  <2>2. /\ Cardinality(applied \ {d}) <= Cardinality(applied' \ {d})
        /\ Cardinality(applied \ {d}) \in Nat /\ Cardinality(applied' \ {d}) \in Nat
    BY <2>1, SubsetsAreCountable, FS_Subset
  <2>3. /\ conflicts[d] <= Cardinality(applied \ {d}) /\ conflicts[d] \in Nat
        /\ outcome[d] = "exhausted" => MaxAttempts <= deadlocks[d] + Cardinality(applied \ {d})
        /\ deadlocks[d] \in Nat /\ MaxAttempts \in Nat
    BY AttemptsAssumption DEF GivingUpIsPaid, RetryTypeOK
  <2>4. outcome'[d] = "exhausted" => outcome[d] = "exhausted"
    BY <1>6
  <2> QED
    BY <2>2, <2>3, <2>4, <1>3
<1>12. AttemptsAreCounted'
  <2>1. outcome[c] # "exhausted"
    BY <1>1 DEF SnapshotsHold
  <2> QED
    BY <2>1, <1>1, <1>3, <1>6 DEF AttemptsAreCounted
<1>11. SnapshotsHold'
  <2> SUFFICES ASSUME NEW d \in Callers PROVE SnapshotsHold!(d)'
    BY DEF SnapshotsHold
  <2>1. CASE d = c
    BY <2>1, <1>6
  <2>2. CASE d # c
    <3>1. ASSUME at[d] \in {"update", "commit"}, NEW i \in 1..updated[d]
          PROVE  holder'[Plan[d][i]] = d /\ balance'[Plan[d][i]] = snapshot[d][Plan[d][i]]
      <4>1. Plan[d][i] \in Rows
        BY <3>1, PlanType DEF SnapshotsHold, RetryTypeOK
      <4>2. holder[Plan[d][i]] = d /\ balance[Plan[d][i]] = snapshot[d][Plan[d][i]]
        BY <3>1 DEF SnapshotsHold
      <4>3. Plan[d][i] \notin PlanOf(c)
        BY <4>2, <2>2, <1>2
      <4>4. holder'[Plan[d][i]] = d
        BY <2>2, <4>1, <4>2, <1>3, ReleaseType
      <4> QED
        BY <4>1, <4>2, <4>3, <4>4, <1>4
    <3> QED
      BY <2>2, <3>1, <1>3, <1>6 DEF SnapshotsHold
  <2> QED
    BY <2>1, <2>2
<1> QED
  BY <1>7, <1>8, <1>9, <1>10, <1>11, <1>12

(* A 40001 in an open transaction: some call was applied that it has not seen. *)
LEMMA ConflictHasWinner ==
  ASSUME RetryInv, NEW c \in Callers, at[c] = "update", ~Unchanged(c, NextRow(c))
  PROVE  conflicts[c] + 1 <= Cardinality(applied \ {c})
<1> USE DEF RetryInv
<1>1. /\ c \notin applied /\ seen[c] \subseteq applied
      /\ conflicts[c] <= Cardinality(seen[c]) /\ conflicts[c] \in Nat
  BY DEF SnapshotsHold, RetryTypeOK
<1>2. NextRow(c) \in Rows
  <2>1. updated[c] + 1 \in 1..Len(Plan[c])
    BY PlanType DEF SnapshotsHold, RetryTypeOK
  <2> QED
    BY <2>1, PlanType DEF NextRow
<1>3. seen[c] # applied
  <2>1. snapshot[c][NextRow(c)] = {d \in seen[c] : NextRow(c) \in PlanOf(d)}
    BY <1>2 DEF SnapshotsHold
  <2>2. balance[NextRow(c)] = {d \in applied : NextRow(c) \in PlanOf(d)}
    BY <1>2 DEF NoLostUpdate
  <2> QED
    BY <2>1, <2>2 DEF Unchanged
<1>4. IsFiniteSet(applied) /\ Cardinality(applied) \in Nat /\ Cardinality(seen[c]) \in Nat
  BY SubsetsAreCountable DEF RetryTypeOK
<1>5. Cardinality(seen[c]) < Cardinality(applied)
  BY <1>1, <1>3, <1>4, FS_Subset
<1>6. applied \ {c} = applied
  BY <1>1
<1> QED
  BY <1>1, <1>4, <1>5, <1>6

(* Every step keeps the invariant: one case per action of RetryNext. *)
LEMMA RetryStep == RetryInv /\ [RetryNext]_retryVars => RetryInv'
<1> SUFFICES ASSUME RetryInv, [RetryNext]_retryVars PROVE RetryInv'
  OBVIOUS
<1>1. ASSUME NEW c \in Callers, RetryOrThrow(c)
      PROVE  /\ Release(c) /\ UNCHANGED <<balance, tried, updated, snapshot, applied, seen>>
             /\ \/ at' = [at EXCEPT ![c] = "begin"] /\ UNCHANGED outcome
                \/ Ends(c, "thrown", "exhausted") /\ tried[c] = MaxAttempts
  <2>1. tried[c] \in 0..MaxAttempts
    BY DEF RetryInv, RetryTypeOK
  <2> QED
    BY <1>1, <2>1, AttemptsAssumption DEF RetryOrThrow
<1>2. ASSUME NEW c \in Callers, SerializationFailure(c) PROVE RetryInv'
  BY <1>1, <1>2, ConflictHasWinner, LeavingKeepsInv DEF SerializationFailure
<1>3. ASSUME NEW c \in Callers, DeadlockDetected(c) PROVE RetryInv'
  BY <1>1, <1>3, LeavingKeepsInv DEF DeadlockDetected
<1>4. ASSUME NEW c \in Callers, OtherError(c) PROVE RetryInv'
  BY <1>4, LeavingKeepsInv DEF OtherError, history, failures
<1>5. ASSUME NEW c \in Callers, Committed(c) \/ CommitLost(c) PROVE RetryInv'
  BY <1>5, CommitKeepsInv DEF Committed, CommitLost
<1>6. CASE UNCHANGED retryVars
  BY <1>6 DEF retryVars, history, failures, RetryInv, RetryTypeOK, NoLostUpdate,
              OutcomesAreTrue, GivingUpIsPaid, AttemptsAreCounted, SnapshotsHold
<1> QED
  BY <1>2, <1>3, <1>4, <1>5, <1>6, BeginKeepsInv, UpdateKeepsInv DEF RetryNext

(* RetryInv holds in every reachable state. *)
THEOREM RetryInvariant == RetrySpec => []RetryInv
<1>1. RetryInit => RetryInv
  <2> SUFFICES ASSUME RetryInit PROVE RetryInv
    OBVIOUS
  <2>1. RetryTypeOK
    BY AttemptsAssumption DEF RetryInit, RetryTypeOK
  <2>2. NoLostUpdate /\ OutcomesAreTrue /\ AttemptsAreCounted /\ SnapshotsHold
    BY DEF RetryInit, NoLostUpdate, OutcomesAreTrue, AttemptsAreCounted, SnapshotsHold
  <2>3. GivingUpIsPaid
    BY SubsetsAreCountable DEF RetryInit, GivingUpIsPaid
  <2> QED
    BY <2>1, <2>2, <2>3 DEF RetryInv
<1> QED
  BY <1>1, RetryStep, PTL DEF RetrySpec

(* No increment is lost and none is applied twice, however often the operation *)
(* was run again.                                                              *)
THEOREM EveryUpdateCounts == RetrySpec => []NoLostUpdate
  BY RetryInvariant, PTL DEF RetryInv

(* A call that gives up failed in every attempt, and met at most as many       *)
(* serialization failures as other calls committed: whatever number of attempts *)
(* goes beyond that was lost to deadlocks.                                     *)
THEOREM NobodyStarves == RetrySpec => []GivingUpIsPaid
  BY RetryInvariant, PTL DEF RetryInv

-----------------------------------------------------------------------------
(* A file that was not written is noted, and what was noted before stays so.  *)
LEMMA SpoilsKeeps ==
  ASSUME spoiled \subseteq {"secret", "userlist"}, NEW file \in {"secret", "userlist"}, Spoils(file)
  PROVE  /\ spoiled' \subseteq {"secret", "userlist"} /\ file \in spoiled'
         /\ "secret" \in spoiled => "secret" \in spoiled'
         /\ "userlist" \in spoiled => "userlist" \in spoiled'
  BY DEF Spoils

(* Numbers of passwords compare as integers, an empty or cut file before all. *)
LEMMA RotationStep == RotationInv /\ [RotationNext]_rotationVars => RotationInv'
<1> SUFFICES ASSUME RotationInv, [RotationNext]_rotationVars PROVE RotationInv'
  OBVIOUS
<1> USE RotationsAssumption DEF RotationInv, RotationTypeOK, StagesFollow, OnePassword,
        OldSessionsAreGone, RoleLeads, Commands, Passwords, Blank, Partial, Go
<1>1. CASE Rotate
  BY <1>1 DEF Rotate, fileVars, poolerVars
<1>2. CASE AlterRole
  BY <1>2 DEF AlterRole, fileVars, poolerVars
<1>3. CASE OpenSecret
  <2>1. CASE Go("openSecret", "writeSecret") /\ secret' = Blank /\ UNCHANGED spoiled
    BY <1>3, <2>1 DEF OpenSecret, poolerVars
  <2>2. CASE Go("openSecret", "openUserlist") /\ Spoils("secret") /\ UNCHANGED secret
    BY <1>3, <2>2, SpoilsKeeps DEF OpenSecret, poolerVars
  <2> QED
    BY <1>3, <2>1, <2>2 DEF OpenSecret
<1>4. CASE WriteSecret
  <2>1. CASE secret' = new /\ UNCHANGED spoiled
    BY <1>4, <2>1 DEF WriteSecret, poolerVars
  <2>2. CASE secret' \in {Blank, Partial} /\ Spoils("secret")
    BY <1>4, <2>2, SpoilsKeeps DEF WriteSecret, poolerVars
  <2> QED
    BY <1>4, <2>1, <2>2 DEF WriteSecret
<1>5. CASE OpenUserlist
  <2>1. CASE Go("openUserlist", "writeUserlist") /\ userlist' = Blank /\ UNCHANGED spoiled
    BY <1>5, <2>1 DEF OpenUserlist, poolerVars
  <2>2. CASE Go("openUserlist", "hangUp") /\ Spoils("userlist") /\ UNCHANGED userlist
    BY <1>5, <2>2, SpoilsKeeps DEF OpenUserlist, poolerVars
  <2> QED
    BY <1>5, <2>1, <2>2 DEF OpenUserlist
<1>6. CASE WriteUserlist
  <2>1. CASE userlist' = new /\ UNCHANGED spoiled
    BY <1>6, <2>1 DEF WriteUserlist, poolerVars
  <2>2. CASE userlist' \in {Blank, Partial} /\ Spoils("userlist")
    BY <1>6, <2>2, SpoilsKeeps DEF WriteUserlist, poolerVars
  <2> QED
    BY <1>6, <2>1, <2>2 DEF WriteUserlist
<1>7. CASE HangUp
  BY <1>7 DEF HangUp, fileVars
<1>8. CASE Terminate
  BY <1>8 DEF Terminate, fileVars
<1>9. CASE Abort
  BY <1>9 DEF Abort, fileVars, poolerVars
<1>10. CASE Bootstrap
  BY <1>10 DEF Bootstrap, scriptVars, poolerVars
<1>11. CASE Reload
  BY <1>11 DEF Reload, scriptVars, fileVars
<1>12. CASE OpenSession
  BY <1>12 DEF OpenSession, scriptVars, fileVars
<1>13. CASE UNCHANGED rotationVars
  BY <1>13 DEF rotationVars, scriptVars, fileVars, poolerVars
<1> QED
  BY <1>1, <1>2, <1>3, <1>4, <1>5, <1>6, <1>7, <1>8, <1>9, <1>10, <1>11, <1>12, <1>13
     DEF RotationNext

(* RotationInv holds in every reachable state. *)
THEOREM RotationInvariant == RotationSpec => []RotationInv
<1>1. RotationInit => RotationInv
  BY RotationsAssumption DEF RotationInit, RotationInv, RotationTypeOK, StagesFollow,
     OnePassword, OldSessionsAreGone, RoleLeads, Commands, Passwords, Blank, Partial
<1> QED
  BY <1>1, RotationStep, PTL DEF RotationSpec

(* After a run of rotate.sh that reports success each file holds the role's    *)
(* password, and PgBouncer's reload is done or due, unless the run failed to    *)
(* write that very file unnoticed: nothing that earlier runs left half done, or *)
(* failed to write, is left.                                                    *)
THEOREM RotationsAreWhole == RotationSpec => []OnePassword
  BY RotationInvariant, PTL DEF RotationInv

-----------------------------------------------------------------------------
(* The cold start. *)
LEMMA FreshInvInit == CacheInit => FreshInv
  BY TokensAssumption
  DEF CacheInit, FreshInv, CacheTypeOK, GetSteps, Empty, CacheNotOlderThanFloor,
      HeldLeasesAreFresh

(* The steps of a call of get(), one case per action. *)
LEMMA ReaderKeepsFresh ==
  ASSUME FreshInv, NEW r \in Readers, BeginGet(r) \/ ReadStep(r) \/ ReadFault(r)
  PROVE  FreshInv'
<1> USE TokensAssumption
    DEF FreshInv, CacheTypeOK, GetSteps, Empty, CacheNotOlderThanFloor,
        HeldLeasesAreFresh, Goto, Take, Forget, Disturb, dbAndWriters
<1>1. CASE BeginGet(r)
  BY <1>1 DEF BeginGet
<1>2. CASE GetKey(r)
  BY <1>2 DEF GetKey
<1>3. CASE SetLease(r)
  BY <1>3 DEF SetLease
<1>4. CASE LookAgain(r)
  BY <1>4 DEF LookAgain
<1>5. CASE GiveUpWaiting(r)
  BY <1>5 DEF GiveUpWaiting
<1>6. CASE Recheck(r)
  BY <1>6 DEF Recheck
<1>7. CASE Load(r)
  BY <1>7 DEF Load
<1>8. CASE PublishCard(r)
  BY <1>8 DEF PublishCard
<1>9. CASE ReleaseLease(r)
  BY <1>9 DEF ReleaseLease
<1>10. CASE AnswerCard(r)
  BY <1>10 DEF AnswerCard
<1>11. CASE LookupFails(r)
  BY <1>11 DEF LookupFails
<1>12. CASE RecheckFails(r)
  BY <1>12 DEF RecheckFails
<1>13. CASE PublishFails(r)
  BY <1>13 DEF PublishFails
<1>14. CASE LoadFails(r)
  BY <1>14 DEF LoadFails
<1>15. CASE ReleaseFails(r)
  BY <1>15 DEF ReleaseFails, Abandon
<1>16. CASE ReaderDies(r)
  <2>1. /\ pc' = [pc EXCEPT ![r] = "idle"]
        /\ value' = [value EXCEPT ![r] = Empty]
        /\ since' = [since EXCEPT ![r] = 0]
        /\ lease' \in {lease, OldToken} /\ lease' # r
        /\ undisturbed' = FALSE /\ loads' = 0
        /\ UNCHANGED <<version, writer, floor, cache>>
    BY <1>16 DEF ReaderDies, Abandon
  <2>2. CacheTypeOK' /\ CacheNotOlderThanFloor'
    BY <2>1
  <2>3. HeldLeasesAreFresh'
    BY <2>1
  <2> QED
    BY <2>1, <2>2, <2>3
<1>17. CASE CommandSentAgain(r)
  <2>1. CASE pc[r] = "publish" /\ lease = r /\ cache' = value[r] /\ UNCHANGED lease
    BY <1>17, <2>1 DEF CommandSentAgain, readerVars
  <2>2. CASE lease' \in {OldToken, NoToken} /\ UNCHANGED cache
    BY <1>17, <2>2 DEF CommandSentAgain, readerVars
  <2> QED
    BY <1>17, <2>1, <2>2 DEF CommandSentAgain
<1> QED
  BY <1>1, <1>2, <1>3, <1>4, <1>5, <1>6, <1>7, <1>8, <1>9, <1>10, <1>11,
     <1>12, <1>13, <1>14, <1>15, <1>16, <1>17 DEF ReadStep, ReadFault

(* Writers and Redis.  A DEL raises the floor and empties both keys, so no   *)
(* lease survives it.                                                          *)
LEMMA WriterKeepsFresh ==
  ASSUME FreshInv,
         \/ \E w \in Writers : CommitWrite(w) \/ Invalidate(w) \/ SkipInvalidation(w)
         \/ LoseLease \/ LoseKey
  PROVE  FreshInv'
<1> USE TokensAssumption
    DEF FreshInv, CacheTypeOK, GetSteps, Empty, CacheNotOlderThanFloor,
        HeldLeasesAreFresh, Disturb, readerVars, dbAndWriters
<1>1. ASSUME NEW w \in Writers, CommitWrite(w)
      PROVE  FreshInv'
  BY <1>1 DEF CommitWrite
<1>2. ASSUME NEW w \in Writers, Invalidate(w)
      PROVE  FreshInv'
  <2>1. CacheTypeOK'
    <3>1. writer' \in [Writers -> {"open", "committed", "done"}]
      BY <1>2 DEF Invalidate
    <3> QED
      BY <3>1, <1>2 DEF Invalidate
  <2>2. CacheNotOlderThanFloor' /\ floor' <= version'
    BY <1>2 DEF Invalidate
  <2>3. lease' = NoToken /\ floor <= floor' /\ UNCHANGED readerVars
    BY <1>2 DEF Invalidate
  <2>4. HeldLeasesAreFresh'
    BY <2>3
  <2>5. \A r \in Readers : since'[r] <= floor'
    BY <2>1, <2>3
  <2> QED
    BY <2>1, <2>2, <2>3, <2>4, <2>5
<1>3. ASSUME NEW w \in Writers, SkipInvalidation(w)
      PROVE  FreshInv'
  BY <1>3 DEF SkipInvalidation
<1>4. CASE LoseLease
  BY <1>4 DEF LoseLease
<1>5. CASE LoseKey
  BY <1>5 DEF LoseKey
<1> QED
  BY <1>1, <1>2, <1>3, <1>4, <1>5

LEMMA FreshStep == FreshInv /\ [CacheNext]_cacheVars => FreshInv'
<1>1. FreshInv /\ UNCHANGED cacheVars => FreshInv'
  BY DEF cacheVars, readerVars, FreshInv, CacheTypeOK, CacheNotOlderThanFloor,
         HeldLeasesAreFresh
<1> QED
  BY <1>1, ReaderKeepsFresh, WriterKeepsFresh DEF CacheNext

(* A disturbance ends the counting: there is nothing left to keep. *)
LEMMA DisturbedKeepsFills ==
  ASSUME Disturb PROVE OneLoadPerFill' /\ FillsAreLeased'
  BY DEF Disturb, OneLoadPerFill, FillsAreLeased

(* The undisturbed steps of a call: it takes a free lease, loads once while   *)
(* it holds it, and gives it back when the key is full.                        *)
LEMMA ReaderKeepsFills ==
  ASSUME FreshInv, OneLoadPerFill, FillsAreLeased, NEW r \in Readers,
         BeginGet(r) \/ ReadStep(r) \/ ReadFault(r)
  PROVE  OneLoadPerFill' /\ FillsAreLeased'
<1> USE TokensAssumption
    DEF OneLoadPerFill, FillsAreLeased, FreshInv, CacheTypeOK, GetSteps, Goto
<1>1. CASE BeginGet(r)
  BY <1>1 DEF BeginGet
<1>2. CASE GetKey(r)
  BY <1>2 DEF GetKey
<1>3. CASE SetLease(r)
  BY <1>3 DEF SetLease
<1>4. CASE LookAgain(r)
  BY <1>4 DEF LookAgain
<1>5. CASE Recheck(r)
  BY <1>5 DEF Recheck
<1>6. CASE Load(r)
  BY <1>6 DEF Load
<1>7. CASE PublishCard(r)
  BY <1>7 DEF PublishCard, Empty
<1>8. CASE ReleaseLease(r)
  BY <1>8 DEF ReleaseLease
<1>9. CASE AnswerCard(r)
  BY <1>9 DEF AnswerCard
<1>10. CASE Disturb
  BY <1>10, DisturbedKeepsFills
<1> QED
  BY <1>1, <1>2, <1>3, <1>4, <1>5, <1>6, <1>7, <1>8, <1>9, <1>10
  DEF ReadStep, ReadFault, GiveUpWaiting, LookupFails, RecheckFails, LoadFails,
      PublishFails, ReleaseFails, ReaderDies, Abandon, CommandSentAgain

(* Writers and Redis: a lost key starts a new count, a DEL ends it. *)
LEMMA WriterKeepsFills ==
  ASSUME OneLoadPerFill, FillsAreLeased,
         \/ \E w \in Writers : CommitWrite(w) \/ Invalidate(w) \/ SkipInvalidation(w)
         \/ LoseLease \/ LoseKey
  PROVE  OneLoadPerFill' /\ FillsAreLeased'
<1>1. CASE LoseKey
  BY <1>1 DEF LoseKey, OneLoadPerFill, FillsAreLeased, readerVars
<1>2. CASE UNCHANGED <<cache, lease, readerVars, loads, undisturbed>>
  BY <1>2 DEF OneLoadPerFill, FillsAreLeased, readerVars
<1> QED
  BY <1>1, <1>2, DisturbedKeepsFills DEF CommitWrite, Invalidate, SkipInvalidation, LoseLease

(* CacheInv holds in every reachable state. *)
THEOREM CacheInvariant == CacheSpec => []CacheInv
<1>1. CacheInit => CacheInv
  BY FreshInvInit, TokensAssumption DEF CacheInit, CacheInv, OneLoadPerFill, FillsAreLeased
<1>2. CacheInv /\ [CacheNext]_cacheVars => CacheInv'
  <2>1. CacheInv /\ UNCHANGED cacheVars => OneLoadPerFill' /\ FillsAreLeased'
    BY DEF cacheVars, readerVars, CacheInv, OneLoadPerFill, FillsAreLeased
  <2> QED
    BY <2>1, FreshStep, ReaderKeepsFills, WriterKeepsFills DEF CacheInv, CacheNext
<1> QED
  BY <1>1, <1>2, PTL DEF CacheSpec

(* After an invalidation took effect the key never holds an older card.      *)
THEOREM InvalidationSticks == CacheSpec => []CacheNotOlderThanFloor
  BY CacheInvariant, PTL DEF CacheInv, FreshInv

(* A call that began after an invalidation never answers with an older card, *)
(* whether it hit, filled, waited or went past the cache.                     *)
THEOREM FreshReads == CacheSpec => []ReadsAreFresh
<1>1. CacheInv => ReadsAreFresh
  BY DEF CacheInv, FreshInv, ReadsAreFresh
<1> QED
  BY <1>1, CacheInvariant, PTL

(* However many readers find the key cold, one of them reads the database. *)
THEOREM OneFills == CacheSpec => []OneLoadPerFill
  BY CacheInvariant, PTL DEF CacheInv

-----------------------------------------------------------------------------
(* The order of pruneBackups is total, so a finite set has a newest bundle.    *)
LEMMA NewerIsTotal ==
  ASSUME BackupTypeOK, NEW b \in Bundles, NEW c \in Bundles
  PROVE  /\ b # c => Newer(b, c) \/ Newer(c, b)
         /\ ~(Newer(b, c) /\ Newer(c, b))
         /\ \A d \in Bundles : Newer(b, c) /\ Newer(c, d) => Newer(b, d)
<1>1. \A d \in Bundles : bundle[d].createdAt \in Int /\ bundle[d].snapshotAt \in Int /\ d \in Int
  BY BundlesAssumption, BackupLimits DEF BackupTypeOK
<1> QED
  BY <1>1 DEF Newer

LEMMA NewestExists ==
  ASSUME BackupTypeOK, NEW S \in SUBSET Bundles, S # {}
  PROVE  \E m \in S : \A c \in S \ {m} : Newer(m, c)
<1> DEFINE Newest(T) == \E m \in T : \A c \in T \ {m} : Newer(m, c)
           Without == {T \in SUBSET Bundles : T # {} /\ ~Newest(T)}
<1> SUFFICES ASSUME Without # {} PROVE FALSE
  OBVIOUS
<1>1. IsFiniteSet(Bundles)
  BY BundlesAssumption
<1>2. IsWellFoundedOn(StrictSubsetOrdering(Bundles), FiniteSubsetsOf(Bundles))
  BY FS_StrictSubsetOrderingWellFounded
<1>3. Without \subseteq FiniteSubsetsOf(Bundles)
  BY <1>1, FS_FiniteSubsetsOfFinite
<1>4. PICK T \in Without : \A U \in Without : ~(<<U, T>> \in StrictSubsetOrdering(Bundles))
  <2> HIDE DEF Without
  <2> QED
    BY <1>2, <1>3, WFMin
<1>5. PICK x \in T : TRUE
  OBVIOUS
<1>6. T \ {x} \notin Without
  BY <1>1, <1>4, <1>5, FS_FiniteSubsetsOfFinite DEF StrictSubsetOrdering
<1>7. CASE T = {x}
  BY <1>7
<1>8. CASE T # {x}
  <2>1. PICK m \in T \ {x} : \A c \in (T \ {x}) \ {m} : Newer(m, c)
    BY <1>6, <1>8
  <2>2. CASE Newer(m, x)
    BY <2>1, <2>2
  <2>3. CASE Newer(x, m)
    BY <1>5, <2>1, <2>3, NewerIsTotal
  <2> QED
    BY <1>5, <2>1, <2>2, <2>3, NewerIsTotal
<1> QED
  BY <1>7, <1>8

-----------------------------------------------------------------------------
(* Until its bundle is published a run changes nothing retention looks at.     *)
LEMMA HiddenRunKeeps ==
  ASSUME BackupsInv, BackupTypeOK', NEW b \in Bundles, b \notin Made,
         \A c \in Bundles \ {b} : bundle'[c] = bundle[c] /\ step'[c] = step[c],
         UNCHANGED <<day, doomed>>,
         OnDisk(b, {"none", "partial", "complete"})'
  PROVE  RetentionIsSafe' /\ DoomedIsStale'
<1>1. /\ Made \subseteq Bundles \ {b} /\ Made \subseteq Made' /\ Made' \subseteq Made \cup {b}
      /\ \A c \in Made : OnDisk(c, {"complete"})' <=> OnDisk(c, {"complete"})
  BY DEF Made, OnDisk
<1>2. \A n, c \in Made : Newer(n, c)' <=> Newer(n, c)
  BY <1>1 DEF Newer
<1>3. b \in Made' => OnDisk(b, {"complete"})'
  BY DEF Made, OnDisk
<1>4. RetentionIsSafe'
  BY <1>1, <1>2, <1>3 DEF BackupsInv, RetentionIsSafe
<1>5. \A c \in Bundles : doomed'[c] = doomed[c] /\ doomed[c] \subseteq Made
  BY DEF BackupsInv, HiddenUntilPublished
<1>6. DoomedIsStale'
  BY <1>1, <1>2, <1>5 DEF BackupsInv, DoomedIsStale
<1> QED
  BY <1>4, <1>6

(* What a launcher finds too old has a newer bundle that it does not remove:  *)
(* the newest of all.                                                          *)
LEMMA DoomedIsStaleThen ==
  ASSUME BackupTypeOK, NEW b \in Bundles, NEW S \in SUBSET Bundles
  PROVE  /\ Doomed(b, S) \subseteq S
         /\ \A c \in Doomed(b, S) : /\ bundle[c].createdAt + RetentionDays < day
                                    /\ \E n \in S \ Doomed(b, S) : Newer(n, c)
<1>1. Doomed(b, S) \subseteq S
  BY DEF Doomed
<1>2. ASSUME NEW c \in Doomed(b, S) PROVE \E n \in S \ Doomed(b, S) : Newer(n, c)
  <2>1. PICK m \in S : \A d \in S \ {m} : Newer(m, d)
    BY <1>1, <1>2, NewestExists
  <2>2. ~\E n \in S : Newer(n, m)
    BY <2>1, NewerIsTotal
  <2>3. m \notin Doomed(b, S)
    BY <2>2 DEF Doomed
  <2> QED
    BY <1>1, <1>2, <2>1, <2>3
<1> QED
  BY <1>1, <1>2 DEF Doomed

(* rm of a doomed bundle: it is old, and what made it removable remains.       *)
LEMMA RemovingKeeps ==
  ASSUME BackupsInv, BackupTypeOK', NEW b \in Bundles, NEW c \in doomed[b],
         \A d \in Bundles \ {c} : bundle'[d] = bundle[d],
         OnDisk(c, {"torn", "removed"})',
         bundle'[c].createdAt = bundle[c].createdAt,
         bundle'[c].snapshotAt = bundle[c].snapshotAt,
         day' = day, \A d \in Bundles : doomed'[d] \subseteq doomed[d]
  PROVE  RetentionIsSafe' /\ DoomedIsStale' /\ Made' = Made
<1>1. c \in Made /\ bundle[c].createdAt + RetentionDays < day
  BY DEF BackupsInv, HiddenUntilPublished, DoomedIsStale
<1>2. Made' = Made
  BY <1>1 DEF Made, OnDisk
<1>3. \A m, n \in Bundles : Newer(m, n)' <=> Newer(m, n)
  BY DEF Newer
<1>4. \A d \in Bundles : bundle'[d].createdAt = bundle[d].createdAt
  OBVIOUS
<1>5. PICK n \in Made : Newer(n, c) /\ OnDisk(n, {"complete"})
  <2>1. PICK n \in Made \ doomed[b] : Newer(n, c)
    BY DEF BackupsInv, DoomedIsStale
  <2>2. CASE OnDisk(n, {"complete"})
    BY <2>1, <2>2
  <2>3. CASE ~OnDisk(n, {"complete"})
    <3>1. PICK m \in Made : Newer(m, n) /\ OnDisk(m, {"complete"})
      BY <2>3 DEF BackupsInv, RetentionIsSafe
    <3> QED
      BY <1>1, <2>1, <3>1, NewerIsTotal DEF BackupsInv, Made
  <2> QED
    BY <2>2, <2>3
<1>6. n # c /\ OnDisk(n, {"complete"})'
  BY <1>1, <1>5, NewerIsTotal DEF BackupsInv, Made, OnDisk
<1>7. RetentionIsSafe'
  <2>1. ASSUME NEW d \in Made, ~OnDisk(d, {"complete"})'
        PROVE  /\ bundle[d].createdAt + RetentionDays < day
               /\ \E m \in Made : Newer(m, d) /\ OnDisk(m, {"complete"})'
    <3>1. CASE d = c
      BY <1>1, <1>5, <1>6, <3>1
    <3>2. CASE d # c
      <4>1. bundle[d].createdAt + RetentionDays < day
        BY <2>1, <3>2 DEF BackupsInv, RetentionIsSafe, OnDisk, Made
      <4>2. PICK m \in Made : Newer(m, d) /\ OnDisk(m, {"complete"})
        BY <2>1, <3>2 DEF BackupsInv, RetentionIsSafe, OnDisk, Made
      <4>3. CASE m # c
        BY <4>1, <4>2, <4>3 DEF OnDisk, Made
      <4>4. CASE m = c
        BY <1>1, <1>5, <1>6, <4>1, <4>2, <4>4, NewerIsTotal DEF BackupsInv, Made
      <4> QED
        BY <4>3, <4>4
    <3> QED
      BY <3>1, <3>2
  <2> QED
    BY <1>2, <1>3, <1>4, <2>1 DEF RetentionIsSafe, Made
<1>8. DoomedIsStale'
  BY <1>2, <1>3, <1>4 DEF BackupsInv, BackupTypeOK, DoomedIsStale, Made
<1> QED
  BY <1>2, <1>7, <1>8

(* The types of a bundle, field by field. *)
BundleRecords ==
  [is : Shapes, snapshotAt : 0..MaxDay, createdAt : 0..MaxDay,
   held : 0..MaxChanges, dumped : 0..MaxChanges, controls : 0..MaxChanges]

LEMMA BackupTypeStep ==
  ASSUME BackupTypeOK, [BackupNext]_backupVars PROVE BackupTypeOK'
<1> USE DEF BackupTypeOK
<1>1. NoBundle \in BundleRecords
  BY BackupLimits DEF NoBundle, BundleRecords, Shapes
<1>2. ASSUME NEW b \in Bundles, Stage(b) \/ Export(b) \/ Dump(b) \/ Publish(b) \/ BackupBreaks(b)
      PROVE  BackupTypeOK'
  <2>1. bundle' \in [Bundles -> BundleRecords]
    BY <1>1, <1>2 DEF Stage, Export, Dump, Publish, BackupBreaks, BundleRecords, Shapes
  <2>2. step' \in [Bundles -> Steps]
    BY <1>2 DEF Stage, Export, Dump, Publish, BackupBreaks, Proceed, Steps
  <2>3. UNCHANGED <<day, database, doomed>> /\ breaks' \in 0..MaxBreaks
    BY <1>2, BackupLimits DEF Stage, Export, Dump, Publish, BackupBreaks, Break
  <2> QED
    BY <2>1, <2>2, <2>3 DEF BundleRecords
<1>3. ASSUME NEW b \in Bundles, List(b) PROVE BackupTypeOK'
  BY <1>3 DEF List, Proceed, Steps, Doomed
<1>4. ASSUME NEW b \in Bundles, NEW c \in Bundles, RemoveBundle(b, c) PROVE BackupTypeOK'
  <2>1. bundle' \in [Bundles -> BundleRecords]
    BY <1>4 DEF RemoveBundle, BundleRecords, Shapes
  <2>2. step' \in [Bundles -> Steps] /\ doomed' \in [Bundles -> SUBSET Bundles]
    BY <1>4 DEF RemoveBundle, Proceed, Steps
  <2>3. UNCHANGED <<day, database>> /\ breaks' \in 0..MaxBreaks
    BY <1>4, BackupLimits DEF RemoveBundle, Break
  <2> QED
    BY <2>1, <2>2, <2>3 DEF BundleRecords
<1>5. CASE Change \/ Tick \/ UNCHANGED backupVars
  BY <1>5, BackupLimits DEF Change, Tick, backupVars
<1> QED
  BY <1>2, <1>3, <1>4, <1>5 DEF BackupNext

LEMMA BackupStep ==
  ASSUME BackupsInv, [BackupNext]_backupVars PROVE BackupsInv'
<1>1. BackupTypeOK'
  BY BackupTypeStep DEF BackupsInv
<1>2. ASSUME NEW b \in Bundles, Stage(b) \/ Export(b) \/ Dump(b) \/ Publish(b) \/ BackupBreaks(b)
      PROVE  BackupsInv'
  <2>1. /\ b \notin Made /\ UNCHANGED <<day, doomed>>
        /\ \A c \in Bundles \ {b} : bundle'[c] = bundle[c] /\ step'[c] = step[c]
    BY <1>2 DEF BackupsInv, HiddenUntilPublished, BackupTypeOK, Stage, Export, Dump, Publish,
                BackupBreaks, Proceed
  <2>2. OnDisk(b, {"none", "partial"})
    BY <2>1 DEF BackupsInv, BackupTypeOK, Made, OnDisk, Shapes
  <2>3. OnDisk(b, {"none", "partial", "complete"})' /\ OneSnapshot'
    BY <1>2, <2>1, <2>2 DEF BackupsInv, BackupTypeOK, OneSnapshot, HiddenUntilPublished, OnDisk,
       Stage, Export, Dump, Publish, BackupBreaks, Proceed, NoBundle
  <2>4. RetentionIsSafe' /\ DoomedIsStale'
    BY <1>1, <2>1, <2>3, HiddenRunKeeps
  <2>5. Made \subseteq Made'
    BY <2>1 DEF Made, OnDisk
  <2>6. ASSUME step'[b] \in {"start", "connect", "dump", "rename"}
        PROVE  /\ b \notin Made'
               /\ step'[b] = "dump" => bundle'[b].held = bundle'[b].controls
               /\ step'[b] = "rename" => bundle'[b].dumped = bundle'[b].controls
    BY <1>2, <2>2, <2>6 DEF BackupsInv, BackupTypeOK, HiddenUntilPublished, Made, OnDisk,
       Stage, Export, Dump, Publish, BackupBreaks, Proceed
  <2>7. HiddenUntilPublished'
    BY <2>1, <2>5, <2>6 DEF BackupsInv, HiddenUntilPublished, Made, OnDisk
  <2> QED
    BY <1>1, <2>3, <2>4, <2>7 DEF BackupsInv
<1>3. ASSUME NEW b \in Bundles, List(b) PROVE BackupsInv'
  <2> DEFINE Completed == {c \in Bundles : OnDisk(c, {"complete"})}
  <2>1. /\ UNCHANGED <<day, bundle>> /\ step[b] = "list" /\ step'[b] = "prune"
        /\ doomed'[b] = Doomed(b, Completed)
        /\ \A c \in Bundles \ {b} : doomed'[c] = doomed[c] /\ step'[c] = step[c]
    BY <1>3 DEF List, BackupsInv, BackupTypeOK, Proceed
  <2>2. Completed \subseteq Made /\ Made' = Made
    BY <2>1 DEF Made, OnDisk
  <2>3. /\ Doomed(b, Completed) \subseteq Completed
        /\ \A c \in Doomed(b, Completed) : /\ bundle[c].createdAt + RetentionDays < day
                                           /\ \E n \in Completed \ Doomed(b, Completed) : Newer(n, c)
    <3>1. Completed \in SUBSET Bundles
      OBVIOUS
    <3> HIDE DEF Completed
    <3> QED
      BY <3>1, DoomedIsStaleThen DEF BackupsInv
  <2> HIDE DEF Completed
  <2>4. \A n, c : Newer(n, c)' <=> Newer(n, c)
    BY <2>1 DEF Newer
  <2>5. OneSnapshot' /\ RetentionIsSafe'
    BY <2>1, <2>2, <2>4 DEF BackupsInv, OneSnapshot, RetentionIsSafe, OnDisk
  <2>6. DoomedIsStale'
    BY <2>1, <2>2, <2>3, <2>4 DEF BackupsInv, DoomedIsStale
  <2>7. HiddenUntilPublished'
    BY <2>1, <2>2, <2>3 DEF BackupsInv, HiddenUntilPublished
  <2> QED
    BY <1>1, <2>5, <2>6, <2>7 DEF BackupsInv
<1>4. ASSUME NEW b \in Bundles, NEW c \in Bundles, RemoveBundle(b, c) PROVE BackupsInv'
  <2>1. /\ c \in doomed[b] /\ day' = day
        /\ \A d \in Bundles : doomed'[d] \subseteq doomed[d]
        /\ \A d \in Bundles : step'[d] \in {"start", "connect", "dump", "rename"} => step'[d] = step[d]
    BY <1>4 DEF RemoveBundle, BackupsInv, BackupTypeOK, Proceed
  <2>2. c \in Made
    BY <2>1 DEF BackupsInv, HiddenUntilPublished
  <2>3. /\ \A d \in Bundles \ {c} : bundle'[d] = bundle[d]
        /\ OnDisk(c, {"torn", "removed"})'
        /\ OnDisk(c, {"torn"})' => ~OnDisk(c, {"removed"})
        /\ \A f \in {"createdAt", "snapshotAt", "dumped", "controls"} : bundle'[c][f] = bundle[c][f]
    BY <1>4 DEF RemoveBundle, BackupsInv, BackupTypeOK, OnDisk
  <2>4. /\ bundle'[c].createdAt = bundle[c].createdAt
        /\ bundle'[c].snapshotAt = bundle[c].snapshotAt
        /\ bundle'[c].dumped = bundle[c].dumped
        /\ bundle'[c].controls = bundle[c].controls
    BY <2>3
  <2>5. RetentionIsSafe' /\ DoomedIsStale' /\ Made' = Made
    BY <1>1, <2>1, <2>3, <2>4, RemovingKeeps
  <2>6. OneSnapshot'
    BY <2>2, <2>3, <2>4, <2>5 DEF BackupsInv, OneSnapshot, OnDisk, Made
  <2>7. HiddenUntilPublished'
    BY <2>1, <2>2, <2>3, <2>5 DEF BackupsInv, HiddenUntilPublished
  <2> QED
    BY <1>1, <2>5, <2>6, <2>7 DEF BackupsInv
<1>5. CASE Change \/ Tick \/ UNCHANGED backupVars
  <2>1. UNCHANGED <<bundle, step, doomed>> /\ (day' = day \/ day' = day + 1)
    BY <1>5 DEF Change, Tick, backupVars
  <2>2. /\ Made' = Made /\ \A n, c : Newer(n, c)' <=> Newer(n, c)
        /\ \A c \in Bundles : bundle[c].createdAt + RetentionDays < day =>
                              bundle[c].createdAt + RetentionDays < day'
    BY <2>1, RetentionAssumption DEF Made, OnDisk, Newer, BackupsInv, BackupTypeOK
  <2>3. RetentionIsSafe' /\ DoomedIsStale'
    BY <2>1, <2>2 DEF BackupsInv, BackupTypeOK, RetentionIsSafe, DoomedIsStale, Made, OnDisk
  <2>4. OneSnapshot' /\ HiddenUntilPublished'
    BY <2>1, <2>2 DEF BackupsInv, OneSnapshot, HiddenUntilPublished, OnDisk
  <2> QED
    BY <1>1, <2>3, <2>4 DEF BackupsInv
<1> QED
  BY <1>2, <1>3, <1>4, <1>5 DEF BackupNext

(* A drill's step, one case per action. *)
LEMMA DrillStep == ASSUME DrillInv, [DrillNext]_drillVars PROVE DrillInv'
<1> USE DEF DrillInv, DrillTypeOK, RemovesWhatItMade, FlagsKnow, Leftovers, TryBlock, Main,
            Handler, To, HandlerTo, Alive, docker, flags
<1>1. CASE Choose
  BY <1>1 DEF Choose
<1>2. CASE VolumeMade
  BY <1>2 DEF VolumeMade
<1>3. CASE VolumeAnswered
  BY <1>3 DEF VolumeAnswered
<1>4. CASE ContainerMade
  BY <1>4 DEF ContainerMade
<1>5. CASE ContainerAnswered
  BY <1>5 DEF ContainerAnswered
<1>6. CASE Start
  BY <1>6 DEF Start
<1>7. CASE Restore
  BY <1>7 DEF Restore
<1>8. CASE Compare
  BY <1>8 DEF Compare
<1>9. CASE Report
  BY <1>9 DEF Report
<1>10. ASSUME NEW p \in TryBlock, Fails(p) PROVE DrillInv'
  <2>1. /\ main = p /\ main' = "rmContainer"
        /\ UNCHANGED <<onDisk, handler, volume, container, volumeCreated, containerCreated>>
    BY <1>10 DEF Fails
  <2>2. CASE refused' = TRUE
    BY <2>1, <2>2
  <2>3. CASE refused' = refused /\ p \in {"restore", "report"}
    BY <2>1, <2>3
  <2>4. CASE refused' = refused /\ p \in {"start", "restore", "compare"} /\ ~container
    BY <2>1, <2>4
  <2> QED
    BY <1>10, <2>2, <2>3, <2>4 DEF Fails, Fault
<1>11. CASE Cleanup
  <2>1. CASE main = "rmContainer" /\ main' = "rmVolume" /\ RemoveContainer
    BY <1>11, <2>1 DEF Cleanup, RemoveContainer
  <2>2. CASE main = "rmVolume" /\ main' = "ended" /\ RemoveVolume
    BY <1>11, <2>2 DEF Cleanup, RemoveVolume
  <2> QED
    BY <1>11, <2>1, <2>2 DEF Cleanup
<1>12. CASE CleanupRefused
  BY <1>12 DEF CleanupRefused
<1>13. CASE Signal
  BY <1>13 DEF Signal
<1>14. CASE HandlerCleanup
  BY <1>14 DEF HandlerCleanup, RemoveContainer, RemoveVolume
<1>15. CASE BundlePruned
  BY <1>15 DEF BundlePruned
<1>16. CASE UNCHANGED drillVars
  BY <1>16 DEF drillVars
<1> QED
  BY <1>1, <1>2, <1>3, <1>4, <1>5, <1>6, <1>7, <1>8, <1>9, <1>10, <1>11, <1>12, <1>13,
     <1>14, <1>15, <1>16 DEF DrillNext

(* However launchers overlap and wherever they are killed, the newest bundle   *)
(* stays whole and shows one snapshot.  A drill that no signal disturbed, and   *)
(* to which Docker refused no removal, has cleaned up when it ends.             *)
THEOREM OperationsAreSafe == OperationsSpec => []OperationsInv
<1>1. BackupInit => BackupsInv
  BY BackupLimits DEF BackupInit, BackupsInv, BackupTypeOK, NoBundle, Shapes, Steps, OneSnapshot,
     RetentionIsSafe, DoomedIsStale, HiddenUntilPublished, Made, OnDisk
<1>2. BackupsInv /\ [BackupNext]_backupVars => BackupsInv'
  BY BackupStep
<1>3. DrillInit => DrillInv
  BY DEF DrillInit, DrillInv, DrillTypeOK, RemovesWhatItMade, FlagsKnow, Main, Handler, TryBlock
<1>4. DrillInv /\ [DrillNext]_drillVars => DrillInv'
  BY DrillStep
<1> QED
  BY <1>1, <1>2, <1>3, <1>4, PTL DEF OperationsSpec, OperationsInv, BackupSpec, DrillSpec

-----------------------------------------------------------------------------
Frames == [kind : {"return", "ack", "nack"}, of : Publications]
CallStates == {"new", "chained", "sent"} \cup Ended

(* The running call is over: the rest of the chain waits, and nobody runs.     *)
LEMMA FinishKeeps ==
  ASSUME PublisherTypeOK, AnswersAreDue, OneTurnEach, ResolvedMeansQueued,
         tail # <<>>, NEW ending \in Ended,
         Finish(Head(tail), ending),
         fate' \in [Publications -> {"none", "sent", "queued", "dropped"}],
         \A q \in Publications : fate[q] \in {"none", "queued"} => fate'[q] = fate[q],
         unconfirmed' \subseteq Publications,
         ending = "resolved" => fate[Head(tail)] = "queued"
  PROVE  /\ tail' \in Seq(Publications) /\ call' \in [Publications -> CallStates]
         /\ awaited' = {} /\ returned' \in BOOLEAN /\ ~Running'
         /\ AnswersAreDue' /\ OneTurnEach' /\ ResolvedMeansQueued'
<1> DEFINE p == Head(tail)
<1>1. /\ p \in Publications /\ p = tail[1] /\ Len(tail) \in Nat /\ Len(tail) >= 1
      /\ \A i \in 1..Len(tail) : tail[i] \in Publications
      /\ call[p] \in {"chained", "sent"}
  BY DEF PublisherTypeOK, OneTurnEach
<1>2. /\ tail' \in Seq(Publications) /\ Len(tail') = Len(tail) - 1
      /\ \A i \in 1..Len(tail') : tail'[i] = tail[i + 1] /\ i + 1 \in 1..Len(tail) /\ i + 1 # 1
  BY <1>1 DEF Finish, PublisherTypeOK
<1>3. /\ call' \in [Publications -> CallStates] /\ call'[p] = ending
      /\ \A q \in Publications : q # p => call'[q] = call[q]
  BY <1>1 DEF Finish, PublisherTypeOK, CallStates, Ended
<1>4. \A i \in 1..Len(tail') : tail'[i] # p /\ call'[tail'[i]] = "chained"
  BY <1>1, <1>2, <1>3, SMTT(30) DEF OneTurnEach
<1>5. ~Running'
  <2>1. CASE tail' = <<>>
    BY <2>1 DEF Running
  <2>2. CASE tail' # <<>>
    <3>1. Head(tail') = tail'[1] /\ 1 \in 1..Len(tail')
      BY <1>2, <2>2
    <3> QED
      BY <1>4, <3>1 DEF Running
  <2> QED
    BY <2>1, <2>2
<1>6. OneTurnEach'
  <2>1. \A i, j \in 1..Len(tail') : tail'[i] = tail'[j] => i = j
    BY <1>1, <1>2 DEF OneTurnEach
  <2>2. \A q \in Publications : call'[q] \in {"new", "chained"} => fate'[q] = "none"
    BY <1>1, <1>3 DEF OneTurnEach, Ended
  <2> QED
    BY <1>4, <2>1, <2>2 DEF OneTurnEach
<1>7. \A q \in Publications : call'[q] # "sent"
  BY <1>1, <1>3 DEF AnswersAreDue, Ended
<1>8. AnswersAreDue'
  BY <1>5, <1>7 DEF AnswersAreDue, Finish
<1>9. ResolvedMeansQueued'
  BY <1>1, <1>3 DEF ResolvedMeansQueued
<1> QED
  BY <1>2, <1>3, <1>5, <1>6, <1>8, <1>9 DEF Finish

(* What an answer leaves of the answers on their way. *)
LEMMA FramesPassOn ==
  ASSUME PublisherTypeOK, frames # <<>>, frames' = Tail(frames)
  PROVE  /\ frames' \in Seq(Frames) /\ Len(frames) \in Nat /\ Len(frames) >= 1
         /\ Len(frames') = Len(frames) - 1 /\ Head(frames) = frames[1]
         /\ \A i \in 1..Len(frames) : frames[i] \in Frames
         /\ \A i \in 1..Len(frames') : frames'[i] = frames[i + 1] /\ i + 1 \in 1..Len(frames)
         /\ \A i \in 1..Len(frames) : frames[i].of \in Publications
<1>1. frames \in Seq(Frames)
  BY DEF PublisherTypeOK, Frames
<1>2. \A i \in 1..Len(frames) : frames[i] \in Frames
  BY <1>1
<1>3. \A i \in 1..Len(frames) : frames[i].of \in Publications
  BY <1>2 DEF Frames
<1> QED
  BY <1>1, <1>2, <1>3

(* p is the call that runs.                                                   *)
IsRunning(p) == Running /\ p = Head(tail)

(* An answer for which no call is over: who runs, and for what, stays.         *)
LEMMA AnswerKeeps ==
  ASSUME PublisherInv, NEW kind \in {"return", "ack", "nack"}, NEW p \in Publications,
         Received(kind, p), UNCHANGED <<tail, call>>,
         awaited' \in {awaited, awaited \ {p}},
         unconfirmed' \in {unconfirmed, unconfirmed \ {p}}, 
         unconfirmed' # unconfirmed => awaited' = awaited \ {p} \/ p \notin awaited,
         returned' \in BOOLEAN, returned => returned',
         IsRunning(p) /\ kind = "return" => returned',
         IsRunning(p) /\ kind = "nack" => p \notin awaited,
         awaited' # awaited => kind = "ack"
  PROVE  PublisherInv'
<1> USE DEF PublisherInv
<1>1. /\ frames # <<>> /\ frames' = Tail(frames) /\ Head(frames) = Frame(kind, p)
      /\ UNCHANGED <<fate, routed, channel>>
  BY DEF Received
<1>2. /\ frames' \in Seq(Frames) /\ Len(frames) \in Nat /\ Len(frames) >= 1
      /\ Len(frames') = Len(frames) - 1 /\ Head(frames) = frames[1]
      /\ \A i \in 1..Len(frames) : frames[i] \in Frames
      /\ \A i \in 1..Len(frames') : frames'[i] = frames[i + 1] /\ i + 1 \in 1..Len(frames)
  BY <1>1, FramesPassOn
<1>3. frames[1] = Frame(kind, p) /\ frames[1].kind = kind /\ frames[1].of = p
      /\ fate[p] \in {"queued", "dropped"} /\ 1 \in 1..Len(frames)
  <2>1. frames[1] = Frame(kind, p) /\ 1 \in 1..Len(frames)
    BY <1>1, <1>2
  <2>2. frames[1].kind = kind /\ frames[1].of = p
    BY <2>1 DEF Frame
  <2> QED
    BY <2>1, <2>2 DEF AnswersInOrder
<1>4. PublisherTypeOK'
  BY <1>1, <1>2 DEF PublisherTypeOK, Frames
<1>5. ResolvedMeansQueued' /\ OneTurnEach'
  BY <1>1 DEF ResolvedMeansQueued, OneTurnEach
<1>6. Running' = Running /\ Head(tail') = Head(tail)
  BY DEF Running
<1>7. ASSUME Running, ~returned', fate[Head(tail)] = "dropped"
      PROVE  /\ \A i \in 1..Len(frames) : frames[i].of = Head(tail) /\ frames[i].kind # "ack" => i # 1
             /\ ~(p = Head(tail) /\ kind = "ack")
             /\ Head(tail) \in Publications /\ ~returned
  <2>1. Head(tail) \in Publications
    BY <1>7 DEF Running, PublisherTypeOK
  <2>2. ~(p = Head(tail) /\ kind # "ack")
    BY <1>7, <2>1 DEF AnswersAreDue, IsRunning
  <2>3. ASSUME p = Head(tail), kind = "ack" PROVE FALSE
    BY <1>2, <1>3, <1>7, <2>3 DEF AnswersInOrder
  <2> QED
    BY <1>3, <1>7, <2>1, <2>2, <2>3
<1>8. AnswersInOrder'
  <2>1. \A i \in 1..Len(frames') : fate'[frames'[i].of] \in {"queued", "dropped"}
    BY <1>1, <1>2 DEF AnswersInOrder
  <2>2. ASSUME Running, ~returned', fate[Head(tail)] = "dropped",
               NEW j \in 1..Len(frames'), frames'[j] = Frame("ack", Head(tail))
        PROVE  \E i \in 1..(j - 1) : frames'[i].of = Head(tail) /\ frames'[i].kind # "ack"
    <3>1. j + 1 \in 1..Len(frames) /\ frames[j + 1] = Frame("ack", Head(tail))
      BY <1>2, <2>2
    <3>2. PICK i \in 1..j : frames[i].of = Head(tail) /\ frames[i].kind # "ack"
      BY <1>7, <2>2, <3>1 DEF AnswersInOrder
    <3>3. i # 1 /\ i \in 1..Len(frames)
      BY <1>2, <1>7, <2>2, <3>2
    <3>4. i - 1 \in 1..(j - 1) /\ frames'[i - 1] = frames[i]
      BY <1>2, <3>2, <3>3
    <3> QED
      BY <3>2, <3>4
  <2> QED
    BY <1>1, <1>6, <2>1, <2>2 DEF AnswersInOrder, Frame
<1>9. AnswersAreDue'
  <2>1. awaited' \subseteq unconfirmed'
    BY DEF AnswersAreDue
  <2>2. \A q \in Publications : call'[q] = "sent" => Running' /\ q = Head(tail')
    BY <1>6 DEF AnswersAreDue
  <2>3. ASSUME Running
        PROVE  Head(tail) \in awaited' \/ returned' \/ fate[Head(tail)] = "queued"
    <3>1. Head(tail) \in awaited \/ returned \/ fate[Head(tail)] = "queued"
      BY <2>3 DEF AnswersAreDue
    <3>2. CASE p = Head(tail) /\ kind = "ack" /\ ~returned'
      BY <1>3, <1>7, <2>3, <3>2
    <3>3. CASE p # Head(tail) \/ kind # "ack"
      BY <3>1, <3>3
    <3> QED
      BY <3>1, <3>2, <3>3
  <2>4. ASSUME Running, fate[Head(tail)] = "dropped", ~returned'
        PROVE  \E i \in 1..Len(frames') : frames'[i].of = Head(tail) /\ frames'[i].kind # "ack"
    <3>1. PICK i \in 1..Len(frames) : frames[i].of = Head(tail) /\ frames[i].kind # "ack"
      BY <1>7, <2>4 DEF AnswersAreDue
    <3>2. i - 1 \in 1..Len(frames') /\ frames'[i - 1] = frames[i]
      BY <1>2, <1>7, <2>4, <3>1
    <3> QED
      BY <3>1, <3>2
  <2> QED
    BY <1>1, <1>6, <2>1, <2>2, <2>3, <2>4 DEF AnswersAreDue
<1> QED
  BY <1>4, <1>5, <1>8, <1>9

(* The broker decides: its answers go behind the ones on their way.            *)
LEMMA RouteKeeps ==
  ASSUME PublisherInv, NEW p \in Publications, Route(p)
  PROVE  PublisherInv'
<1> USE DEF PublisherInv
<1>1. /\ UNCHANGED <<tail, call, awaited, returned, unconfirmed, routed, channel>>
      /\ fate[p] = "sent" /\ Running' = Running
  BY DEF Route, clientVars, Running
<1>2. /\ frames \in Seq(Frames) /\ Len(frames) \in Nat
      /\ \A i \in 1..Len(frames) : frames[i].of # p /\ frames[i].of \in Publications
      /\ \A k \in {"ack", "nack", "return"} : Frame(k, p) \in Frames /\ Frame(k, p).of = p
  <2>1. frames \in Seq(Frames)
    BY DEF PublisherTypeOK, Frames
  <2>2. \A i \in 1..Len(frames) : frames[i] \in Frames
    BY <2>1
  <2> QED
    BY <1>1, <2>1, <2>2 DEF AnswersInOrder, Frames, Frame
<1>3. /\ frames' \in Seq(Frames) /\ Len(frames') >= Len(frames) /\ Len(frames') \in Nat
      /\ \A i \in 1..Len(frames) : frames'[i] = frames[i]
      /\ \A i \in (Len(frames) + 1)..Len(frames') : frames'[i].of = p
      /\ fate' \in [Publications -> {"none", "sent", "queued", "dropped"}]
      /\ fate'[p] \in {"queued", "dropped"} /\ \A q \in Publications : q # p => fate'[q] = fate[q]
      /\ fate'[p] = "dropped" =>
           /\ frames'[Len(frames) + 1].kind # "ack"
           /\ Len(frames) + 1 <= Len(frames')
  <2>1. CASE fate' = [fate EXCEPT ![p] = "queued"] /\ frames' = Append(frames, Frame("ack", p))
    BY <1>2, <2>1 DEF PublisherTypeOK
  <2>2. CASE fate' = [fate EXCEPT ![p] = "dropped"] /\ frames' = Append(frames, Frame("nack", p))
    BY <1>2, <2>2 DEF PublisherTypeOK, Frame
  <2>3. CASE fate' = [fate EXCEPT ![p] = "dropped"]
             /\ frames' = frames \o <<Frame("return", p), Frame("ack", p)>>
    <3> DEFINE two == <<Frame("return", p), Frame("ack", p)>>
    <3>1. two \in Seq(Frames) /\ Len(two) = 2 /\ two[1] = Frame("return", p) /\ two[2] = Frame("ack", p)
      BY <1>2
    <3> HIDE DEF two
    <3>2. /\ frames' \in Seq(Frames) /\ Len(frames') = Len(frames) + 2
          /\ \A i \in 1..Len(frames') :
               frames'[i] = IF i <= Len(frames) THEN frames[i] ELSE two[i - Len(frames)]
      BY <1>2, <2>3, <3>1, ConcatProperties DEF two
    <3>3. /\ frames'[Len(frames) + 1] = Frame("return", p)
          /\ frames'[Len(frames) + 2] = Frame("ack", p)
          /\ \A i \in 1..Len(frames) : frames'[i] = frames[i]
      BY <1>2, <3>1, <3>2
    <3>4. \A i \in (Len(frames) + 1)..Len(frames') : i = Len(frames) + 1 \/ i = Len(frames) + 2
      BY <1>2, <3>2
    <3>5. Frame("return", p).of = p /\ Frame("return", p).kind # "ack" /\ Frame("ack", p).of = p
      BY DEF Frame
    <3>6. \A i \in (Len(frames) + 1)..Len(frames') : frames'[i].of = p
      BY <3>3, <3>4, <3>5
    <3>7. /\ fate' \in [Publications -> {"none", "sent", "queued", "dropped"}]
          /\ fate'[p] = "dropped" /\ \A q \in Publications : q # p => fate'[q] = fate[q]
      BY <2>3 DEF PublisherTypeOK
    <3> QED
      BY <1>2, <3>2, <3>3, <3>5, <3>6, <3>7
  <2> QED
    BY <2>1, <2>2, <2>3 DEF Route
<1>4. PublisherTypeOK'
  BY <1>1, <1>3 DEF PublisherTypeOK, Frames
<1>5. ResolvedMeansQueued'
  BY <1>1, <1>3 DEF ResolvedMeansQueued
<1>6. OneTurnEach'
  BY <1>1, <1>3 DEF OneTurnEach
<1>7. \A i \in 1..Len(frames') : fate'[frames'[i].of] \in {"queued", "dropped"}
  <2> TAKE i \in 1..Len(frames')
  <2>1. CASE i <= Len(frames)
    BY <1>2, <1>3, <2>1 DEF AnswersInOrder
  <2>2. CASE i > Len(frames)
    BY <1>2, <1>3, <2>2
  <2> QED
    BY <1>2, <1>3, <2>1, <2>2
<1>8. ASSUME Running PROVE Head(tail) \in Publications
  BY <1>8 DEF Running, PublisherTypeOK
<1>9. AnswersInOrder'
  <2>1. ASSUME Running, ~returned, fate'[Head(tail)] = "dropped",
               NEW j \in 1..Len(frames'), frames'[j] = Frame("ack", Head(tail))
        PROVE  \E i \in 1..(j - 1) : frames'[i].of = Head(tail) /\ frames'[i].kind # "ack"
    <3>1. frames'[j].of = Head(tail) /\ frames'[j].kind = "ack"
      BY <2>1 DEF Frame
    <3>2. CASE p = Head(tail)
      <4>1. j # Len(frames) + 1 /\ ~(j <= Len(frames))
        BY <1>2, <1>3, <2>1, <3>1, <3>2
      <4> QED
        BY <1>2, <1>3, <2>1, <3>2, <4>1
    <3>3. CASE p # Head(tail)
      <4>1. j \in 1..Len(frames) /\ frames[j] = Frame("ack", Head(tail)) /\ fate[Head(tail)] = "dropped"
        BY <1>2, <1>3, <1>8, <2>1, <3>1, <3>3
      <4>2. PICK i \in 1..(j - 1) : frames[i].of = Head(tail) /\ frames[i].kind # "ack"
        BY <2>1, <4>1 DEF AnswersInOrder
      <4> QED
        BY <1>2, <1>3, <4>1, <4>2
    <3> QED
      BY <3>2, <3>3
  <2> QED
    BY <1>1, <1>7, <2>1 DEF AnswersInOrder, Frame
<1>10. AnswersAreDue'
  <2>1. ASSUME Running, fate'[Head(tail)] = "dropped", ~returned
        PROVE  \E i \in 1..Len(frames') : frames'[i].of = Head(tail) /\ frames'[i].kind # "ack"
    <3>1. CASE p = Head(tail)
      BY <1>2, <1>3, <2>1, <3>1
    <3>2. CASE p # Head(tail)
      <4>1. PICK i \in 1..Len(frames) : frames[i].of = Head(tail) /\ frames[i].kind # "ack"
        BY <1>3, <1>8, <2>1, <3>2 DEF AnswersAreDue
      <4> QED
        BY <1>2, <1>3, <4>1
    <3> QED
      BY <3>1, <3>2
  <2>2. Running => Head(tail) \in awaited \/ returned \/ fate'[Head(tail)] = "queued"
    BY <1>1, <1>3, <1>8 DEF AnswersAreDue
  <2> QED
    BY <1>1, <2>1, <2>2 DEF AnswersAreDue
<1> QED
  BY <1>4, <1>5, <1>6, <1>9, <1>10

LEMMA PublisherStep == PublisherInv /\ [PublisherNext]_publisherVars => PublisherInv'
<1> SUFFICES ASSUME PublisherInv, [PublisherNext]_publisherVars PROVE PublisherInv'
  OBVIOUS
<1> USE DEF PublisherInv
(* The end of a call, with the answers on their way untouched or fewer.        *)
<1>0. ASSUME tail # <<>>, NEW ending \in Ended, Finish(Head(tail), ending),
             fate' \in [Publications -> {"none", "sent", "queued", "dropped"}],
             \A q \in Publications : fate[q] \in {"none", "queued", "dropped"} => fate'[q] = fate[q],
             unconfirmed' \subseteq Publications,
             ending = "resolved" => fate[Head(tail)] = "queued",
             frames' \in {frames, <<>>} \/ (frames # <<>> /\ frames' = Tail(frames)),
             routed' = routed, channel' \in {"open", "closed"}
      PROVE  PublisherInv'
  <2>1. /\ tail' \in Seq(Publications) /\ call' \in [Publications -> CallStates]
        /\ awaited' = {} /\ returned' \in BOOLEAN /\ ~Running'
        /\ AnswersAreDue' /\ OneTurnEach' /\ ResolvedMeansQueued'
    BY <1>0, FinishKeeps
  <2>2. /\ frames' \in Seq(Frames)
        /\ \A i \in 1..Len(frames') : frames'[i] \in Frames /\ fate'[frames'[i].of] \in {"queued", "dropped"}
    <3>0. /\ frames \in Seq(Frames)
          /\ \A i \in 1..Len(frames) : fate'[frames[i].of] = fate[frames[i].of]
                                       /\ fate[frames[i].of] \in {"queued", "dropped"}
      <4>1. frames \in Seq(Frames)
        BY DEF PublisherTypeOK, Frames
      <4>2. \A i \in 1..Len(frames) : frames[i] \in Frames
        BY <4>1
      <4> QED
        BY <1>0, <4>1, <4>2 DEF Frames, AnswersInOrder
    <3>1. CASE frames' = frames
      BY <3>0, <3>1
    <3>2. CASE frames' = <<>>
      BY <3>2
    <3>3. CASE frames # <<>> /\ frames' = Tail(frames)
      BY <3>0, <3>3, FramesPassOn
    <3> QED
      BY <1>0, <3>1, <3>2, <3>3
  <2>3. PublisherTypeOK'
    BY <1>0, <2>1, <2>2 DEF PublisherTypeOK, CallStates, Frames
  <2>4. AnswersInOrder'
    BY <2>1, <2>2 DEF AnswersInOrder
  <2> QED
    BY <2>1, <2>3, <2>4
<1>1. ASSUME NEW p \in Publications, Chain(p) PROVE PublisherInv'
  <2>1. /\ UNCHANGED <<awaited, returned, unconfirmed, fate, frames, routed, channel>>
        /\ call[p] = "new" /\ call' \in [Publications -> CallStates] /\ call'[p] = "chained"
        /\ \A q \in Publications : q # p => call'[q] = call[q]
    BY <1>1 DEF Chain, brokerVars, PublisherTypeOK, CallStates, Ended
  <2>2. /\ tail' \in Seq(Publications) /\ Len(tail') = Len(tail) + 1 /\ Len(tail) \in Nat
        /\ \A i \in 1..Len(tail) : tail'[i] = tail[i] /\ tail[i] \in Publications /\ tail[i] # p
        /\ tail'[Len(tail) + 1] = p
    BY <1>1 DEF Chain, PublisherTypeOK, OneTurnEach
  <2>3. /\ Head(tail') = tail'[1] /\ tail' # <<>>
        /\ tail # <<>> => Head(tail') = Head(tail) /\ Head(tail) = tail[1] /\ 1 \in 1..Len(tail)
        /\ tail = <<>> => Head(tail') = p
    BY <2>2 DEF PublisherTypeOK
  <2>4. Running' <=> Running
    BY <2>1, <2>2, <2>3 DEF Running
  <2>5. PublisherTypeOK'
    BY <2>1, <2>2 DEF PublisherTypeOK, CallStates
  <2>6. ResolvedMeansQueued'
    BY <2>1 DEF ResolvedMeansQueued
  <2>7. OneTurnEach'
    <3>1. \A i \in 1..Len(tail') : i \in 1..Len(tail) \/ i = Len(tail) + 1
      BY <2>2
    <3>2. \A i, j \in 1..Len(tail') : tail'[i] = tail'[j] => i = j
      BY <2>2, <3>1 DEF OneTurnEach
    <3>3. \A i \in 1..Len(tail') : call'[tail'[i]] = "chained" \/ (i = 1 /\ call'[tail'[i]] = "sent")
      BY <2>1, <2>2, <3>1 DEF OneTurnEach
    <3>4. \A q \in Publications : call'[q] \in {"new", "chained"} => fate'[q] = "none"
      BY <2>1 DEF OneTurnEach
    <3> QED
      BY <3>2, <3>3, <3>4 DEF OneTurnEach
  <2>8. Running => Head(tail') = Head(tail)
    BY <2>3 DEF Running
  <2>9. \A q \in Publications : call'[q] = "sent" => q # p /\ call[q] = "sent"
    BY <2>1
  <2>10. AnswersAreDue'
    BY <2>1, <2>4, <2>8, <2>9 DEF AnswersAreDue
  <2>11. AnswersInOrder'
    BY <2>1, <2>4, <2>8 DEF AnswersInOrder
  <2> QED
    BY <2>5, <2>6, <2>7, <2>10, <2>11
<1>2. ASSUME NEW p \in Publications, Route(p) PROVE PublisherInv'
  BY <1>2, RouteKeeps
<1>3. ASSUME NEW p \in Publications, Return(p) PROVE PublisherInv'
  <2>1. /\ Received("return", p) /\ UNCHANGED <<tail, call, awaited, unconfirmed>>
        /\ returned' \in BOOLEAN /\ (returned => returned')
    BY <1>3 DEF Return, PublisherTypeOK
  <2>3. /\ awaited' \in {awaited, awaited \ {p}} /\ awaited' = awaited
        /\ unconfirmed' \in {unconfirmed, unconfirmed \ {p}} /\ unconfirmed' = unconfirmed
        /\ "return" \in {"return", "ack", "nack"} /\ "return" # "nack"
    BY <2>1
  <2>4. returned' = TRUE \/ ~IsRunning(p)
    BY <1>3 DEF Return, IsRunning
  <2> HIDE DEF PublisherInv
  <2>5. CASE returned' = TRUE
    BY <2>1, <2>3, <2>5, AnswerKeeps
  <2>6. CASE ~IsRunning(p)
    BY <2>1, <2>3, <2>6, AnswerKeeps
  <2> QED
    BY <2>4, <2>5, <2>6
<1>4. ASSUME NEW p \in Publications, Ack(p) PROVE PublisherInv'
  <2>1. CASE Running /\ awaited = {p}
    <3>1. /\ frames # <<>> /\ frames' = Tail(frames) /\ Head(frames) = Frame("ack", p)
          /\ UNCHANGED <<fate, routed, channel>> /\ tail # <<>>
          /\ Finish(Head(tail), Outcome(returned)) /\ Outcome(returned) \in Ended
          /\ unconfirmed' = unconfirmed \ {p}
      BY <1>4, <2>1 DEF Ack, Received, Outcome, Ended, Running
    <3>2. Head(tail) \in Publications
      BY <3>1 DEF PublisherTypeOK
    <3>3. ASSUME ~returned PROVE fate[Head(tail)] = "queued"
      <4>0. frames[1] = Frame("ack", p) /\ 1 \in 1..Len(frames)
        BY <3>1, FramesPassOn
      <4>1. frames[1] = Frame("ack", p) /\ 1 \in 1..Len(frames) /\ frames[1].of = p
        BY <4>0 DEF Frame
      <4>2. CASE p = Head(tail)
        BY <2>1, <3>3, <4>1, <4>2 DEF AnswersInOrder
      <4>3. CASE p # Head(tail)
        BY <2>1, <3>3, <4>3 DEF AnswersAreDue
      <4> QED
        BY <4>2, <4>3
    <3>4. Outcome(returned) = "resolved" => fate[Head(tail)] = "queued"
      BY <3>3 DEF Outcome
    <3>5. /\ fate' \in [Publications -> {"none", "sent", "queued", "dropped"}]
          /\ channel' \in {"open", "closed"} /\ unconfirmed' \subseteq Publications
      BY <3>1 DEF PublisherTypeOK
    <3> HIDE DEF PublisherInv
    <3> QED
      BY <1>0, <3>1, <3>4, <3>5
  <2>2. CASE ~(Running /\ awaited = {p})
    <3>1. /\ Received("ack", p) /\ unconfirmed' = unconfirmed \ {p}
          /\ awaited' = awaited \ {p} /\ UNCHANGED <<tail, call, returned>>
      BY <1>4, <2>2 DEF Ack
    <3> QED
      BY <3>1, AnswerKeeps DEF PublisherTypeOK
  <2> QED
    BY <2>1, <2>2
<1>5. ASSUME NEW p \in Publications, Nack(p) PROVE PublisherInv'
  <2>1. CASE Running /\ p \in awaited
    <3>1. /\ frames # <<>> /\ frames' = Tail(frames)
          /\ UNCHANGED <<fate, routed, channel>> /\ tail # <<>>
          /\ Finish(Head(tail), "rejected") /\ "rejected" \in Ended
          /\ unconfirmed' = unconfirmed \ {p}
      BY <1>5, <2>1 DEF Nack, Received, Ended, Running
    <3>2. /\ fate' \in [Publications -> {"none", "sent", "queued", "dropped"}]
          /\ channel' \in {"open", "closed"} /\ unconfirmed' \subseteq Publications
      BY <3>1 DEF PublisherTypeOK
    <3> HIDE DEF PublisherInv
    <3> QED
      BY <1>0, <3>1, <3>2
  <2>2. CASE ~(Running /\ p \in awaited)
    <3>1. CASE p \in awaited
      <4>1. ~Running /\ Received("nack", p) /\ unconfirmed' = unconfirmed \ {p}
            /\ UNCHANGED <<tail, call, awaited, returned>>
        BY <1>5, <2>2, <3>1 DEF Nack
      <4> QED
        BY <3>1, <4>1 DEF AnswersAreDue
    <3>2. CASE p \notin awaited
      <4>1. /\ Received("nack", p) /\ unconfirmed' = unconfirmed \ {p}
            /\ UNCHANGED <<tail, call, awaited, returned>>
        BY <1>5, <2>2 DEF Nack
      <4> QED
        BY <3>2, <4>1, AnswerKeeps DEF PublisherTypeOK
    <3> QED
      BY <3>1, <3>2
  <2> QED
    BY <2>1, <2>2
<1>6. CASE Send
  <2>1. CASE channel = "open"
    <3> DEFINE p == Head(tail)
    <3>1. /\ tail # <<>> /\ p \in Publications /\ p = tail[1] /\ 1 \in 1..Len(tail) /\ call[p] = "chained"
          /\ call' = [call EXCEPT ![p] = "sent"] /\ fate' = [fate EXCEPT ![p] = "sent"]
          /\ unconfirmed' = unconfirmed \cup {p} /\ awaited' = unconfirmed'
          /\ UNCHANGED <<tail, returned, frames, routed, channel>> /\ ~Running
      BY <1>6, <2>1 DEF Send, Running, PublisherTypeOK, OneTurnEach
    <3>2. /\ call' \in [Publications -> CallStates] /\ call'[p] = "sent" /\ fate[p] = "none"
          /\ \A q \in Publications : q # p => call'[q] = call[q] /\ fate'[q] = fate[q]
          /\ fate' \in [Publications -> {"none", "sent", "queued", "dropped"}] /\ fate'[p] = "sent"
      BY <3>1 DEF PublisherTypeOK, CallStates, OneTurnEach
    <3> HIDE DEF p
    <3>3. Running' /\ p = Head(tail') /\ tail' = tail
      BY <3>1, <3>2 DEF Running, p
    <3>4. PublisherTypeOK'
      BY <3>1, <3>2 DEF PublisherTypeOK, CallStates
    <3>5. ResolvedMeansQueued'
      BY <3>1, <3>2 DEF ResolvedMeansQueued
    <3>6. AnswersAreDue'
      BY <3>1, <3>2, <3>3 DEF AnswersAreDue
    <3>7. OneTurnEach'
      <4>1. \A i \in 1..Len(tail) : i # 1 => tail[i] # p /\ tail[i] \in Publications /\ call[tail[i]] = "chained"
        BY <3>1 DEF OneTurnEach, PublisherTypeOK
      <4> QED
        BY <3>1, <3>2, <4>1 DEF OneTurnEach
    <3>8. AnswersInOrder'
      <4>1. frames \in Seq(Frames)
        BY DEF PublisherTypeOK, Frames
      <4>2. \A i \in 1..Len(frames) : frames[i] \in Frames
        BY <4>1
      <4>3. \A i \in 1..Len(frames) : frames[i].of \in Publications /\ frames[i].of # p
        BY <3>2, <4>2 DEF AnswersInOrder, Frames
      <4> QED
        BY <3>1, <3>2, <3>3, <4>3 DEF AnswersInOrder
    <3> QED
      BY <3>4, <3>5, <3>6, <3>7, <3>8
  <2>2. CASE channel # "open"
    <3>1. /\ tail # <<>> /\ Finish(Head(tail), "rejected") /\ "rejected" \in Ended
          /\ UNCHANGED <<unconfirmed, fate, frames, routed, channel>>
      BY <1>6, <2>2 DEF Send, Ended
    <3>2. /\ fate' \in [Publications -> {"none", "sent", "queued", "dropped"}]
          /\ channel' \in {"open", "closed"} /\ unconfirmed' \subseteq Publications
      BY <3>1 DEF PublisherTypeOK
    <3> HIDE DEF PublisherInv
    <3> QED
      BY <1>0, <3>1, <3>2
  <2> QED
    BY <2>1, <2>2
<1>7. CASE TimeOut
  <2>1. /\ tail # <<>> /\ Finish(Head(tail), "rejected") /\ "rejected" \in Ended
        /\ UNCHANGED <<unconfirmed, fate, frames, routed, channel>>
    BY <1>7 DEF TimeOut, brokerVars, Running, Ended
  <2>2. /\ fate' \in [Publications -> {"none", "sent", "queued", "dropped"}]
        /\ channel' \in {"open", "closed"} /\ unconfirmed' \subseteq Publications
    BY <2>1 DEF PublisherTypeOK
  <2> HIDE DEF PublisherInv
  <2> QED
    BY <1>0, <2>1, <2>2
<1>8. CASE Rebind
  <2>1. UNCHANGED <<tail, call, awaited, returned, unconfirmed, fate, frames, channel>>
        /\ Running' = Running
    BY <1>8 DEF Rebind, clientVars, Running
  <2>2. routed' \in BOOLEAN
    BY <1>8 DEF Rebind
  <2>3. PublisherTypeOK'
    BY <2>1, <2>2 DEF PublisherTypeOK
  <2> QED
    BY <2>1, <2>3 DEF ResolvedMeansQueued, AnswersAreDue, OneTurnEach, AnswersInOrder
<1>9. CASE Close
  <2>1. /\ frames' = <<>> /\ channel' = "closed" /\ UNCHANGED <<unconfirmed, routed>>
        /\ fate' \in [Publications -> {"none", "sent", "queued", "dropped"}]
        /\ \A q \in Publications : fate[q] # "sent" => fate'[q] = fate[q]
    BY <1>9 DEF Close, PublisherTypeOK
  <2>2. CASE Running
    <3>1. tail # <<>> /\ Finish(Head(tail), "rejected") /\ "rejected" \in Ended
      BY <1>9, <2>2 DEF Close, Running, Ended
    <3>2. unconfirmed' \subseteq Publications
      BY <2>1 DEF PublisherTypeOK
    <3> HIDE DEF PublisherInv
    <3> QED
      BY <1>0, <2>1, <3>1, <3>2
  <2>3. CASE ~Running
    <3>1. UNCHANGED <<tail, call, awaited, returned>> /\ ~Running'
      BY <1>9, <2>3 DEF Close, Running
    <3>2. PublisherTypeOK'
      BY <2>1, <3>1 DEF PublisherTypeOK
    <3>3. ResolvedMeansQueued' /\ AnswersAreDue' /\ OneTurnEach'
      BY <2>1, <2>3, <3>1 DEF ResolvedMeansQueued, AnswersAreDue, OneTurnEach
    <3>4. AnswersInOrder'
      BY <2>1, <3>1 DEF AnswersInOrder
    <3> QED
      BY <3>2, <3>3, <3>4
  <2> QED
    BY <2>2, <2>3
<1>10. CASE UNCHANGED publisherVars
  <2>1. UNCHANGED <<tail, call, awaited, returned, unconfirmed, fate, frames, routed, channel>>
        /\ Running' = Running
    BY <1>10 DEF publisherVars, Running
  <2> QED
    BY <2>1 DEF PublisherTypeOK, ResolvedMeansQueued, AnswersAreDue, OneTurnEach, AnswersInOrder
<1> QED
  BY <1>1, <1>2, <1>3, <1>4, <1>5, <1>6, <1>7, <1>8, <1>9, <1>10 DEF PublisherNext

(* However confirms, returns, refusals and the end of the channel fall among   *)
(* the calls, what publish() resolved is in a queue.                            *)
THEOREM ResolvedIsQueued == PublisherSpec => []PublisherInv
<1>1. PublisherInit => PublisherInv
  <2> SUFFICES ASSUME PublisherInit PROVE PublisherInv
    OBVIOUS
  <2>1. ~Running /\ Len(tail) = 0 /\ Len(frames) = 0
    BY DEF PublisherInit, Running
  <2>2. tail \in Seq(Publications) /\ frames \in Seq(Frames)
    BY DEF PublisherInit
  <2>3. returned \in BOOLEAN /\ routed \in BOOLEAN
    BY DEF PublisherInit
  <2>4. PublisherTypeOK
    BY <2>2, <2>3 DEF PublisherInit, PublisherTypeOK, Frames
  <2> QED
    BY <2>1, <2>4 DEF PublisherInit, PublisherInv, ResolvedMeansQueued, AnswersAreDue, OneTurnEach,
       AnswersInOrder
<1> QED
  BY <1>1, PublisherStep, PTL DEF PublisherSpec

-----------------------------------------------------------------------------
LEMMA Least == ASSUME NEW S \in SUBSET Nat, S # {} PROVE \E m \in S : \A k \in S : m <= k
<1>1. PICK m \in S : \A y \in S : ~(<<y, m>> \in OpToRel(<, Nat))
  BY NatLessThanWellFounded, WFMin, Zenon
<1>2. ASSUME NEW y \in S, y < m PROVE <<y, m>> \in OpToRel(<, Nat)
  <2>1. <<y, m>> \in Nat \X Nat /\ <<y, m>>[1] = y /\ <<y, m>>[2] = m
    OBVIOUS
  <2> QED
    BY <1>2, <2>1, Zenon DEF OpToRel
<1>3. \A y \in S : ~(y < m)
  BY <1>1, <1>2, Zenon
<1> QED
  BY <1>3

(* Rounding up to seconds never rounds below. *)
LEMMA CeilDivCovers ==
  ASSUME NEW n \in Nat, NEW d \in Nat \ {0}
  PROVE  CeilDiv(n, d) \in Int /\ d * CeilDiv(n, d) >= n
  BY DEF CeilDiv

(* Retry-After spans what is left of the window of the oldest request counted. *)
LEMMA RetryAfterSpans ==
  ASSUME EdgeInv, NEW c \in Clients, Current(c) # {}
  PROVE  /\ RetryAfter(c) \in Nat /\ Second * RetryAfter(c) \in Nat
         /\ \E q \in Current(c) : /\ entered[q] # Never
                                 /\ entered[q] + Window <= clock + Second * RetryAfter(c)
<1> DEFINE times == {entered[q] : q \in Current(c)}
           left == First(c) + Window - clock
           seconds == CeilDiv(left, Second)
<1>1. /\ Window \in Nat \ {0} /\ Second \in Nat \ {0} /\ clock \in Nat
      /\ \A q \in Current(c) : /\ q \in Requests /\ entered[q] \in Nat /\ entered[q] # Never
                              /\ entered[q] > clock - Window
  BY EdgeAssumption DEF EdgeInv, EdgeTypeOK, WindowIsKept, Current, Never
<1>2. First(c) \in times /\ \A q \in Current(c) : First(c) <= entered[q]
  <2>1. times \subseteq Nat /\ times # {}
    BY <1>1
  <2> HIDE DEF times
  <2>2. \E t \in times : \A k \in times : t <= k
    BY <2>1, Least
  <2>3. \E t \in times : \A q \in Current(c) : t <= entered[q]
    BY <2>2 DEF times
  <2> QED
    BY <2>3 DEF First, times
<1>3. PICK q \in Current(c) : entered[q] = First(c)
  BY <1>2
<1>4. left \in Nat /\ First(c) \in Nat /\ First(c) + Window = clock + left
  BY <1>1, <1>3
<1>5. seconds \in Int /\ Second * seconds >= left
  <2> HIDE DEF left
  <2> QED
    BY <1>1, <1>4, CeilDivCovers
<1>6. RetryAfter(c) = IF seconds > 1 THEN seconds ELSE 1
  BY DEF RetryAfter
<1> HIDE DEF left, seconds
<1>7. CASE seconds > 1
  BY <1>1, <1>3, <1>4, <1>5, <1>6, <1>7
<1>8. CASE ~(seconds > 1)
  <2>1. Second * 1 >= Second * seconds
    BY <1>1, <1>5, <1>8
  <2> QED
    BY <1>1, <1>3, <1>4, <1>5, <1>6, <1>8, <2>1
<1> QED
  BY <1>5, <1>7, <1>8

(* A step that leaves the limiter and its clock alone. *)
LEMMA LimiterRests ==
  ASSUME EdgeInv, UNCHANGED <<clock, limiterVars>>,
         \A r \in Requests :
           \/ req'[r].of = req[r].of
           \/ req[r].at = "new",
         \A r \in Requests :
           /\ req'[r].at # "new" => req'[r].of \in Clients
           /\ req'[r].at \in {"new", "limiter"} => req[r].at \in {"new", "limiter"}
           /\ req'[r].at = "new" => req[r].at = "new" /\ resent'[r] = resent[r]
           /\ resent'[r] \in Nat /\ resent'[r] >= resent[r]
  PROVE  NoBurst' /\ RetryAfterSuffices' /\ WindowIsKept' /\ RefusalsEnd'
<1> USE DEF EdgeInv
<1>1. \A r \in Requests : entered[r] # Never => req'[r].of = req[r].of
  BY DEF WindowIsKept
<1>2. UNCHANGED <<entries, entered, refusals>>
  BY DEF limiterVars
<1>3. NoBurst'
  <2> SUFFICES ASSUME NEW c \in Clients, NEW t \in 0..MaxClock
               PROVE  Cardinality({r \in Requests :
                        /\ req'[r].of = c /\ entered[r] # Never
                        /\ entered[r] > t - Window /\ entered[r] <= t}) <= Admissions
    BY <1>2 DEF NoBurst
  <2>1. {r \in Requests : /\ req'[r].of = c /\ entered[r] # Never
                          /\ entered[r] > t - Window /\ entered[r] <= t}
        = {r \in Requests : /\ req[r].of = c /\ entered[r] # Never
                            /\ entered[r] > t - Window /\ entered[r] <= t}
    BY <1>1
  <2> QED
    BY <2>1 DEF NoBurst
<1>4. \A r \in Requests : resent[r] > 0 => resent'[r] > 0
  BY EdgeAssumption DEF EdgeTypeOK
<1>5. \A f \in refusals : f.seen \subseteq Requests
  BY DEF EdgeTypeOK
<1>6. RetryAfterSuffices'
  BY <1>2, <1>4, <1>5 DEF RetryAfterSuffices
<1>7. RefusalsEnd'
  BY <1>2, <1>4, <1>5 DEF RefusalsEnd
<1>8. WindowIsKept'
  <2>1. ASSUME NEW r \in Requests PROVE WindowIsKept!1!(r)'
    BY <1>1, <1>2, <1>4, <2>1 DEF WindowIsKept
  <2> QED
    BY <1>2, <2>1 DEF WindowIsKept
<1> QED
  BY <1>3, <1>6, <1>7, <1>8

(* The script lets a request in: no window that ends now or later holds more  *)
(* than the set it found with room, and an earlier one at most loses r.        *)
LEMMA AdmitKeeps ==
  ASSUME EdgeInv, NEW r \in Requests, req[r].at = "limiter", Admit(r), UNCHANGED clock,
         \A q \in Requests :
           /\ req'[q].of = req[q].of
           /\ resent'[q] \in Nat /\ resent'[q] >= resent[q]
           /\ q # r => req'[q].at = req[q].at /\ resent'[q] = resent[q],
         req'[r].at \in {"session", "unavailable"} \/ (req'[r].at = "limiter" /\ resent'[r] > 0)
  PROVE  NoBurst' /\ RetryAfterSuffices' /\ WindowIsKept' /\ RefusalsEnd'
<1> USE DEF EdgeInv
<1> DEFINE c == req[r].of
<1>1. /\ c \in Clients /\ Current(c) \subseteq entries[c]
      /\ entered[r] # Never => resent'[r] > 0
      /\ \A q \in Requests : resent[q] \in Nat
      /\ clock \in 0..MaxClock /\ Window \in Nat \ {0} /\ Admissions \in Nat /\ MaxClock \in Nat
      /\ \A q \in Requests : entered[q] \in Int /\ entered[q] <= clock
  <2>1. \A q \in Requests : resent[q] \in Nat
    BY EdgeAssumption DEF EdgeTypeOK
  <2>2. entered[r] # Never => resent'[r] > 0
    BY <2>1 DEF WindowIsKept
  <2> QED
    BY <2>1, <2>2, EdgeAssumption DEF WindowIsKept, Current, EdgeTypeOK, Never
<1>2. /\ entries' = [entries EXCEPT ![c] = Current(c) \cup {r}]
      /\ entered' = [entered EXCEPT ![r] = clock] /\ UNCHANGED refusals
      /\ Cardinality(Current(c)) < Admissions
  BY DEF Admit, Client
<1>3. /\ entered'[r] = clock /\ \A q \in Requests : q # r => entered'[q] = entered[q]
      /\ entries'[c] = Current(c) \cup {r} /\ \A d \in Clients : d # c => entries'[d] = entries[d]
  BY <1>1, <1>2 DEF EdgeTypeOK
<1>4. /\ IsFiniteSet(Current(c)) /\ IsFiniteSet(Current(c) \cup {r})
      /\ Cardinality(Current(c) \cup {r}) <= Admissions
  <2>1. IsFiniteSet(Current(c))
    BY <1>1, FS_Subset DEF WindowIsKept
  <2> DEFINE S == Current(c)
             n == Cardinality(S)
  <2>2. IsFiniteSet(S) /\ n \in Nat /\ n < Admissions /\ S = Current(c) /\ Admissions \in Nat
    BY <1>1, <1>2, <2>1, FS_CardinalityType
  <2> HIDE DEF S
  <2>3. IsFiniteSet(S \cup {r}) /\ Cardinality(S \cup {r}) \in {n, n + 1}
    BY <2>2, FS_AddElement
  <2> HIDE DEF n
  <2> QED
    BY <2>2, <2>3
<1> HIDE DEF c
<1>5. clock # Never
  BY <1>1 DEF Never
<1>6. NoBurst'
  <2> SUFFICES ASSUME NEW d \in Clients, NEW t \in 0..MaxClock
               PROVE  Cardinality({q \in Requests :
                        /\ req'[q].of = d /\ entered'[q] # Never
                        /\ entered'[q] > t - Window /\ entered'[q] <= t}) <= Admissions
    BY DEF NoBurst
  <2> DEFINE In == {q \in Requests : /\ req[q].of = d /\ entered[q] # Never
                                     /\ entered[q] > t - Window /\ entered[q] <= t}
             InAfter == {q \in Requests : /\ req'[q].of = d /\ entered'[q] # Never
                                          /\ entered'[q] > t - Window /\ entered'[q] <= t}
  <2>1. CASE d # c
    <3>1. r \notin In /\ r \notin InAfter
      BY <2>1 DEF c
    <3>2. \A q \in Requests : q # r => (q \in In <=> q \in InAfter)
      BY <1>3
    <3>3. In = InAfter
      BY <3>1, <3>2
    <3> QED
      BY <3>3 DEF NoBurst
  <2>3. CASE t < clock
    <3>1. IsFiniteSet(In)
      BY FS_Subset DEF WindowIsKept
    <3>2. r \notin InAfter
      BY <1>1, <1>3, <2>3
    <3>3. InAfter \subseteq In
      BY <1>3, <3>2
    <3>4. Cardinality(In) <= Admissions
      BY DEF NoBurst
    <3> HIDE DEF In, InAfter
    <3>5. Cardinality(InAfter) <= Cardinality(In) /\ IsFiniteSet(InAfter)
      BY <3>1, <3>3, FS_Subset
    <3>6. Cardinality(InAfter) \in Nat /\ Cardinality(In) \in Nat
      BY <3>1, <3>5, FS_CardinalityType
    <3> QED
      BY <1>1, <3>4, <3>5, <3>6 DEF InAfter
  <2>2. CASE d = c /\ t >= clock
    <3>1. \A q \in In : q \in Current(c)
      BY <1>1, <2>2 DEF WindowIsKept, Current
    <3>2. InAfter \subseteq Current(c) \cup {r}
      BY <1>3, <3>1
    <3>3. Cardinality(InAfter) <= Cardinality(Current(c) \cup {r}) /\ IsFiniteSet(InAfter)
      BY <1>4, <3>2, FS_Subset
    <3> HIDE DEF InAfter, In
    <3>4. Cardinality(InAfter) \in Nat /\ Cardinality(Current(c) \cup {r}) \in Nat
      BY <1>4, <3>3, FS_CardinalityType
    <3> QED
      BY <1>1, <1>4, <3>3, <3>4 DEF InAfter
  <2> QED
    BY <1>1, <2>1, <2>2, <2>3
<1>7. \A f \in refusals : \A q \in f.seen :
        /\ q \in Requests
        /\ entered[q] # Never =>
             entered'[q] # Never /\ (entered'[q] = entered[q] \/ resent'[q] > 0)
        /\ resent[q] > 0 => resent'[q] > 0
  <2>1. ASSUME NEW q \in Requests
        PROVE  /\ entered[q] # Never =>
                    entered'[q] # Never /\ (entered'[q] = entered[q] \/ resent'[q] > 0)
               /\ resent[q] > 0 => resent'[q] > 0
    <3>1. CASE q = r
      BY <1>1, <1>3, <1>5, <3>1
    <3>2. CASE q # r
      BY <1>3, <3>2
    <3> QED
      BY <3>1, <3>2
  <2> QED
    BY <2>1 DEF EdgeTypeOK
<1>8. RefusalsEnd'
  <2> SUFFICES ASSUME NEW f \in refusals
               PROVE  \E q \in f.seen :
                        entered'[q] # Never /\ (entered'[q] + Window <= f.until \/ resent'[q] > 0)
    BY <1>2 DEF RefusalsEnd
  <2>1. PICK q \in f.seen : entered[q] # Never /\ (entered[q] + Window <= f.until \/ resent[q] > 0)
    BY DEF RefusalsEnd
  <2> QED
    BY <1>7, <2>1
<1>9. RetryAfterSuffices'
  <2> SUFFICES ASSUME NEW f \in refusals, clock >= f.until
               PROVE  \E q \in f.seen : entered'[q] + Window <= clock \/ resent'[q] > 0
    BY <1>2 DEF RetryAfterSuffices
  <2>1. PICK q \in f.seen : entered'[q] # Never /\ (entered'[q] + Window <= f.until \/ resent'[q] > 0)
    BY <1>2, <1>8 DEF RefusalsEnd
  <2>2. f.until \in Nat /\ q \in Requests /\ entered'[q] \in Int
    BY <1>1, <1>3, <1>7 DEF EdgeTypeOK
  <2> QED
    BY <1>1, <2>1, <2>2
<1>10. WindowIsKept'
  <2>1. ASSUME NEW q \in Requests
        PROVE  /\ req'[q].at # "new" => req'[q].of \in Clients
               /\ req'[q].at \in {"new", "limiter"} => entered'[q] = Never \/ resent'[q] > 0
               /\ req'[q].at = "new" => resent'[q] = 0
               /\ entered'[q] <= clock
               /\ entered'[q] # Never /\ entered'[q] > clock - Window => q \in entries'[req'[q].of]
    <3>1. CASE q = r
      BY <1>1, <1>3, <3>1 DEF c
    <3>2. CASE q # r
      BY <1>1, <1>3, <3>2 DEF WindowIsKept, Current
    <3> QED
      BY <3>1, <3>2
  <2>2. ASSUME NEW d \in Clients
        PROVE  IsFiniteSet(entries'[d]) /\ \A q \in entries'[d] : entered'[q] # Never
    <3>1. CASE d = c
      <4>1. \A q \in Current(c) : q \in entries[c] /\ q \in Requests
        BY <1>1 DEF EdgeTypeOK
      <4>2. \A q \in Current(c) : entered'[q] # Never
        BY <1>1, <1>3, <1>5, <4>1 DEF WindowIsKept
      <4> QED
        BY <1>3, <1>4, <1>5, <3>1, <4>2
    <3>2. CASE d # c
      <4>1. \A q \in entries[d] : q \in Requests /\ entered[q] # Never
        BY DEF EdgeTypeOK, WindowIsKept
      <4>2. IsFiniteSet(entries[d])
        BY DEF WindowIsKept
      <4> QED
        BY <1>3, <1>5, <3>2, <4>1, <4>2
    <3> QED
      BY <3>1, <3>2
  <2>3. IsFiniteSet({q \in Requests : entered'[q] # Never})
    <3> DEFINE In == {q \in Requests : entered[q] # Never}
    <3>1. {q \in Requests : entered'[q] # Never} \subseteq In \cup {r}
      BY <1>3
    <3>2. IsFiniteSet(In \cup {r})
      <4>1. IsFiniteSet(In)
        BY DEF WindowIsKept
      <4> HIDE DEF In
      <4> QED
        BY <4>1, FS_AddElement
    <3> QED
      BY <3>1, <3>2, FS_Subset
  <2> QED
    BY <2>1, <2>2, <2>3 DEF WindowIsKept
<1> QED
  BY <1>6, <1>8, <1>9, <1>10

LEMMA RefuseKeeps ==
  ASSUME EdgeInv, NEW r \in Requests, req[r].at = "limiter", Refused(r),
         req' = [req EXCEPT ![r].at = "tooMany"], UNCHANGED <<clock, resent>>
  PROVE  /\ NoBurst' /\ RetryAfterSuffices' /\ WindowIsKept' /\ RefusalsEnd'
         /\ refusals' \subseteq [of : Clients, until : Nat, seen : SUBSET Requests]
         /\ entries' \in [Clients -> SUBSET Requests]
<1> USE DEF EdgeInv
<1> DEFINE c == req[r].of
           f == [of |-> c, seen |-> Current(c), until |-> clock + Second * RetryAfter(c)]
<1>1. /\ c \in Clients /\ Current(c) \subseteq entries[c] /\ Current(c) \subseteq Requests
      /\ clock \in 0..MaxClock /\ Window \in Nat \ {0} /\ Admissions \in Nat \ {0} /\ MaxClock \in Nat
      /\ \A q \in Requests : entered[q] \in Int /\ entered[q] <= clock
      /\ IsFiniteSet(entries[c])
  BY EdgeAssumption DEF WindowIsKept, Current, EdgeTypeOK, Never
<1>2. /\ entries' = [entries EXCEPT ![c] = Current(c)] /\ UNCHANGED <<entered, clock>>
      /\ refusals' = refusals \cup {f}
      /\ Cardinality(Current(c)) >= Admissions
  BY DEF Refused, Client
<1>3. Current(c) # {}
  <2> SUFFICES ASSUME Current(c) = {} PROVE FALSE
    OBVIOUS
  <2>1. Cardinality(Current(c)) = 0
    BY FS_EmptySet
  <2> QED
    BY <1>1, <1>2, <2>1
<1>4. /\ f.until \in Nat /\ f.until = clock + Second * RetryAfter(c)
      /\ \E q \in f.seen : entered[q] # Never /\ entered[q] + Window <= f.until
  <2>1. /\ Second * RetryAfter(c) \in Nat
        /\ \E q \in Current(c) : /\ entered[q] # Never
                                /\ entered[q] + Window <= clock + Second * RetryAfter(c)
    BY <1>1, <1>3, RetryAfterSpans
  <2>2. clock + Second * RetryAfter(c) \in Nat
    BY <1>1, <2>1
  <2> QED
    BY <2>1, <2>2
<1>5. f \in [of : Clients, until : Nat, seen : SUBSET Requests]
  BY <1>1, <1>4
<1>6. /\ entries'[c] = Current(c) /\ \A d \in Clients : d # c => entries'[d] = entries[d]
      /\ \A q \in Requests : req'[q].of = req[q].of
      /\ \A q \in Requests : req'[q].at = IF q = r THEN "tooMany" ELSE req[q].at
      /\ entries' \in [Clients -> SUBSET Requests]
  BY <1>1, <1>2 DEF EdgeTypeOK
<1>7. refusals' \subseteq [of : Clients, until : Nat, seen : SUBSET Requests]
  <2> HIDE DEF f
  <2> QED
    BY <1>2, <1>5 DEF EdgeTypeOK
<1>8. RefusalsEnd'
  <2> HIDE DEF f
  <2> QED
    BY <1>2, <1>4 DEF RefusalsEnd
<1>9. RetryAfterSuffices'
  <2> SUFFICES ASSUME NEW g \in refusals', clock >= g.until
               PROVE  \E q \in g.seen : entered[q] + Window <= clock \/ resent[q] > 0
    BY <1>2 DEF RetryAfterSuffices
  <2>1. PICK q \in g.seen : entered'[q] # Never /\ (entered'[q] + Window <= g.until \/ resent'[q] > 0)
    BY <1>8 DEF RefusalsEnd
  <2>2. g.until \in Nat /\ q \in Requests
    BY <1>7
  <2> QED
    BY <1>1, <1>2, <2>1, <2>2
<1> HIDE DEF f
<1>10. NoBurst'
  <2> SUFFICES ASSUME NEW d \in Clients, NEW t \in 0..MaxClock
               PROVE  Cardinality({q \in Requests :
                        /\ req'[q].of = d /\ entered[q] # Never
                        /\ entered[q] > t - Window /\ entered[q] <= t}) <= Admissions
    BY <1>2 DEF NoBurst
  <2>1. {q \in Requests : /\ req'[q].of = d /\ entered[q] # Never
                          /\ entered[q] > t - Window /\ entered[q] <= t}
        = {q \in Requests : /\ req[q].of = d /\ entered[q] # Never
                            /\ entered[q] > t - Window /\ entered[q] <= t}
    BY <1>6
  <2> QED
    BY <2>1 DEF NoBurst
<1> HIDE DEF c
<1>11. WindowIsKept'
  <2>1. ASSUME NEW q \in Requests
        PROVE  /\ req'[q].at # "new" => req'[q].of \in Clients
               /\ req'[q].at \in {"new", "limiter"} => entered'[q] = Never \/ resent'[q] > 0
               /\ req'[q].at = "new" => resent'[q] = 0
               /\ entered'[q] <= clock
               /\ entered'[q] # Never /\ entered'[q] > clock - Window => q \in entries'[req'[q].of]
    <3>1. /\ req'[q].at # "new" => req'[q].of \in Clients
          /\ req'[q].at \in {"new", "limiter"} => entered'[q] = Never \/ resent'[q] > 0
          /\ req'[q].at = "new" => resent'[q] = 0
      BY <1>2, <1>6 DEF WindowIsKept, c
    <3>2. ASSUME entered[q] # Never, entered[q] > clock - Window
          PROVE  q \in entries'[req[q].of]
      <4>1. q \in entries[req[q].of] /\ req[q].of \in Clients
        BY <3>2 DEF WindowIsKept
      <4> QED
        BY <1>6, <3>2, <4>1 DEF Current
    <3> QED
      BY <1>1, <1>2, <1>6, <3>1, <3>2
  <2>2. ASSUME NEW d \in Clients
        PROVE  IsFiniteSet(entries'[d]) /\ \A q \in entries'[d] : entered'[q] # Never
    <3>1. CASE d = c
      BY <1>1, <1>2, <1>6, <3>1, FS_Subset DEF WindowIsKept
    <3>2. CASE d # c
      BY <1>2, <1>6, <3>2 DEF WindowIsKept
    <3> QED
      BY <3>1, <3>2
  <2> QED
    BY <1>2, <2>1, <2>2 DEF WindowIsKept
<1> QED
  BY <1>6, <1>7, <1>8, <1>9, <1>10, <1>11

LEMMA MadeByIsFinite ==
  ASSUME NEW r \in Requests
  PROVE  IsFiniteSet(MadeBy(r)) /\ Cardinality(MadeBy(r)) \in Nat
  BY EdgeAssumption, FS_Subset, FS_CardinalityType DEF MadeBy

(* A step that leaves the sessions alone, and only moves requests.            *)
LEMMA SessionsRest ==
  ASSUME EdgeInv, UNCHANGED <<clock, session>>, entered' \in [Requests -> Never..MaxClock],
         \A r \in Requests :
           /\ req'[r].made = req[r].made /\ req'[r].touched = req[r].touched
           /\ req'[r].sid = req[r].sid \/ req[r].made = NoOne
           /\ req'[r].route = req[r].route \/ req[r].at = "new"
           /\ req'[r].at \in {"new", "limiter", "session", "fresh"} =>
                req[r].at \in {"new", "limiter", "session", "fresh"}
           /\ req'[r].at \in {"new", "limiter", "session"} =>
                req[r].at \in {"new", "limiter", "session"}
           /\ resent'[r] \in Nat /\ resent'[r] >= resent[r]
           /\ req'[r].at = "session" /\ Create(r)' => entered'[r] # Never
           /\ req'[r].at = "fresh" => Create(r)' /\ entered'[r] # Never
           /\ entered[r] # Never => entered'[r] # Never
  PROVE  SessionsAreEarned' /\ SessionsComeLast'
<1> USE DEF EdgeInv
<1>1. \A r \in Requests :
        /\ MadeBy(r)' = MadeBy(r) /\ resent[r] \in Nat
        /\ Cardinality(MadeBy(r)) \in Nat
  <2>1. \A r \in Requests : MadeBy(r)' = MadeBy(r)
    BY DEF MadeBy
  <2>2. \A r \in Requests : resent[r] \in Nat
    BY EdgeAssumption DEF EdgeTypeOK
  <2> QED
    BY <2>1, <2>2, MadeByIsFinite
<1>2. SessionsComeLast'
  <2>1. ASSUME NEW r \in Requests
        PROVE  /\ req'[r].at \in {"new", "limiter", "session", "fresh"} =>
                    req'[r].made = NoOne /\ Cardinality(MadeBy(r)') <= resent'[r]
               /\ req'[r].at \in {"new", "limiter", "session"} => MadeBy(r)' = {}
               /\ req'[r].touched <= clock
               /\ req'[r].made # NoOne => req'[r].sid \in Sids
               /\ req'[r].made # NoOne /\ clock < req'[r].touched + Ttl =>
                    /\ session[req'[r].sid].by = req'[r].made
                    /\ session[req'[r].sid].expires >= req'[r].touched + Ttl
    <3>1. SessionsComeLast!1!(r)
      BY DEF SessionsComeLast
    <3>2. req'[r].made # NoOne => req'[r].made = req[r].made /\ req'[r].sid = req[r].sid
      OBVIOUS
    <3>3. req'[r].at \in {"new", "limiter", "session", "fresh"} =>
            req'[r].made = NoOne /\ Cardinality(MadeBy(r)') <= resent'[r]
      BY <1>1, <3>1
    <3>4. req'[r].at \in {"new", "limiter", "session"} => MadeBy(r)' = {}
      BY <1>1, <3>1
    <3> QED
      BY <3>1, <3>2, <3>3, <3>4
  <2> QED
    BY <2>1 DEF SessionsComeLast
<1>3. SessionsAreEarned'
  <2>1. ASSUME NEW s \in Sids, session[s].by # NoOne
        PROVE  LET r == session[s].by IN Create(r)' /\ entered'[r] # Never
    <3> DEFINE r == session[s].by
    <3>1. r \in Requests
      BY <2>1 DEF EdgeTypeOK
    <3>2. Create(r) /\ entered[r] # Never
      BY <2>1 DEF SessionsAreEarned
    <3>3. s \in MadeBy(r)
      BY DEF MadeBy
    <3>4. req[r].at # "new"
      BY <3>1, <3>3 DEF SessionsComeLast
    <3> QED
      BY <3>1, <3>2, <3>4 DEF Create
  <2>2. ASSUME NEW r \in Requests, req[r].made # NoOne, clock < req[r].touched + Ttl
        PROVE  session[req'[r].sid].by = req'[r].made /\ session[req'[r].sid].expires > clock
    <3>1. session[req[r].sid].by = req[r].made /\ Live(req[r].sid)
      BY <2>2 DEF SessionsAreEarned
    <3>2. req'[r].sid = req[r].sid
      BY <2>2
    <3> QED
      BY <2>2, <3>1, <3>2 DEF Live
  <2>3. ASSUME NEW r \in Requests
        PROVE  Cardinality(MadeBy(r)') <= 1 + resent'[r]
    <3>1. Cardinality(MadeBy(r)) <= 1 + resent[r]
      BY DEF SessionsAreEarned
    <3> QED
      BY <1>1, <3>1
  <2> QED
    BY <2>1, <2>2, <2>3 DEF SessionsAreEarned, Live
<1> QED
  BY <1>2, <1>3

(* A session is extended, created or found by a request that then holds it,   *)
(* was not told, or will ask again: nobody else's session ends early by it, and *)
(* the request has made one more than before at most.                          *)
LEMMA SessionKeeps ==
  ASSUME EdgeInv, NEW r \in Requests, NEW s \in Sids, NEW by \in Requests \cup {NoOne},
         session' = [session EXCEPT ![s] = [expires |-> clock + Ttl, by |-> by]],
         \/ /\ \/ req' = [req EXCEPT ![r].at = "handler", ![r].sid = s, ![r].touched = clock,
                                     ![r].made = by]
               \/ req' = [req EXCEPT ![r].at = "unavailable"]
            /\ UNCHANGED resent
         \/ UNCHANGED req /\ resent' = [resent EXCEPT ![r] = @ + 1] /\ resent[r] < MaxResends,
         UNCHANGED <<api, clock, limiterVars>>,
         \/ req[r].at = "session" /\ by = session[s].by
         \/ req[r].at = "fresh" /\ ~Live(s) /\ by = r
  PROVE  EdgeInv'
<1> USE DEF EdgeInv
<1>1. /\ clock \in Nat /\ Ttl \in Nat /\ MaxClock \in Nat /\ clock <= MaxClock
      /\ r # NoOne /\ entered[r] \in Int /\ clock' = clock
      /\ UNCHANGED <<api, entries, entered, refusals>> /\ Ttl > 0
  BY EdgeAssumption DEF EdgeTypeOK, limiterVars, NoOne, Never
<1>2. /\ session'[s].expires = clock + Ttl /\ session'[s].by = by
      /\ \A t \in Sids : t # s => session'[t] = session[t]
      /\ session' \in [Sids -> [expires : 0..(MaxClock + Ttl), by : Requests \cup {NoOne}]]
  <2> DEFINE place == [expires |-> clock + Ttl, by |-> by]
  <2>1. place \in [expires : 0..(MaxClock + Ttl), by : Requests \cup {NoOne}]
    BY <1>1
  <2>2. place.expires = clock + Ttl /\ place.by = by
    OBVIOUS
  <2> HIDE DEF place
  <2> QED
    BY <2>1, <2>2 DEF EdgeTypeOK, place
<1>3. req' \in [Requests -> [at : Stages, of : Clients \cup {None}, route : Routes \cup {None},
        sid : Sids \cup {None}, touched : Never..MaxClock, made : Requests \cup {NoOne}]]
  <2>1. CASE UNCHANGED req
    BY <2>1 DEF EdgeTypeOK
  <2>2. CASE \/ req' = [req EXCEPT ![r].at = "handler", ![r].sid = s, ![r].touched = clock,
                                  ![r].made = by]
             \/ req' = [req EXCEPT ![r].at = "unavailable"]
    BY <1>1, <2>2, SMTT(30) DEF EdgeTypeOK, Stages, Never
  <2> QED
    BY <2>1, <2>2
<1>4. /\ \A q \in Requests : q # r => req'[q] = req[q] /\ resent'[q] = resent[q]
      /\ req'[r].of = req[r].of /\ req'[r].route = req[r].route
      /\ \/ /\ req'[r].at = "handler" /\ req'[r].sid = s
            /\ req'[r].touched = clock /\ req'[r].made = by /\ resent'[r] = resent[r]
         \/ /\ req'[r].at = "unavailable" /\ req'[r].made = NoOne
            /\ req'[r].touched = req[r].touched /\ resent'[r] = resent[r]
         \/ req'[r] = req[r] /\ req[r].made = NoOne /\ resent'[r] = resent[r] + 1
  <2>1. req[r].made = NoOne
    BY DEF SessionsComeLast
  <2>2. CASE UNCHANGED req /\ resent' = [resent EXCEPT ![r] = @ + 1]
    BY <2>1, <2>2 DEF EdgeTypeOK
  <2>3. CASE UNCHANGED resent /\ req' = [req EXCEPT ![r].at = "unavailable"]
    BY <2>1, <2>3 DEF EdgeTypeOK
  <2>4. CASE UNCHANGED resent /\ req' = [req EXCEPT ![r].at = "handler", ![r].sid = s,
                                         ![r].touched = clock, ![r].made = by]
    BY <2>4 DEF EdgeTypeOK
  <2> QED
    BY <2>2, <2>3, <2>4
<1>5. /\ resent' \in [Requests -> 0..MaxResends]
      /\ \A q \in Requests : resent'[q] \in Nat /\ resent[q] \in Nat /\ resent'[q] >= resent[q]
  <2>1. MaxResends \in Nat /\ resent \in [Requests -> 0..MaxResends]
    BY EdgeAssumption DEF EdgeTypeOK
  <2>2. CASE resent' = [resent EXCEPT ![r] = @ + 1] /\ resent[r] < MaxResends
    BY <2>1, <2>2
  <2>3. CASE UNCHANGED resent
    BY <2>1, <2>3
  <2> QED
    BY <2>2, <2>3
<1>11. EdgeTypeOK'
  BY <1>1, <1>2, <1>3, <1>5 DEF EdgeTypeOK
<1>6. NoBurst' /\ RetryAfterSuffices' /\ WindowIsKept' /\ RefusalsEnd'
  <2>1. \A q \in Requests : req'[q].of = req[q].of \/ req[q].at = "new"
    BY <1>4
  <2>2. \A q \in Requests :
           /\ req'[q].at # "new" => req'[q].of \in Clients
           /\ req'[q].at \in {"new", "limiter"} => req[q].at \in {"new", "limiter"}
           /\ req'[q].at = "new" => req[q].at = "new" /\ resent'[q] = resent[q]
    BY <1>4 DEF WindowIsKept
  <2> HIDE DEF EdgeInv
  <2> QED
    BY <1>5, <2>1, <2>2, LimiterRests
(* A session somebody holds for its TTL was not free, and is not shortened.   *)
<1>7. ASSUME NEW q \in Requests, q # r, req[q].made # NoOne, clock < req[q].touched + Ttl
      PROVE  /\ session'[req[q].sid].by = req[q].made
             /\ session'[req[q].sid].expires >= req[q].touched + Ttl
  <2>1. /\ session[req[q].sid].by = req[q].made /\ req[q].sid \in Sids
        /\ session[req[q].sid].expires >= req[q].touched + Ttl
        /\ req[q].touched <= clock /\ req[q].touched \in Int
        /\ session[req[q].sid].expires \in Int
    BY <1>7 DEF SessionsComeLast, EdgeTypeOK, Never
  <2>2. CASE req[q].sid = s
    <3>1. Live(s)
      BY <1>1, <1>7, <2>1, <2>2 DEF Live
    <3> QED
      BY <1>1, <1>2, <2>1, <2>2, <3>1
  <2>3. CASE req[q].sid # s
    BY <1>2, <2>1, <2>3
  <2> QED
    BY <2>2, <2>3
<1>8. by # NoOne => by \in Requests /\ Create(by) /\ entered[by] # Never
  <2>1. CASE req[r].at = "session" /\ by = session[s].by
    BY <2>1 DEF SessionsAreEarned
  <2>2. CASE req[r].at = "fresh" /\ by = r
    BY <2>2 DEF SessionsComeLast
  <2> QED
    BY <2>1, <2>2
<1>12. ASSUME NEW q \in Requests
       PROVE  \/ MadeBy(q)' \subseteq MadeBy(q)
              \/ q = r /\ req[r].at = "fresh" /\ MadeBy(q)' \subseteq MadeBy(q) \cup {s}
  <2>1. CASE req[r].at = "session" /\ by = session[s].by
    BY <1>2, <2>1 DEF MadeBy
  <2>2. CASE req[r].at = "fresh" /\ by = r /\ q = r
    BY <1>2, <2>2 DEF MadeBy
  <2>3. CASE req[r].at = "fresh" /\ by = r /\ q # r
    BY <1>2, <2>3 DEF MadeBy
  <2> QED
    BY <2>1, <2>2, <2>3
<1>13. ASSUME NEW q \in Requests
       PROVE  /\ Cardinality(MadeBy(q)) \in Nat /\ Cardinality(MadeBy(q)') \in Nat
              /\ \/ Cardinality(MadeBy(q)') <= Cardinality(MadeBy(q))
                 \/ /\ q = r /\ req[r].at = "fresh"
                    /\ Cardinality(MadeBy(q)') <= Cardinality(MadeBy(q)) + 1
  <2> DEFINE M == MadeBy(q)
             Now == MadeBy(q)'
  <2>1. IsFiniteSet(M) /\ Cardinality(M) \in Nat
    BY MadeByIsFinite
  <2>2. \/ Now \subseteq M
        \/ q = r /\ req[r].at = "fresh" /\ Now \subseteq M \cup {s}
    BY <1>12
  <2> HIDE DEF M, Now
  <2>3. IsFiniteSet(M \cup {s}) /\ Cardinality(M \cup {s}) \in {Cardinality(M), Cardinality(M) + 1}
    BY <2>1, FS_AddElement
  <2>4. CASE Now \subseteq M
    <3>1. IsFiniteSet(Now) /\ Cardinality(Now) <= Cardinality(M)
      BY <2>1, <2>4, FS_Subset
    <3> QED
      BY <2>1, <3>1, FS_CardinalityType DEF M, Now
  <2>5. CASE q = r /\ req[r].at = "fresh" /\ Now \subseteq M \cup {s}
    <3>1. IsFiniteSet(Now) /\ Cardinality(Now) <= Cardinality(M \cup {s})
      BY <2>3, <2>5, FS_Subset
    <3>2. Cardinality(Now) \in Nat
      BY <3>1, FS_CardinalityType
    <3>3. Cardinality(Now) <= Cardinality(M) + 1
      BY <2>1, <2>3, <3>1, <3>2
    <3> QED
      BY <2>1, <2>5, <3>2, <3>3 DEF M, Now
  <2> QED
    BY <2>2, <2>4, <2>5
<1>9. SessionsComeLast'
  <2>1. ASSUME NEW q \in Requests
        PROVE  req'[q].at \in {"new", "limiter", "session", "fresh"} =>
                 req'[q].made = NoOne /\ Cardinality(MadeBy(q)') <= resent'[q]
    <3>1. CASE q = r
      <4>1. CASE req'[r].at \in {"handler", "unavailable"}
        BY <3>1, <4>1
      <4>2. CASE req'[r] = req[r] /\ req[r].made = NoOne /\ resent'[r] = resent[r] + 1
        <5>1. Cardinality(MadeBy(r)) <= resent[r]
          BY DEF SessionsComeLast
        <5> QED
          BY <1>5, <1>13, <3>1, <4>2, <5>1
      <4> QED
        BY <1>4, <4>1, <4>2
    <3>2. CASE q # r
      BY <1>4, <1>5, <1>13, <3>2 DEF SessionsComeLast
    <3> QED
      BY <3>1, <3>2
  <2>5. ASSUME NEW q \in Requests, req'[q].at \in {"new", "limiter", "session"}
        PROVE  MadeBy(q)' = {}
    <3>1. req[q].at \in {"new", "limiter", "session"}
      BY <1>4, <2>5
    <3>2. MadeBy(q) = {}
      BY <3>1 DEF SessionsComeLast
    <3> QED
      BY <1>12, <3>1, <3>2
  <2>2. ASSUME NEW q \in Requests
        PROVE  /\ req'[q].at = "session" /\ Create(q)' => entered'[q] # Never
               /\ req'[q].at = "fresh" => Create(q)' /\ entered'[q] # Never
               /\ req'[q].touched <= clock
               /\ req'[q].made # NoOne => req'[q].sid \in Sids
    <3>1. CASE q = r
      BY <1>1, <1>4, <3>1 DEF SessionsComeLast, EdgeTypeOK, Never, Create
    <3>2. CASE q # r
      BY <1>1, <1>4, <3>2 DEF SessionsComeLast, Create
    <3> QED
      BY <3>1, <3>2
  <2>3. ASSUME NEW q \in Requests, req'[q].made # NoOne, clock < req'[q].touched + Ttl
        PROVE  /\ session'[req'[q].sid].by = req'[q].made
               /\ session'[req'[q].sid].expires >= req'[q].touched + Ttl
    <3>1. CASE q = r
      BY <1>1, <1>2, <1>4, <2>3, <3>1
    <3>2. CASE q # r
      BY <1>4, <1>7, <2>3, <3>2
    <3> QED
      BY <3>1, <3>2
  <2> QED
    BY <1>1, <2>1, <2>2, <2>3, <2>5 DEF SessionsComeLast
<1>10. SessionsAreEarned'
  <2>1. ASSUME NEW t \in Sids, session'[t].by # NoOne
        PROVE  LET q == session'[t].by IN req'[q].route = "session" /\ entered'[q] # Never
    <3> DEFINE q == session'[t].by
    <3>1. q \in Requests /\ req'[q].route = req[q].route
      BY <1>2, <1>4, <2>1
    <3>2. CASE t = s
      BY <1>1, <1>2, <1>8, <2>1, <3>1, <3>2 DEF Create
    <3>3. CASE t # s
      <4>1. Create(q) /\ entered[q] # Never
        BY <1>2, <2>1, <3>3 DEF SessionsAreEarned
      <4> QED
        BY <1>1, <3>1, <4>1 DEF Create
    <3> QED
      BY <3>2, <3>3
  <2>2. ASSUME NEW q \in Requests, req'[q].made # NoOne, clock < req'[q].touched + Ttl
        PROVE  session'[req'[q].sid].by = req'[q].made /\ session'[req'[q].sid].expires > clock
    <3>1. /\ session'[req'[q].sid].by = req'[q].made /\ req'[q].sid \in Sids
          /\ session'[req'[q].sid].expires >= req'[q].touched + Ttl
      BY <1>1, <1>9, <2>2 DEF SessionsComeLast
    <3>2. req'[q].touched \in Int /\ session'[req'[q].sid].expires \in Int
      BY <1>2, <1>3, <3>1 DEF Never
    <3> QED
      BY <1>1, <2>2, <3>1, <3>2
  <2>3. ASSUME NEW q \in Requests
        PROVE  Cardinality(MadeBy(q)') <= 1 + resent'[q]
    <3>1. Cardinality(MadeBy(q)) <= 1 + resent[q]
      BY DEF SessionsAreEarned
    <3>2. req[q].at = "fresh" => Cardinality(MadeBy(q)) <= resent[q]
      BY DEF SessionsComeLast
    <3> QED
      BY <1>5, <1>13, <3>1, <3>2
  <2> QED
    BY <1>1, <2>1, <2>2, <2>3 DEF SessionsAreEarned, Live, Create
<1> QED
  BY <1>6, <1>9, <1>10, <1>11

(* GETEX moves a session's expiry and leaves its maker. *)
LEMMA ExtendsOnly ==
  ASSUME EdgeInv, NEW s \in Sids, Extend(s)
  PROVE  /\ session' = [session EXCEPT ![s] = [expires |-> clock + Ttl, by |-> session[s].by]]
         /\ session[s].by \in Requests \cup {NoOne}
<1>1. session[s] \in [expires : 0..(MaxClock + Ttl), by : Requests \cup {NoOne}]
  BY DEF EdgeInv, EdgeTypeOK
<1> DEFINE until == clock + Ttl
<1> HIDE DEF until
<1>2. [session[s] EXCEPT !.expires = until] = [expires |-> until, by |-> session[s].by]
  BY <1>1
<1>3. session' = [session EXCEPT ![s] = [session[s] EXCEPT !.expires = until]]
  BY DEF Extend, until
<1> QED
  BY <1>1, <1>2, <1>3 DEF until

(* Nothing but the process starts or fails to. *)
LEMMA EdgeRests ==
  ASSUME EdgeInv, UNCHANGED <<clock, req, entries, entered, refusals, session, resent>>,
         api' \in [is : {"starting", "up", "failed"}, state : BOOLEAN]
  PROVE  EdgeInv'
<1> USE DEF EdgeInv
<1>1. EdgeTypeOK'
  BY DEF EdgeTypeOK
<1>2. NoBurst' /\ RetryAfterSuffices' /\ WindowIsKept' /\ RefusalsEnd'
  BY DEF NoBurst, RetryAfterSuffices, WindowIsKept, RefusalsEnd
<1>3. \A r \in Requests : MadeBy(r)' = MadeBy(r)
  BY DEF MadeBy
<1>4. SessionsAreEarned'
  BY <1>3 DEF SessionsAreEarned, Create, Live
<1>5. SessionsComeLast'
  BY <1>3 DEF SessionsComeLast, Create
<1> QED
  BY <1>1, <1>2, <1>4, <1>5

LEMMA EdgeStep == EdgeInv /\ [EdgeNext]_edgeVars => EdgeInv'
<1> SUFFICES ASSUME EdgeInv, [EdgeNext]_edgeVars PROVE EdgeInv'
  OBVIOUS
<1>0. /\ EdgeTypeOK /\ NoBurst /\ RetryAfterSuffices /\ SessionsAreEarned
      /\ WindowIsKept /\ RefusalsEnd /\ SessionsComeLast
      /\ {Admissions, Window, Second, Ttl} \subseteq Nat \ {0} /\ MaxClock \in Nat
      /\ NoOne \notin Requests
  BY EdgeAssumption DEF EdgeInv, NoOne
<1>1. ASSUME Boot PROVE EdgeInv'
  <2>1. UNCHANGED <<clock, req, entries, entered, refusals, session, resent>>
    BY <1>1 DEF Boot, limiterVars
  <2>2. api' \in [is : {"starting", "up", "failed"}, state : BOOLEAN]
    BY <1>0, <1>1 DEF Boot, EdgeTypeOK
  <2> QED
    BY <2>1, <2>2, EdgeRests
(* Moves that touch neither the limiter's keys nor the sessions. *)
<1>2. ASSUME NEW r \in Requests, UNCHANGED <<api, clock, limiterVars, session, resent>>,
             req' \in [Requests -> [at : Stages, of : Clients \cup {None}, route : Routes \cup {None},
                sid : Sids \cup {None}, touched : Never..MaxClock, made : Requests \cup {NoOne}]],
             \A q \in Requests : q # r => req'[q] = req[q],
             req'[r].made = req[r].made /\ req'[r].touched = req[r].touched,
             \/ req[r].at # "new" /\ UNCHANGED <<req[r].of, req[r].sid, req[r].route>>
             \/ req[r].at = "new" /\ req'[r].of \in Clients,
             req'[r].at # "new",
             req'[r].at = "limiter" => req[r].at = "new",
             req'[r].at = "session" => req[r].at \in {"new", "limiter"},
             req'[r].at = "fresh" => req[r].at \in {"new", "limiter", "session", "fresh"},
             req'[r].at = "session" /\ req'[r].route = "session" => entered[r] # Never,
             req'[r].at = "fresh" => req'[r].route = "session" /\ entered[r] # Never
      PROVE  EdgeInv'
  <2>1. EdgeTypeOK'
    BY <1>0, <1>2 DEF EdgeTypeOK, limiterVars
  <2>2. \A q \in Requests :
           /\ req'[q].of = req[q].of \/ req[q].at = "new"
           /\ req'[q].at # "new" => req'[q].of \in Clients
           /\ req'[q].at \in {"new", "limiter"} => req[q].at \in {"new", "limiter"}
           /\ req'[q].at = "new" => req[q].at = "new"
    <3> TAKE q \in Requests
    <3>1. CASE q = r
      BY <1>0, <1>2, <3>1 DEF WindowIsKept
    <3>2. CASE q # r
      BY <1>0, <1>2, <3>2 DEF WindowIsKept
    <3> QED
      BY <3>1, <3>2
  <2>8. \A q \in Requests : resent'[q] = resent[q] /\ resent'[q] \in Nat /\ resent'[q] >= resent[q]
    BY <1>0, <1>2 DEF EdgeTypeOK
  <2>3. NoBurst' /\ RetryAfterSuffices' /\ WindowIsKept' /\ RefusalsEnd'
    BY <1>2, <2>2, <2>8, LimiterRests
  <2>4. entered' = entered /\ entered' \in [Requests -> Never..MaxClock]
    BY <1>0, <1>2 DEF EdgeTypeOK, limiterVars
  <2>5. req[r].at = "new" => req[r].made = NoOne
    BY <1>0 DEF SessionsComeLast
  <2>6. \A q \in Requests :
           /\ req'[q].made = req[q].made /\ req'[q].touched = req[q].touched
           /\ req'[q].sid = req[q].sid \/ req[q].made = NoOne
           /\ req'[q].route = req[q].route \/ req[q].at = "new"
           /\ req'[q].at \in {"new", "limiter", "session", "fresh"} =>
                req[q].at \in {"new", "limiter", "session", "fresh"}
           /\ req'[q].at \in {"new", "limiter", "session"} =>
                req[q].at \in {"new", "limiter", "session"}
           /\ req'[q].at = "session" /\ Create(q)' => entered'[q] # Never
           /\ req'[q].at = "fresh" => Create(q)' /\ entered'[q] # Never
           /\ entered[q] # Never => entered'[q] # Never
    <3> TAKE q \in Requests
    <3>1. CASE q = r
      BY <1>2, <2>4, <2>5, <3>1 DEF Create
    <3>2. CASE q # r
      BY <1>0, <1>2, <2>4, <3>2 DEF SessionsComeLast, Create
    <3> QED
      BY <3>1, <3>2
  <2>7. SessionsAreEarned' /\ SessionsComeLast'
    BY <1>2, <2>4, <2>6, <2>8, SessionsRest
  <2> QED
    BY <2>1, <2>3, <2>7 DEF EdgeInv
<1>3. ASSUME NEW r \in Requests, NEW c \in Clients, NEW route \in Routes, NEW cookie \in Sids \cup {None},
             Arrive(r, c, route, cookie)
      PROVE  EdgeInv'
  <2> DEFINE to == CASE route = "health" -> "handler"
                     [] ~api.state       -> IF route = "session" THEN "unavailable" ELSE "handler"
                     [] OTHER            -> IF route \in Limited THEN "limiter" ELSE "session"
  <2>1. /\ to \in {"handler", "unavailable", "limiter", "session"}
        /\ to = "session" => route # "session"
    BY DEF Limited
  <2>2. /\ req[r].at = "new" /\ UNCHANGED <<api, clock, limiterVars, session, resent>>
        /\ req' = [req EXCEPT ![r].of = c, ![r].route = route, ![r].sid = cookie, ![r].at = to]
    BY <1>3 DEF Arrive
  <2> HIDE DEF to
  <2>3. /\ req' \in [Requests -> [at : Stages, of : Clients \cup {None}, route : Routes \cup {None},
                sid : Sids \cup {None}, touched : Never..MaxClock, made : Requests \cup {NoOne}]]
        /\ \A q \in Requests : q # r => req'[q] = req[q]
        /\ req'[r].made = req[r].made /\ req'[r].touched = req[r].touched
        /\ req'[r].of = c /\ req'[r].route = route /\ req'[r].at = to
    BY <1>0, <2>1, <2>2 DEF EdgeTypeOK, Stages
  <2> QED
    BY <1>2, <2>1, <2>2, <2>3
<1>4. ASSUME NEW r \in Requests, Consume(r) PROVE EdgeInv'
  <2>1. /\ req[r].at = "limiter" /\ UNCHANGED <<api, clock, session, resent>>
        /\ req[r].of \in Clients /\ resent \in [Requests -> 0..MaxResends]
        /\ \A q \in Requests : resent'[q] = resent[q] /\ resent'[q] \in Nat /\ resent'[q] >= resent[q]
    <3>1. resent \in [Requests -> 0..MaxResends] /\ MaxResends \in Nat
      BY <1>0, EdgeAssumption DEF EdgeTypeOK
    <3> QED
      BY <1>0, <1>4, <3>1 DEF Consume, WindowIsKept
  <2>2. ASSUME NEW to \in {"session", "unavailable", "tooMany"}, req' = [req EXCEPT ![r].at = to],
               NoBurst' /\ RetryAfterSuffices' /\ WindowIsKept' /\ RefusalsEnd',
               refusals' \subseteq [of : Clients, until : Nat, seen : SUBSET Requests],
               entries' \in [Clients -> SUBSET Requests],
               entered' \in [Requests -> Never..MaxClock],
               \A q \in Requests : entered[q] # Never => entered'[q] # Never,
               to = "session" => entered'[r] # Never
        PROVE  EdgeInv'
    <3>1. req' \in [Requests -> [at : Stages, of : Clients \cup {None}, route : Routes \cup {None},
                sid : Sids \cup {None}, touched : Never..MaxClock, made : Requests \cup {NoOne}]]
      <4>1. to \in Stages
        BY DEF Stages
      <4>2. req' = [req EXCEPT ![r].at = to]
        BY <2>2
      <4> HIDE DEF Stages
      <4> QED
        BY <1>0, <4>1, <4>2 DEF EdgeTypeOK
    <3>2. EdgeTypeOK'
      BY <1>0, <2>1, <2>2, <3>1 DEF EdgeTypeOK
    <3>3. \A q \in Requests :
           /\ req'[q].made = req[q].made /\ req'[q].touched = req[q].touched
           /\ req'[q].sid = req[q].sid /\ req'[q].route = req[q].route
           /\ req'[q].at = IF q = r THEN to ELSE req[q].at
      BY <1>0, <2>2 DEF EdgeTypeOK
    <3>4. \A q \in Requests :
           /\ req'[q].at \in {"new", "limiter", "session", "fresh"} =>
                req[q].at \in {"new", "limiter", "session", "fresh"}
           /\ req'[q].at \in {"new", "limiter", "session"} =>
                req[q].at \in {"new", "limiter", "session"}
           /\ req'[q].at = "session" /\ Create(q)' => entered'[q] # Never
           /\ req'[q].at = "fresh" => Create(q)' /\ entered'[q] # Never
      BY <1>0, <2>1, <2>2, <3>3 DEF SessionsComeLast, Create
    <3>5. SessionsAreEarned' /\ SessionsComeLast'
      BY <2>1, <2>2, <3>3, <3>4, SessionsRest
    <3> QED
      BY <2>2, <3>2, <3>5 DEF EdgeInv
  <2>3. ASSUME NEW to \in {"session", "unavailable"}, Admit(r), Moves(r, "limiter", to) PROVE EdgeInv'
    <3>1. /\ entries' = [entries EXCEPT ![req[r].of] = Current(req[r].of) \cup {r}]
          /\ entered' = [entered EXCEPT ![r] = clock] /\ UNCHANGED refusals
          /\ req' = [req EXCEPT ![r].at = to]
      BY <2>3 DEF Admit, Client, Moves
    <3>5. /\ \A q \in Requests : req'[q].of = req[q].of /\ (q # r => req'[q].at = req[q].at)
          /\ req'[r].at = to
      BY <1>0, <3>1 DEF EdgeTypeOK
    <3>2. NoBurst' /\ RetryAfterSuffices' /\ WindowIsKept' /\ RefusalsEnd'
      BY <2>1, <2>3, <3>5, AdmitKeeps
    <3>3. clock \in Never..MaxClock /\ clock # Never /\ Current(req[r].of) \subseteq Requests
      BY <1>0, <2>1 DEF EdgeTypeOK, Current, Never
    <3>4. /\ entered' \in [Requests -> Never..MaxClock] /\ entered'[r] # Never
          /\ \A q \in Requests : entered[q] # Never => entered'[q] # Never
          /\ entries' \in [Clients -> SUBSET Requests]
          /\ refusals' \subseteq [of : Clients, until : Nat, seen : SUBSET Requests]
      BY <1>0, <3>1, <3>3 DEF EdgeTypeOK
    <3> QED
      BY <2>2, <3>1, <3>2, <3>4
  <2>4. ASSUME Refused(r), Moves(r, "limiter", "tooMany") PROVE EdgeInv'
    <3>1. req' = [req EXCEPT ![r].at = "tooMany"] /\ UNCHANGED entered
      BY <2>4 DEF Refused, Moves
    <3>2. /\ NoBurst' /\ RetryAfterSuffices' /\ WindowIsKept' /\ RefusalsEnd'
          /\ refusals' \subseteq [of : Clients, until : Nat, seen : SUBSET Requests]
          /\ entries' \in [Clients -> SUBSET Requests]
      BY <2>1, <2>4, <3>1, RefuseKeeps
    <3>3. entered' \in [Requests -> Never..MaxClock]
      BY <1>0, <3>1 DEF EdgeTypeOK
    <3> QED
      BY <2>2, <3>1, <3>2, <3>3
  <2>5. ASSUME UNCHANGED limiterVars, Moves(r, "limiter", "unavailable") PROVE EdgeInv'
    <3>1. /\ req' \in [Requests -> [at : Stages, of : Clients \cup {None}, route : Routes \cup {None},
                sid : Sids \cup {None}, touched : Never..MaxClock, made : Requests \cup {NoOne}]]
          /\ \A q \in Requests : q # r => req'[q] = req[q]
          /\ req'[r].made = req[r].made /\ req'[r].touched = req[r].touched
          /\ UNCHANGED <<req[r].of, req[r].sid, req[r].route>> /\ req'[r].at = "unavailable"
      BY <1>0, <2>5 DEF EdgeTypeOK, Stages, Moves
    <3> QED
      BY <1>2, <2>1, <2>5, <3>1
  <2> QED
    BY <1>4, <2>3, <2>4, <2>5 DEF Consume
<1>5. ASSUME NEW r \in Requests, Touch(r) PROVE EdgeInv'
  <2> DEFINE s == req[r].sid
  <2>1. s \in Sids /\ req[r].at = "session" /\ UNCHANGED <<api, clock, limiterVars, resent>>
    BY <1>0, <1>5 DEF Touch, Known, EdgeTypeOK
  <2>2. session' = [session EXCEPT ![s] = [expires |-> clock + Ttl, by |-> session[s].by]]
        /\ session[s].by \in Requests \cup {NoOne}
    BY <1>5, <2>1, ExtendsOnly DEF Touch
  <2>3. \/ req' = [req EXCEPT ![r].at = "handler", ![r].sid = s, ![r].touched = clock, ![r].made = session[s].by]
        \/ req' = [req EXCEPT ![r].at = "unavailable"]
    BY <1>5 DEF Touch, Holds, Moves
  <2> QED
    BY <2>1, <2>2, <2>3, SessionKeeps
<1>6. ASSUME NEW r \in Requests, NEW s \in Sids, Fresh(r, s) PROVE EdgeInv'
  BY <1>6, SessionKeeps DEF Fresh, Make, Holds, Moves
<1>7. ASSUME NEW r \in Requests, NoSession(r) \/ StoreFails(r) PROVE EdgeInv'
  <2>1. UNCHANGED <<api, clock, limiterVars, session, resent>> /\ req[r].at \in {"session", "fresh"}
    BY <1>7 DEF NoSession, StoreFails, Moves
  <2>2. PICK to \in {"fresh", "handler", "unavailable"} :
          /\ req' = [req EXCEPT ![r].at = to]
          /\ to = "fresh" => req[r].at = "session" /\ Create(r)
    BY <1>7 DEF NoSession, StoreFails, Moves
  <2>3. /\ req' \in [Requests -> [at : Stages, of : Clients \cup {None}, route : Routes \cup {None},
                sid : Sids \cup {None}, touched : Never..MaxClock, made : Requests \cup {NoOne}]]
        /\ \A q \in Requests : q # r => req'[q] = req[q]
        /\ req'[r].made = req[r].made /\ req'[r].touched = req[r].touched
        /\ UNCHANGED <<req[r].of, req[r].sid, req[r].route>> /\ req'[r].at = to
    BY <1>0, <2>2, ZenonT(40) DEF EdgeTypeOK, Stages
  <2>4. to = "fresh" => req'[r].route = "session" /\ entered[r] # Never
    BY <1>0, <2>2, <2>3 DEF SessionsComeLast, Create
  <2> QED
    BY <1>2, <2>1, <2>2, <2>3, <2>4
<1>8. ASSUME EdgeTick PROVE EdgeInv'
  <2>1. /\ clock' = clock + 1 /\ clock \in 0..MaxClock /\ clock' \in 0..MaxClock
        /\ UNCHANGED <<api, req, entries, entered, refusals, session, resent>>
    BY <1>0, <1>8 DEF EdgeTick, limiterVars, EdgeTypeOK
  <2>2. EdgeTypeOK'
    BY <1>0, <2>1 DEF EdgeTypeOK
  <2>3. NoBurst'
    BY <1>0, <2>1 DEF NoBurst
  <2>4. WindowIsKept'
    BY <1>0, <2>1 DEF WindowIsKept, EdgeTypeOK, Never
  <2>5. RefusalsEnd'
    BY <1>0, <2>1 DEF RefusalsEnd
  <2>6. RetryAfterSuffices'
    <3> SUFFICES ASSUME NEW f \in refusals, clock' >= f.until
                 PROVE  \E q \in f.seen : entered[q] + Window <= clock' \/ resent[q] > 0
      BY <2>1 DEF RetryAfterSuffices
    <3>1. PICK q \in f.seen : entered[q] # Never /\ (entered[q] + Window <= f.until \/ resent[q] > 0)
      BY <1>0 DEF RefusalsEnd
    <3>2. f.until \in Nat /\ q \in Requests /\ entered[q] \in Int
      BY <1>0 DEF EdgeTypeOK, Never
    <3> QED
      BY <1>0, <2>1, <3>1, <3>2
  <2>7. \A r \in Requests : req[r].touched \in Int
    BY <1>0 DEF EdgeTypeOK, Never
  <2>8. SessionsComeLast'
    BY <1>0, <2>1, <2>7 DEF SessionsComeLast, Create, MadeBy
  <2>9. SessionsAreEarned'
    <3>1. ASSUME NEW r \in Requests, req[r].made # NoOne, clock' < req[r].touched + Ttl
          PROVE  session[req[r].sid].by = req[r].made /\ session[req[r].sid].expires > clock'
      <4>1. session[req[r].sid].expires \in Int
        BY <1>0, <3>1 DEF SessionsComeLast, EdgeTypeOK
      <4> QED
        BY <1>0, <2>1, <2>7, <3>1, <4>1 DEF SessionsComeLast
    <3> QED
      BY <1>0, <2>1, <3>1 DEF SessionsAreEarned, Create, Live, MadeBy
  <2> QED
    BY <2>2, <2>3, <2>4, <2>5, <2>6, <2>8, <2>9 DEF EdgeInv
<1>9. ASSUME UNCHANGED edgeVars PROVE EdgeInv'
  <2>1. UNCHANGED <<api, clock, req, entries, entered, refusals, session, resent>>
    BY <1>9 DEF edgeVars, limiterVars
  <2>2. api' \in [is : {"starting", "up", "failed"}, state : BOOLEAN]
    BY <1>0, <2>1 DEF EdgeTypeOK
  <2> QED
    BY <2>1, <2>2, EdgeRests
<1>10. ASSUME NEW r \in Requests, SentAgain(r) PROVE EdgeInv'
  <2>1. /\ resent[r] < MaxResends /\ resent' = [resent EXCEPT ![r] = @ + 1]
        /\ UNCHANGED <<api, clock, req>>
        /\ resent \in [Requests -> 0..MaxResends] /\ MaxResends \in Nat
    BY <1>0, <1>10, EdgeAssumption DEF SentAgain, EdgeTypeOK
  <2>2. /\ resent' \in [Requests -> 0..MaxResends] /\ resent'[r] > 0
        /\ \A q \in Requests : /\ resent'[q] \in Nat /\ resent'[q] >= resent[q]
                               /\ q # r => resent'[q] = resent[q]
    BY <2>1
  <2>3. ASSUME req[r].at = "limiter", Admit(r), UNCHANGED session PROVE EdgeInv'
    <3>1. NoBurst' /\ RetryAfterSuffices' /\ WindowIsKept' /\ RefusalsEnd'
      BY <2>1, <2>2, <2>3, AdmitKeeps
    <3>2. clock \in Never..MaxClock /\ clock # Never /\ Current(req[r].of) \subseteq Requests
      <4>1. req[r].of \in Clients
        BY <1>0, <2>3 DEF WindowIsKept
      <4> QED
        BY <1>0, <4>1 DEF EdgeTypeOK, Current, Never
    <3>3. /\ entered' \in [Requests -> Never..MaxClock]
          /\ \A q \in Requests : entered[q] # Never => entered'[q] # Never
          /\ entries' \in [Clients -> SUBSET Requests] /\ UNCHANGED refusals
      BY <1>0, <2>3, <3>2 DEF Admit, Client, EdgeTypeOK
    <3>4. EdgeTypeOK'
      BY <1>0, <2>1, <2>2, <2>3, <3>3 DEF EdgeTypeOK
    <3>5. \A q \in Requests :
           /\ req[q].at = "session" /\ Create(q) => entered'[q] # Never
           /\ req[q].at = "fresh" => Create(q) /\ entered'[q] # Never
      BY <1>0, <3>3 DEF SessionsComeLast
    <3>6. \A q \in Requests : req'[q] = req[q] /\ (Create(q)' <=> Create(q))
      BY <2>1 DEF Create
    <3>7. SessionsAreEarned' /\ SessionsComeLast'
      BY <2>1, <2>2, <2>3, <3>3, <3>5, <3>6, SessionsRest
    <3> QED
      BY <3>1, <3>4, <3>7 DEF EdgeInv
  <2>4. ASSUME req[r].at = "session", Known(r), Extend(req[r].sid), UNCHANGED limiterVars PROVE EdgeInv'
    <3>1. req[r].sid \in Sids
      BY <1>0, <2>4 DEF Known, EdgeTypeOK
    <3>2. session' = [session EXCEPT ![req[r].sid] =
                        [expires |-> clock + Ttl, by |-> session[req[r].sid].by]]
          /\ session[req[r].sid].by \in Requests \cup {NoOne}
      BY <2>4, <3>1, ExtendsOnly
    <3> QED
      BY <2>1, <2>4, <3>1, <3>2, SessionKeeps
  <2>5. ASSUME req[r].at = "fresh", UNCHANGED limiterVars, NEW s \in Sids, ~Live(s), Make(r, s)
        PROVE  EdgeInv'
    BY <2>1, <2>5, SessionKeeps DEF Make
  <2> QED
    BY <1>10, <2>3, <2>4, <2>5 DEF SentAgain
<1> QED
  BY <1>1, <1>3, <1>4, <1>5, <1>6, <1>7, <1>8, <1>9, <1>10 DEF EdgeNext

(* In no window of time are more than the limit let in, Retry-After suffices   *)
(* unless a request in the way was sent again, and every anonymous session was  *)
(* made by an admitted request, which made one and one more for each resend at  *)
(* most, and lasts; whatever fails between.                                     *)
THEOREM EdgeIsSafe == EdgeSpec => []EdgeInv
<1>1. EdgeInit => EdgeInv
  <2> SUFFICES ASSUME EdgeInit PROVE EdgeInv
    OBVIOUS
  <2>1. EdgeTypeOK
    BY EdgeAssumption DEF EdgeInit, EdgeTypeOK, NewRequest, Stages, Never, NoOne
  <2>2. NoBurst
    <3>1. \A c \in Clients, t \in 0..MaxClock :
            {r \in Requests : /\ req[r].of = c /\ entered[r] # Never
                              /\ entered[r] > t - Window /\ entered[r] <= t} = {}
      BY DEF EdgeInit
    <3>2. Cardinality({}) <= Admissions
      BY FS_EmptySet, EdgeAssumption
    <3> QED
      BY <3>1, <3>2 DEF NoBurst
  <2>3. RetryAfterSuffices /\ RefusalsEnd
    BY DEF EdgeInit, RetryAfterSuffices, RefusalsEnd
  <2>4. WindowIsKept
    <3>1. {r \in Requests : entered[r] # Never} = {}
      BY DEF EdgeInit
    <3> QED
      BY <3>1, FS_EmptySet DEF EdgeInit, WindowIsKept, NewRequest, Never
  <2>5. SessionsComeLast /\ SessionsAreEarned
    <3>1. \A r \in Requests : MadeBy(r) = {}
      BY EdgeAssumption DEF EdgeInit, MadeBy, NoOne
    <3>2. Cardinality({}) = 0
      BY FS_EmptySet
    <3>3. /\ \A r \in Requests : req[r] = NewRequest /\ resent[r] = 0
          /\ \A t \in Sids : session[t].by = NoOne
          /\ clock = 0
      BY DEF EdgeInit
    <3>4. /\ NewRequest.at = "new" /\ NewRequest.made = NoOne /\ NewRequest.touched = -1
      BY DEF NewRequest, Never
    <3>5. SessionsComeLast
      BY <3>1, <3>2, <3>3, <3>4 DEF SessionsComeLast
    <3>6. SessionsAreEarned
      <4>1. \A r \in Requests : Cardinality(MadeBy(r)) <= 1 + resent[r]
        BY <3>1, <3>2, <3>3
      <4>2. \A r \in Requests : req[r].made = NoOne
        BY <3>3, <3>4
      <4> QED
        BY <3>3, <4>1, <4>2 DEF SessionsAreEarned
    <3> QED
      BY <3>5, <3>6
  <2> QED
    BY <2>1, <2>2, <2>3, <2>4, <2>5 DEF EdgeInv
<1> QED
  BY <1>1, EdgeStep, PTL DEF EdgeSpec

-----------------------------------------------------------------------------
(* The events of a log: their ids grow.                                       *)
Growing(events) ==
  /\ events \in Seq(Event)
  /\ \A i \in 1..Len(events) : \A j \in 1..(i - 1) : events[j].id < events[i].id

(* f is where the events after lastId begin. *)
Begins(f, events, lastId) ==
  /\ f \in 1..(Len(events) + 1)
  /\ \A i \in 1..(f - 1) : events[i].id <= lastId
  /\ \A i \in f..Len(events) : events[i].id > lastId

LEMMA BeginsSomewhere ==
  ASSUME NEW events, Growing(events), NEW lastId \in Nat
  PROVE  \E f \in 1..(Len(events) + 1) : Begins(f, events, lastId)
<1>1. Len(events) \in Nat /\ \A i \in 1..Len(events) : events[i] \in Event /\ events[i].id \in Nat
  <2>1. events \in Seq(Event)
    BY DEF Growing
  <2> HIDE DEF Event
  <2>2. Len(events) \in Nat /\ \A i \in 1..Len(events) : events[i] \in Event
    BY <2>1
  <2> QED
    BY <2>2 DEF Event
<1> DEFINE Later == {i \in 1..Len(events) : events[i].id > lastId} \cup {Len(events) + 1}
<1>2. Later \in SUBSET Nat /\ Later # {}
  BY <1>1
<1>3. PICK f \in Later : \A i \in Later : f <= i
  <2> HIDE DEF Later
  <2> QED
    BY <1>2, Least
<1>4. f \in 1..(Len(events) + 1) /\ \A i \in 1..(f - 1) : events[i].id <= lastId
  BY <1>1, <1>3
<1>5. ASSUME NEW i \in f..Len(events) PROVE events[i].id > lastId
  <2>1. CASE i = f
    BY <1>1, <1>3, <1>4, <1>5, <2>1
  <2>2. CASE i # f
    <3>1. f \in 1..(i - 1) /\ i \in 1..Len(events) /\ f \in 1..Len(events)
      BY <1>1, <1>4, <1>5, <2>2
    <3>2. events[f].id < events[i].id /\ events[f].id > lastId
      BY <1>1, <1>3, <3>1 DEF Growing
    <3> QED
      BY <1>1, <3>1, <3>2
  <2> QED
    BY <2>1, <2>2
<1> QED
  BY <1>4, <1>5 DEF Begins

(* The loop of replay() leaves the end of the list. *)
LEMMA AfterIsTheEnd ==
  ASSUME NEW events, Growing(events), NEW lastId \in Nat, NEW f \in Nat, Begins(f, events, lastId)
  PROVE  After(events, lastId) = SubSeq(events, f, Len(events))
<1> DEFINE N == Len(events)
           Loop(g) == g = [n \in 0..Len(events) |->
                            IF n = 0 THEN <<>>
                            ELSE IF events[n].id > lastId THEN Append(g[n - 1], events[n]) ELSE g[n - 1]]
           End == [n \in 0..N |-> SubSeq(events, f, n)]
<1>1. N \in Nat /\ \A i \in 1..N : events[i] \in Event /\ events[i].id \in Nat
  <2>1. events \in Seq(Event)
    BY DEF Growing
  <2> HIDE DEF Event
  <2>2. N \in Nat /\ \A i \in 1..N : events[i] \in Event
    BY <2>1
  <2> QED
    BY <2>2 DEF Event
<1>2. f \in 1..(N + 1) /\ (\A i \in 1..(f - 1) : events[i].id <= lastId) /\ \A i \in f..N : events[i].id > lastId
  BY DEF Begins
<1>3. SubSeq(events, f, 0) = <<>>
  BY <1>1, <1>2
<1>4. ASSUME NEW n \in 1..N, n < f PROVE SubSeq(events, f, n) = SubSeq(events, f, n - 1)
  BY <1>1, <1>2, <1>4
<1>5. ASSUME NEW n \in 1..N, n >= f PROVE SubSeq(events, f, n) = Append(SubSeq(events, f, n - 1), events[n])
  BY <1>1, <1>2, <1>5 DEF Growing
<1>6. After(events, lastId) = (CHOOSE g : Loop(g))[N]
  BY DEF After
<1>7. Loop(End)
  <2>1. \A n \in 0..N : End[n] = IF n = 0 THEN <<>>
                               ELSE IF events[n].id > lastId THEN Append(End[n - 1], events[n]) ELSE End[n - 1]
    <3> TAKE n \in 0..N
    <3>1. CASE n = 0
      BY <1>3, <3>1
    <3>2. CASE n # 0 /\ n < f
      <4>1. n \in 1..N /\ n - 1 \in 0..N /\ ~(events[n].id > lastId)
        BY <1>1, <1>2, <3>2
      <4> QED
        BY <1>4, <3>2, <4>1
    <3>3. CASE n # 0 /\ n >= f
      <4>1. n \in 1..N /\ n - 1 \in 0..N /\ events[n].id > lastId
        BY <1>1, <1>2, <3>3
      <4>2. SubSeq(events, f, n) = Append(SubSeq(events, f, n - 1), events[n])
        BY <1>5, <3>3, <4>1
      <4>3. End[n] = SubSeq(events, f, n) /\ End[n - 1] = SubSeq(events, f, n - 1)
        BY <4>1
      <4> HIDE DEF End
      <4>4. End[n] = Append(End[n - 1], events[n])
        BY <4>2, <4>3, Zenon
      <4>5. n # 0
        BY <3>3
      <4> QED
        BY <4>1, <4>4, <4>5
    <3>4. n = 0 \/ (n # 0 /\ n < f) \/ (n # 0 /\ n >= f)
      BY <1>2
    <3> QED
      BY <3>1, <3>2, <3>3, <3>4, Zenon
  <2> QED
    BY <2>1
<1>8. ASSUME NEW g, Loop(g) PROVE g[N] = SubSeq(events, f, N)
  <2> DEFINE Wrong == {n \in 0..N : g[n] # SubSeq(events, f, n)}
  <2>1. \A n \in 0..N : g[n] = IF n = 0 THEN <<>>
                              ELSE IF events[n].id > lastId THEN Append(g[n - 1], events[n]) ELSE g[n - 1]
    BY <1>8
  <2>2. ASSUME Wrong # {} PROVE FALSE
    <3>1. Wrong \in SUBSET Nat
      BY <1>1
    <3>2. PICK n \in Wrong : \A m \in Wrong : n <= m
      <4> HIDE DEF Wrong
      <4> QED
        BY <2>2, <3>1, Least
    <3>3. n # 0
      BY <1>3, <2>1, <3>2
    <3>4. n \in 1..N /\ n - 1 \in 0..N /\ n - 1 \notin Wrong
      BY <1>1, <3>2, <3>3
    <3>5. g[n - 1] = SubSeq(events, f, n - 1)
      BY <3>4
    <3>6. CASE n < f
      BY <1>1, <1>2, <1>4, <2>1, <3>2, <3>4, <3>5, <3>6
    <3>7. CASE n >= f
      <4>1. events[n].id > lastId /\ n \in 0..N
        BY <1>1, <1>2, <3>4, <3>7
      <4>2. g[n] = Append(g[n - 1], events[n])
        BY <2>1, <3>3, <4>1, Zenon
      <4>3. SubSeq(events, f, n) = Append(SubSeq(events, f, n - 1), events[n])
        BY <1>5, <3>4, <3>7, Zenon
      <4>4. g[n] = SubSeq(events, f, n)
        BY <3>5, <4>2, <4>3, Zenon
      <4> QED
        BY <3>2, <4>4
    <3> QED
      BY <1>2, <3>4, <3>6, <3>7
  <2> QED
    BY <1>1, <2>2
<1> HIDE DEF Loop
<1>9. Loop(CHOOSE g : Loop(g))
  BY <1>7
<1> QED
  BY <1>6, <1>8, <1>9

(* Positions of the ring. *)
LEMMA Wrapped ==
  ASSUME NEW x \in Nat, x < 2 * capacity
  PROVE  x % capacity = IF x < capacity THEN x ELSE x - capacity
<1>1. capacity \in Nat /\ capacity > 0
  BY CapacityAssumption
<1> DEFINE q == x \div capacity
           r == x % capacity
<1>2. x = capacity * q + r /\ q \in Int /\ r \in Nat /\ r < capacity
  BY <1>1
<1> HIDE DEF q, r
<1>3. q = 0 \/ q = 1
  <2>1. q >= 0
    <3> SUFFICES ASSUME q <= -1 PROVE FALSE
      BY <1>2
    <3>1. capacity * q <= capacity * (-1)
      BY <1>1, <1>2
    <3> QED
      BY <1>1, <1>2, <3>1
  <2>2. q < 2
    <3> SUFFICES ASSUME q >= 2 PROVE FALSE
      BY <1>2
    <3>1. capacity * q >= capacity * 2
      BY <1>1, <1>2
    <3> QED
      BY <1>1, <1>2, <3>1
  <2> QED
    BY <1>2, <2>1, <2>2
<1> QED
  BY <1>1, <1>2, <1>3 DEF r

LEMMA EventsOf ==
  ASSUME NEW events, Growing(events)
  PROVE  Len(events) \in Nat /\ \A i \in 1..Len(events) : events[i] \in Event /\ events[i].id \in Nat
<1>1. events \in Seq(Event)
  BY DEF Growing
<1> HIDE DEF Event
<1>2. Len(events) \in Nat /\ \A i \in 1..Len(events) : events[i] \in Event
  BY <1>1
<1> QED
  BY <1>2 DEF Event

(* A published event is behind every cursor of before. *)
LEMMA AfterGrows ==
  ASSUME NEW events, NEW e \in Event, Growing(events), Growing(Append(events, e)),
         NEW lastId \in Nat, e.id > lastId
  PROVE  After(Append(events, e), lastId) = Append(After(events, lastId), e)
<1>1. PICK f \in 1..(Len(events) + 1) : Begins(f, events, lastId)
  BY BeginsSomewhere
<1>2. events \in Seq(Event) /\ Len(events) \in Nat /\ f \in Nat
  BY EventsOf DEF Growing
<1> DEFINE more == Append(events, e)
<1> HIDE DEF Event
<1>3. /\ more \in Seq(Event) /\ Len(more) = Len(events) + 1
      /\ \A i \in 1..Len(events) : more[i] = events[i]
      /\ more[Len(events) + 1] = e
  BY <1>2
<1> HIDE DEF more
<1>4. Begins(f, more, lastId)
  BY <1>1, <1>2, <1>3 DEF Begins
<1>5. After(events, lastId) = SubSeq(events, f, Len(events))
  BY <1>1, <1>2, AfterIsTheEnd
<1>6. After(more, lastId) = SubSeq(more, f, Len(more))
  BY <1>2, <1>4, AfterIsTheEnd DEF more
<1>7. SubSeq(more, f, Len(events) + 1) = Append(SubSeq(events, f, Len(events)), e)
  BY <1>1, <1>2, <1>3, SMTT(30)
<1> QED
  BY <1>3, <1>5, <1>6, <1>7, Zenon DEF more

LEMMA NothingAfterTheLast ==
  ASSUME NEW events, Growing(events), NEW lastId \in Nat,
         \A i \in 1..Len(events) : events[i].id <= lastId
  PROVE  After(events, lastId) = <<>>
<1>1. Len(events) \in Nat
  BY EventsOf
<1>2. Begins(Len(events) + 1, events, lastId)
  BY <1>1 DEF Begins
<1>3. After(events, lastId) = SubSeq(events, Len(events) + 1, Len(events))
  BY <1>1, <1>2, AfterIsTheEnd
<1> QED
  BY <1>1, <1>3

(* Whoever has seen the first of the later events has the rest before it. *)
LEMMA AfterTheNext ==
  ASSUME NEW events, Growing(events), NEW lastId \in Nat, After(events, lastId) # <<>>
  PROVE  /\ \E i \in 1..Len(events) : Head(After(events, lastId)) = events[i]
         /\ After(events, Head(After(events, lastId)).id) = Tail(After(events, lastId))
<1>1. PICK f \in 1..(Len(events) + 1) : Begins(f, events, lastId)
  BY BeginsSomewhere
<1>2. /\ events \in Seq(Event) /\ Len(events) \in Nat /\ f \in Nat
      /\ \A i \in 1..Len(events) : events[i] \in Event /\ events[i].id \in Nat
  BY EventsOf DEF Growing
<1>3. After(events, lastId) = SubSeq(events, f, Len(events))
  BY <1>1, <1>2, AfterIsTheEnd
<1> HIDE DEF Event
<1>4. f \in 1..Len(events)
  <2> SUFFICES ASSUME f > Len(events) PROVE FALSE
    BY <1>1, <1>2
  <2> QED
    BY <1>2, <1>3, SubSeqEmpty
<1>5. /\ Head(After(events, lastId)) = events[f]
      /\ Tail(After(events, lastId)) = SubSeq(events, f + 1, Len(events))
  <2>1. Len(events) \in f..Len(events)
    BY <1>2, <1>4
  <2> QED
    BY <1>2, <1>3, <1>4, <2>1, HeadTailOfSubSeq
<1>6. Begins(f + 1, events, events[f].id)
  <2>1. \A i \in 1..f : events[i].id <= events[f].id
    BY <1>2, <1>4 DEF Growing
  <2>2. \A i \in (f + 1)..Len(events) : events[i].id > events[f].id
    BY <1>2, <1>4 DEF Growing
  <2> QED
    BY <1>2, <1>4, <2>1, <2>2 DEF Begins
<1>7. After(events, events[f].id) = SubSeq(events, f + 1, Len(events))
  BY <1>2, <1>4, <1>6, AfterIsTheEnd
<1> QED
  BY <1>4, <1>5, <1>7, Zenon

(* The ring holds the latest events of a log. *)
RingHolds(ring, events) ==
  LET n == Len(events) IN
  /\ ring.size = IF n < capacity THEN n ELSE capacity
  /\ ring.evictedThrough = IF n <= capacity THEN 0 ELSE events[n - capacity].id
  /\ \A k \in 1..ring.size : ring.events[(ring.start + k - 1) % capacity] = events[n - ring.size + k]

LEMMA RingReplays ==
  ASSUME NEW ring \in Ring, NEW events, Growing(events), RingHolds(ring, events), NEW lastId \in Nat
  PROVE  /\ Len(After(events, lastId)) > capacity <=> lastId < ring.evictedThrough
         /\ ~(lastId < ring.evictedThrough) => After(KeptEvents(ring), lastId) = After(events, lastId)
<1> DEFINE n == Len(events)
           size == ring.size
<1>1. PICK f \in 1..(n + 1) : Begins(f, events, lastId)
  BY BeginsSomewhere
<1>2. /\ events \in Seq(Event) /\ n \in Nat /\ f \in Nat /\ capacity \in Nat \ {0}
      /\ \A i \in 1..n : events[i] \in Event /\ events[i].id \in Nat
  BY EventsOf, CapacityAssumption DEF Growing
<1>3. After(events, lastId) = SubSeq(events, f, n)
  BY <1>1, <1>2, AfterIsTheEnd
<1> HIDE DEF Event
<1>4. Len(After(events, lastId)) = n - f + 1
  BY <1>2, <1>3
<1>5. /\ size = IF n < capacity THEN n ELSE capacity
      /\ ring.evictedThrough = IF n <= capacity THEN 0 ELSE events[n - capacity].id
      /\ \A k \in 1..size : ring.events[(ring.start + k - 1) % capacity] = events[n - size + k]
  BY DEF RingHolds
<1> HIDE DEF n, size
<1>6. Len(After(events, lastId)) > capacity <=> lastId < ring.evictedThrough
  <2>1. CASE n <= capacity
    BY <1>2, <1>4, <1>5, <2>1
  <2>2. CASE n > capacity
    <3>1. n - capacity \in 1..n
      BY <1>2, <2>2
    <3>2. n - f + 1 > capacity <=> f <= n - capacity
      BY <1>2
    <3>3. f <= n - capacity <=> events[n - capacity].id > lastId
      BY <1>1, <1>2, <3>1 DEF Begins, n
    <3> QED
      BY <1>2, <1>4, <1>5, <2>2, <3>1, <3>2, <3>3
  <2> QED
    BY <1>2, <2>1, <2>2
<1>7. ASSUME ~(lastId < ring.evictedThrough)
      PROVE  After(KeptEvents(ring), lastId) = After(events, lastId)
  <2> DEFINE kept == KeptEvents(ring)
             d == n - size
  <2>1. size \in Nat /\ d \in Nat /\ size = n - d /\ d = IF n < capacity THEN 0 ELSE n - capacity
    BY <1>2, <1>5
  <2>2. kept = [k \in 1..size |-> events[d + k]]
    BY <1>5 DEF KeptEvents, size
  <2> HIDE DEF d, kept
  <2>3. \A k \in 1..size : d + k \in 1..n /\ events[d + k] \in Event
    BY <1>2, <2>1
  <2>4. kept \in Seq(Event) /\ Len(kept) = size /\ \A k \in 1..size : kept[k] = events[d + k]
    BY <2>1, <2>2, <2>3
  <2>5. Growing(kept)
    <3>1. ASSUME NEW i \in 1..size, NEW j \in 1..(i - 1) PROVE kept[j].id < kept[i].id
      <4>1. j \in 1..size /\ d + j \in 1..(d + i - 1) /\ d + i \in 1..n
        BY <2>1, <2>3
      <4> DEFINE p == d + i
                 q == d + j
      <4>2. p \in 1..n /\ q \in 1..(p - 1)
        BY <2>1, <4>1
      <4> HIDE DEF p, q
      <4>3. events[q].id < events[p].id
        BY <4>2 DEF Growing, n
      <4> QED
        BY <2>4, <4>1, <4>3 DEF p, q
    <3> QED
      BY <2>4, <3>1 DEF Growing
  <2>6. f > d
    <3>1. CASE d = 0
      BY <1>2, <3>1
    <3>2. CASE d # 0
      <4>1. d \in 1..n /\ ring.evictedThrough = events[d].id /\ n > capacity
        BY <1>2, <1>5, <2>1, <3>2
      <4> QED
        BY <1>1, <1>2, <1>7, <4>1 DEF Begins, n
    <3> QED
      BY <3>1, <3>2
  <2>7. f - d \in Nat /\ Begins(f - d, kept, lastId)
    <3>1. f - d \in 1..(size + 1)
      BY <1>2, <2>1, <2>6
    <3>2. ASSUME NEW i \in 1..(f - d - 1) PROVE kept[i].id <= lastId
      <4>1. i \in 1..size /\ d + i \in 1..(f - 1)
        BY <1>2, <2>1, <2>6
      <4> QED
        BY <1>1, <2>4, <4>1 DEF Begins
    <3>3. ASSUME NEW i \in (f - d)..size PROVE kept[i].id > lastId
      <4>1. i \in 1..size /\ d + i \in f..n
        BY <1>2, <2>1, <2>6
      <4> QED
        BY <1>1, <2>4, <4>1 DEF Begins, n
    <3> QED
      BY <2>4, <3>1, <3>2, <3>3 DEF Begins
  <2>8. After(kept, lastId) = SubSeq(kept, f - d, size)
    BY <2>4, <2>5, <2>7, AfterIsTheEnd
  <2>9. SubSeq(kept, f - d, size) = SubSeq(events, f, n)
    <3> DEFINE g == f - d
               a == SubSeq(kept, g, size)
               b == SubSeq(events, f, n)
    <3>0. g \in Nat /\ g >= 1 /\ f = d + g /\ n = d + size /\ g <= size + 1
      BY <1>2, <2>1, <2>6
    <3> HIDE DEF g
    <3>1. /\ \A i \in g..size : i \in 1..size /\ kept[i] \in Event
          /\ \A i \in f..n : events[i] \in Event
      BY <1>2, <2>1, <2>3, <2>4, <3>0
    <3>2. a \in Seq(Event) /\ Len(a) = (IF g <= size THEN size - g + 1 ELSE 0)
          /\ \A i \in 1..(size - g + 1) : a[i] = kept[g + i - 1]
      BY <2>1, <3>0, <3>1, SubSeqProperties
    <3>4. b \in Seq(Event) /\ Len(b) = (IF f <= n THEN n - f + 1 ELSE 0)
          /\ \A i \in 1..(n - f + 1) : b[i] = events[f + i - 1]
      BY <1>2, <3>1, SubSeqProperties
    <3> HIDE DEF a, b
    <3>5. Len(a) = size - g + 1 /\ Len(b) = size - g + 1 /\ size - g + 1 = n - f + 1
      <4>1. g <= size \/ g = size + 1
        BY <2>1, <3>0
      <4>2. CASE g <= size
        BY <1>2, <2>1, <3>0, <3>2, <3>4, <4>2
      <4>3. CASE g = size + 1
        BY <1>2, <2>1, <3>0, <3>2, <3>4, <4>3
      <4> QED
        BY <4>1, <4>2, <4>3
    <3>6. ASSUME NEW i \in 1..Len(a) PROVE a[i] = b[i]
      <4>1. /\ g + i - 1 \in 1..size /\ i \in 1..(size - g + 1) /\ i \in 1..(n - f + 1)
            /\ d + (g + i - 1) = f + i - 1
        <5>1. i \in 1..(size - g + 1)
          BY <3>5
        <5> QED
          BY <1>2, <2>1, <3>0, <5>1
      <4>2. a[i] = kept[g + i - 1] /\ b[i] = events[f + i - 1]
        BY <3>2, <3>4, <4>1
      <4> QED
        BY <2>4, <4>1, <4>2
    <3>7. a = b
      BY <3>2, <3>4, <3>5, <3>6, SeqEqual
    <3> QED
      BY <3>7 DEF a, b, g
  <2> QED
    BY <1>3, <2>8, <2>9, Zenon DEF kept, n
<1> QED
  BY <1>6, <1>7

(* The cells of a ring from its first one on: all different, then again. *)
Cell(start, k) == (start + k) % capacity

LEMMA Cells ==
  ASSUME NEW start \in 0..(capacity - 1)
  PROVE  /\ \A k \in 0..(capacity - 1) : Cell(start, k) \in 0..(capacity - 1)
         /\ \A j, k \in 0..(capacity - 1) : Cell(start, j) = Cell(start, k) => j = k
         /\ Cell(start, 0) = start
         /\ Cell(start, 1) \in 0..(capacity - 1)
         /\ \A k \in 0..(capacity - 2) : Cell(Cell(start, 1), k) = Cell(start, k + 1)
         /\ Cell(Cell(start, 1), capacity - 1) = start
<1>1. capacity \in Nat /\ capacity > 0 /\ start \in Nat /\ start < capacity
  BY CapacityAssumption
<1>2. ASSUME NEW a \in 0..(capacity - 1), NEW k \in 0..capacity
      PROVE  Cell(a, k) = IF a + k < capacity THEN a + k ELSE a + k - capacity
  <2> DEFINE x == a + k
  <2>1. x \in Nat /\ x < 2 * capacity
    BY <1>1
  <2> HIDE DEF x
  <2>2. x % capacity = IF x < capacity THEN x ELSE x - capacity
    BY <2>1, Wrapped
  <2> QED
    <3>1. Cell(a, k) = x % capacity
      BY DEF x, Cell
    <3>2. Cell(a, k) = IF x < capacity THEN x ELSE x - capacity
      BY <2>2, <3>1, Zenon
    <3> QED
      BY <1>1, <3>2 DEF x
<1>3. \A k \in 0..capacity : Cell(start, k) = IF start + k < capacity THEN start + k ELSE start + k - capacity
  BY <1>2
<1>4. \A k \in 0..(capacity - 1) : Cell(start, k) \in 0..(capacity - 1)
  BY <1>1, <1>3
<1>5. ASSUME NEW j \in 0..(capacity - 1), NEW k \in 0..(capacity - 1), Cell(start, j) = Cell(start, k)
      PROVE  j = k
  BY <1>1, <1>3, <1>5
<1>6. Cell(start, 0) = start
  BY <1>1, <1>3
<1> DEFINE next == Cell(start, 1)
<1>7. next \in 0..(capacity - 1) /\ next = IF start + 1 < capacity THEN start + 1 ELSE start + 1 - capacity
  BY <1>1, <1>3
<1> HIDE DEF next
<1>8. \A k \in 0..capacity : Cell(next, k) = IF next + k < capacity THEN next + k ELSE next + k - capacity
  BY <1>2, <1>7
<1>9. ASSUME NEW k \in 0..(capacity - 2) PROVE Cell(next, k) = Cell(start, k + 1)
  <2> DEFINE h == k + 1
  <2>1. h \in 0..capacity /\ k \in 0..capacity /\ k = h - 1
    BY <1>1
  <2> HIDE DEF h
  <2>2. Cell(start, h) = IF start + h < capacity THEN start + h ELSE start + h - capacity
    BY <1>3, <2>1
  <2>3. Cell(next, k) = IF next + k < capacity THEN next + k ELSE next + k - capacity
    BY <1>8, <2>1
  <2>4. Cell(next, k) = Cell(start, h)
    BY <1>1, <1>7, <2>1, <2>2, <2>3
  <2> QED
    BY <2>4 DEF h
<1>10. Cell(next, capacity - 1) = start
  <2> DEFINE h == capacity - 1
  <2>1. h \in 0..capacity /\ h = capacity - 1
    BY <1>1
  <2> HIDE DEF h
  <2>2. Cell(next, h) = IF next + h < capacity THEN next + h ELSE next + h - capacity
    BY <1>8, <2>1
  <2>3. Cell(next, h) = start
    BY <1>1, <1>7, <2>1, <2>2
  <2> QED
    BY <2>3 DEF h
<1> QED
  BY <1>4, <1>5, <1>6, <1>7, <1>9, <1>10 DEF next

(* publish() puts an event behind the latest, or over the oldest. *)
LEMMA RingKeepsOn ==
  ASSUME NEW ring \in Ring, NEW events, Growing(events), RingHolds(ring, events), NEW e \in Event
  PROVE  AddToRing(ring, e) \in Ring /\ RingHolds(AddToRing(ring, e), Append(events, e))
<1> DEFINE n == Len(events)
           more == Append(events, e)
           start == ring.start
           size == ring.size
           cells == ring.events
           evicted == ring.evictedThrough
           after == AddToRing(ring, e)
<1>1. /\ n \in Nat /\ capacity \in Nat /\ capacity > 0 /\ events \in Seq(Event)
      /\ \A i \in 1..n : events[i] \in Event /\ events[i].id \in Nat
  BY EventsOf, CapacityAssumption DEF Growing
<1>2. /\ cells \in [0..(capacity - 1) -> Event \cup {NoEvent}] /\ start \in 0..(capacity - 1)
      /\ size \in 0..capacity /\ evicted \in Nat
      /\ ring = [events |-> cells, start |-> start, size |-> size, evictedThrough |-> evicted]
  BY DEF Ring
<1> HIDE DEF Event
<1>3. /\ more \in Seq(Event) /\ Len(more) = n + 1 /\ more[n + 1] = e
      /\ \A i \in 1..n : more[i] = events[i]
  BY <1>1
<1>4. /\ size = IF n < capacity THEN n ELSE capacity
      /\ evicted = IF n <= capacity THEN 0 ELSE events[n - capacity].id
      /\ \A k \in 1..size : cells[(start + k - 1) % capacity] = events[n - size + k]
  BY DEF RingHolds
<1>5. \A k \in 0..(size - 1) : cells[Cell(start, k)] = events[n - size + k + 1]
  <2> TAKE k \in 0..(size - 1)
  <2>1. k + 1 \in 1..size /\ start + (k + 1) - 1 = start + k /\ n - size + (k + 1) = n - size + k + 1
    BY <1>1, <1>2, SMTT(30)
  <2>2. cells[(start + (k + 1) - 1) % capacity] = events[n - size + (k + 1)]
    BY <1>4, <2>1
  <2> QED
    BY <2>1, <2>2 DEF Cell
<1>6. ASSUME NEW r \in Ring, NEW m \in Nat, m = Len(more),
             r.size = (IF m < capacity THEN m ELSE capacity),
             r.evictedThrough = (IF m <= capacity THEN 0 ELSE more[m - capacity].id),
             \A k \in 0..(r.size - 1) : r.events[Cell(r.start, k)] = more[m - r.size + k + 1]
      PROVE  RingHolds(r, more)
  <2>1. r.size \in Nat /\ r.start \in 0..(capacity - 1)
    BY <1>1 DEF Ring
  <2>2. ASSUME NEW k \in 1..r.size
        PROVE  r.events[(r.start + k - 1) % capacity] = more[m - r.size + k]
    <3>1. k - 1 \in 0..(r.size - 1) /\ r.start + (k - 1) = r.start + k - 1
          /\ m - r.size + (k - 1) + 1 = m - r.size + k
      BY <1>6, <2>1
    <3>2. r.events[Cell(r.start, k - 1)] = more[m - r.size + (k - 1) + 1]
      BY <1>6, <3>1
    <3> QED
      BY <3>1, <3>2 DEF Cell
  <2> HIDE DEF more, n
  <2> QED
    BY <1>6, <2>2 DEF RingHolds
<1>7. /\ \A k \in 0..(capacity - 1) : Cell(start, k) \in 0..(capacity - 1)
      /\ \A j, k \in 0..(capacity - 1) : Cell(start, j) = Cell(start, k) => j = k
      /\ Cell(start, 0) = start
      /\ Cell(start, 1) \in 0..(capacity - 1)
      /\ \A k \in 0..(capacity - 2) : Cell(Cell(start, 1), k) = Cell(start, k + 1)
      /\ Cell(Cell(start, 1), capacity - 1) = start
  BY <1>2, Cells
<1> HIDE DEF n, more, start, size, cells, evicted
<1>8. CASE size = capacity
  <2> DEFINE next == Cell(start, 1)
             filled == [cells EXCEPT ![start] = e]
             oldest == cells[start].id
  <2>1. n >= capacity
    BY <1>1, <1>4, <1>8
  <2>2. cells[start] = events[n - capacity + 1] /\ n - capacity + 1 \in 1..n
    <3>1. 0 \in 0..(size - 1) /\ n - size + 0 + 1 = n - capacity + 1
      BY <1>1, <1>8
    <3>2. cells[Cell(start, 0)] = events[n - size + 0 + 1]
      BY <1>5, <3>1
    <3> QED
      BY <1>1, <1>7, <2>1, <3>1, <3>2
  <2>3. oldest \in Nat /\ oldest = events[n - capacity + 1].id
    BY <1>1, <2>2
  <2>4. filled \in [0..(capacity - 1) -> Event \cup {NoEvent}] /\ filled[start] = e
        /\ \A i \in 0..(capacity - 1) : i # start => filled[i] = cells[i]
    BY <1>2
  <2>5. after = [events |-> filled, start |-> next, size |-> size, evictedThrough |-> oldest]
    <3>1. after = [ring EXCEPT !.evictedThrough = oldest, !.events[start] = e, !.start = next]
      BY <1>8 DEF AddToRing, size, cells, start, Cell
    <3> HIDE DEF next, after, oldest
    <3> QED
      BY <1>2, <3>1
  <2> HIDE DEF filled, after, oldest
  <2>6. after.events = filled /\ after.start = next /\ after.size = capacity /\ after.evictedThrough = oldest
    BY <1>8, <2>5
  <2>7. after \in Ring
    <3>1. next \in 0..(capacity - 1)
      BY <1>7
    <3> HIDE DEF next
    <3> QED
      BY <1>2, <2>3, <2>4, <2>5, <3>1 DEF Ring
  <2>8. ASSUME NEW k \in 0..(capacity - 1)
        PROVE  filled[Cell(next, k)] = more[n + 1 - capacity + k + 1]
    <3>1. CASE k = capacity - 1
      <4>1. n + 1 - capacity + k + 1 = n + 1
        BY <1>1, <3>1
      <4> QED
        BY <1>3, <1>7, <2>4, <3>1, <4>1
    <3>2. CASE k # capacity - 1
      <4>1. k \in 0..(capacity - 2) /\ k + 1 \in 0..(capacity - 1) /\ k + 1 \in 0..(size - 1)
            /\ 0 \in 0..(capacity - 1) /\ k + 1 # 0
        BY <1>1, <1>8, <3>2
      <4>2. /\ n - size + (k + 1) + 1 = n + 1 - capacity + k + 1
            /\ n + 1 - capacity + k + 1 \in 1..n
        BY <1>1, <1>8, <2>1, <4>1
      <4>3. Cell(next, k) = Cell(start, k + 1) /\ Cell(start, k + 1) \in 0..(capacity - 1)
        BY <1>7, <4>1
      <4>4. Cell(start, k + 1) # start
        BY <1>7, <4>1
      <4>5. cells[Cell(start, k + 1)] = events[n - size + (k + 1) + 1]
        BY <1>5, <4>1
      <4> QED
        BY <1>3, <2>4, <4>2, <4>3, <4>4, <4>5
    <3> QED
      BY <3>1, <3>2
  <2>9. RingHolds(after, more)
    <3>1. n + 1 - capacity = n - capacity + 1 /\ ~(n + 1 < capacity) /\ ~(n + 1 <= capacity)
      BY <1>1, <2>1
    <3>2. more[n + 1 - capacity] = events[n - capacity + 1]
      BY <1>3, <2>2, <3>1
    <3> HIDE DEF next, more
    <3> DEFINE m == n + 1
    <3>3. m \in Nat /\ m = Len(more)
      BY <1>1, <1>3
    <3>4. after.size = (IF m < capacity THEN m ELSE capacity)
      BY <2>6, <3>1
    <3>5. after.evictedThrough = (IF m <= capacity THEN 0 ELSE more[m - capacity].id)
      BY <1>1, <2>3, <2>6, <3>1, <3>2
    <3>6. \A k \in 0..(after.size - 1) : after.events[Cell(after.start, k)] = more[m - after.size + k + 1]
      BY <1>1, <2>6, <2>8
    <3> HIDE DEF m
    <3> QED
      BY <1>6, <2>7, <3>3, <3>4, <3>5, <3>6, Zenon
  <2> QED
    BY <2>7, <2>9 DEF after, more
<1>9. CASE size # capacity
  <2> DEFINE place == Cell(start, size)
             filled == [cells EXCEPT ![place] = e]
             grown == size + 1
  <2>1. n < capacity /\ size = n /\ grown = n + 1 /\ grown \in 0..capacity /\ size \in 0..(capacity - 1)
    BY <1>1, <1>4, <1>9
  <2>2. place \in 0..(capacity - 1)
    BY <1>7, <2>1
  <2>3. filled \in [0..(capacity - 1) -> Event \cup {NoEvent}] /\ filled[place] = e
        /\ \A i \in 0..(capacity - 1) : i # place => filled[i] = cells[i]
    BY <1>2, <2>2
  <2>4. after = [events |-> filled, start |-> start, size |-> grown, evictedThrough |-> evicted]
    <3>1. after = [ring EXCEPT !.events[place] = e, !.size = @ + 1]
      BY <1>9 DEF AddToRing, size, cells, start, Cell
    <3>2. ring.size = size
      BY DEF size
    <3> HIDE DEF after, place, grown
    <3>3. after = [ring EXCEPT !.events[place] = e, !.size = grown]
      BY <3>1, <3>2 DEF grown
    <3> QED
      BY <1>2, <3>3
  <2> HIDE DEF filled, after
  <2>5. after.events = filled /\ after.start = start /\ after.size = n + 1 /\ after.evictedThrough = 0
    BY <1>4, <1>1, <2>1, <2>4
  <2>6. after \in Ring
    <3> HIDE DEF grown
    <3> QED
      BY <1>2, <2>1, <2>3, <2>4 DEF Ring
  <2>7. ASSUME NEW k \in 0..n
        PROVE  filled[Cell(start, k)] = more[k + 1]
    <3>1. CASE k = n
      BY <1>3, <2>1, <2>3, <3>1
    <3>2. CASE k # n
      <4>1. k \in 0..(size - 1) /\ k \in 0..(capacity - 1) /\ k # size /\ k + 1 \in 1..n
            /\ n - size + k + 1 = k + 1
        BY <1>1, <2>1, <3>2
      <4>2. Cell(start, k) # place /\ Cell(start, k) \in 0..(capacity - 1)
        BY <1>7, <2>1, <4>1
      <4>3. cells[Cell(start, k)] = events[n - size + k + 1]
        BY <1>5, <4>1
      <4> QED
        BY <1>3, <2>3, <4>1, <4>2, <4>3
    <3> QED
      BY <3>1, <3>2
  <2>8. RingHolds(after, more)
    <3>1. after.size = (IF n + 1 < capacity THEN n + 1 ELSE capacity) /\ n + 1 <= capacity
      BY <1>1, <2>1, <2>5
    <3> HIDE DEF more
    <3> DEFINE m == n + 1
    <3>3. m \in Nat /\ m = Len(more)
      BY <1>1, <1>3
    <3>4. after.size = (IF m < capacity THEN m ELSE capacity)
      BY <3>1
    <3>5. after.evictedThrough = (IF m <= capacity THEN 0 ELSE more[m - capacity].id)
      BY <2>5, <3>1
    <3>6. \A k \in 0..(after.size - 1) : after.events[Cell(after.start, k)] = more[m - after.size + k + 1]
      <4> TAKE k \in 0..(after.size - 1)
      <4>1. k \in 0..n /\ m - after.size + k + 1 = k + 1
        BY <1>1, <2>5
      <4> QED
        BY <2>5, <2>7, <4>1
    <3> HIDE DEF m
    <3> QED
      BY <1>6, <2>6, <3>3, <3>4, <3>5, <3>6, Zenon
  <2> QED
    BY <2>6, <2>8 DEF after, more
<1> QED
  BY <1>8, <1>9

(* What an entry of change is made of. *)
LEMMA BusyFields ==
  ASSUME NEW x \in {Idle} \cup Busy, x.at # "idle"
  PROVE  /\ x.o \in Orders /\ x.want \in Statuses /\ x.previous \in Statuses
         /\ x \in Busy /\ x.at \in {"queued", "locked", "committed", "invalidating"}
BY DEF Idle, Busy

(* The call at the head of a queue leaves it. *)
LEMMA LeavingPassesTheTurn ==
  ASSUME tails \in [Orders -> Seq(Calls)], change \in [Calls -> {Idle} \cup Busy], TurnsAreTaken,
         NEW c \in Calls, change[c].at # "idle", Head(tails[change[c].o]) = c, LeaveQueue(c)
  PROVE  /\ tails' \in [Orders -> Seq(Calls)] /\ change' \in [Calls -> {Idle} \cup Busy]
         /\ TurnsAreTaken'
         /\ change'[c] = Idle /\ \A d \in Calls \ {c} : change'[d] = change[d]
<1> DEFINE o == change[c].o
           q == tails[o]
<1>1. o \in Orders /\ q \in Seq(Calls) /\ Head(q) = c
  BY BusyFields
<1>2. /\ change' = [change EXCEPT ![c] = Idle] /\ tails' = [tails EXCEPT ![o] = Tail(q)]
  BY DEF LeaveQueue
<1>3. /\ \A p \in Orders : \A i \in 1..Len(tails[p]) :
           /\ change[tails[p][i]].at # "idle" /\ change[tails[p][i]].o = p
           /\ \A j \in 1..Len(tails[p]) : tails[p][i] = tails[p][j] => i = j
      /\ \A d \in Calls : change[d].at # "idle" =>
           /\ \E i \in 1..Len(tails[change[d].o]) : tails[change[d].o][i] = d
           /\ change[d].at \in {"locked", "committed", "invalidating"} => Head(tails[change[d].o]) = d
  BY DEF TurnsAreTaken
<1>4. q # <<>>
  <2>1. \E i \in 1..Len(q) : q[i] = c
    BY <1>3
  <2> QED
    BY <1>1, <2>1
<1>5. /\ Len(q) \in Nat /\ 1 \in 1..Len(q) /\ q[1] = c /\ Tail(q) \in Seq(Calls)
      /\ Len(Tail(q)) = Len(q) - 1 /\ \A i \in 1..Len(Tail(q)) : Tail(q)[i] = q[i + 1]
  BY <1>1, <1>4
<1>6. /\ tails' \in [Orders -> Seq(Calls)] /\ change' \in [Calls -> {Idle} \cup Busy]
      /\ tails'[o] = Tail(q) /\ \A p \in Orders \ {o} : tails'[p] = tails[p]
      /\ change'[c] = Idle /\ \A d \in Calls \ {c} : change'[d] = change[d]
  <2> HIDE DEF q, o
  <2> QED
    BY <1>1, <1>2, <1>5
<1> HIDE DEF q
<1>7. ASSUME NEW p \in Orders, NEW i \in 1..Len(tails'[p])
      PROVE  /\ change'[tails'[p][i]].at # "idle" /\ change'[tails'[p][i]].o = p
             /\ \A j \in 1..Len(tails'[p]) : tails'[p][i] = tails'[p][j] => i = j
  <2>1. CASE p = o
    <3>1. i \in 1..Len(Tail(q)) /\ i + 1 \in 1..Len(q) /\ i + 1 # 1 /\ tails'[p][i] = q[i + 1]
      BY <1>5, <1>6, <2>1
    <3>2. q[i + 1] # c /\ q[i + 1] \in Calls
      BY <1>1, <1>3, <1>5, <3>1 DEF q
    <3>3. change[q[i + 1]].at # "idle" /\ change[q[i + 1]].o = p
      BY <1>1, <1>3, <2>1, <3>1 DEF q
    <3>4. ASSUME NEW j \in 1..Len(tails'[p]), tails'[p][i] = tails'[p][j] PROVE i = j
      <4>0. tails'[p] = Tail(q)
        BY <1>6, <2>1
      <4>1. j \in 1..Len(Tail(q)) /\ j + 1 \in 1..Len(q) /\ tails'[p][j] = q[j + 1]
        BY <1>5, <4>0
      <4>2. q[i + 1] = q[j + 1]
        BY <3>1, <3>4, <4>1
      <4>3. \A a, b \in 1..Len(q) : q[a] = q[b] => a = b
        BY <1>1, <1>3 DEF q
      <4>4. i + 1 = j + 1
        BY <3>1, <4>1, <4>2, <4>3
      <4> QED
        BY <1>5, <3>1, <4>1, <4>4
    <3> QED
      BY <1>6, <3>1, <3>2, <3>3, <3>4
  <2>2. CASE p # o
    <3>1. tails'[p] = tails[p] /\ tails[p][i] \in Calls
      BY <1>6, <2>2
    <3>2. change[tails[p][i]].at # "idle" /\ change[tails[p][i]].o = p
      BY <1>3, <3>1
    <3> QED
      BY <1>3, <1>6, <2>2, <3>1, <3>2
  <2> QED
    BY <2>1, <2>2
<1>8. ASSUME NEW d \in Calls, change'[d].at # "idle"
      PROVE  /\ \E i \in 1..Len(tails'[change'[d].o]) : tails'[change'[d].o][i] = d
             /\ change'[d].at \in {"locked", "committed", "invalidating"} => Head(tails'[change'[d].o]) = d
  <2>1. d # c /\ change'[d] = change[d]
    BY <1>6, <1>8 DEF Idle
  <2>2. change[d].o \in Orders /\ change[d].at # "idle"
    BY <1>8, <2>1, BusyFields
  <2>3. CASE change[d].o = o
    <3>1. PICK i \in 1..Len(q) : q[i] = d
      BY <1>3, <2>2, <2>3 DEF q
    <3>2. i - 1 \in 1..Len(Tail(q)) /\ (i - 1) + 1 = i
      BY <1>5, <2>1, <3>1
    <3>3. ~(change[d].at \in {"locked", "committed", "invalidating"})
      BY <1>1, <1>3, <2>1, <2>2, <2>3 DEF q
    <3>4. Tail(q)[i - 1] = d /\ tails'[change'[d].o] = Tail(q)
      BY <1>5, <1>6, <2>1, <2>3, <3>1, <3>2
    <3> QED
      BY <2>1, <3>2, <3>3, <3>4
  <2>4. CASE change[d].o # o
    BY <1>3, <1>6, <2>1, <2>2, <2>4, SMTT(30)
  <2> QED
    BY <2>3, <2>4
<1> QED
  BY <1>6, <1>7, <1>8 DEF TurnsAreTaken

(* The call at the head of a queue goes on. *)
LEMMA AdvancingKeepsTheTurn ==
  ASSUME tails \in [Orders -> Seq(Calls)], change \in [Calls -> {Idle} \cup Busy], TurnsAreTaken,
         NEW c \in Calls, change[c].at # "idle", Head(tails[change[c].o]) = c,
         NEW x \in Busy, x.o = change[c].o,
         change' = [change EXCEPT ![c] = x], tails' = tails
  PROVE  /\ change' \in [Calls -> {Idle} \cup Busy] /\ TurnsAreTaken'
         /\ change'[c] = x /\ \A d \in Calls \ {c} : change'[d] = change[d]
<1>1. /\ change' \in [Calls -> {Idle} \cup Busy]
      /\ change'[c] = x /\ \A d \in Calls \ {c} : change'[d] = change[d]
  OBVIOUS
<1>2. x.at # "idle"
  BY DEF Busy
<1>3. /\ \A p \in Orders : \A i \in 1..Len(tails[p]) :
           /\ change[tails[p][i]].at # "idle" /\ change[tails[p][i]].o = p
           /\ \A j \in 1..Len(tails[p]) : tails[p][i] = tails[p][j] => i = j
      /\ \A d \in Calls : change[d].at # "idle" =>
           /\ \E i \in 1..Len(tails[change[d].o]) : tails[change[d].o][i] = d
           /\ change[d].at \in {"locked", "committed", "invalidating"} => Head(tails[change[d].o]) = d
  BY DEF TurnsAreTaken
<1>4. ASSUME NEW p \in Orders, NEW i \in 1..Len(tails[p])
      PROVE  /\ change'[tails[p][i]].at # "idle" /\ change'[tails[p][i]].o = p
             /\ \A j \in 1..Len(tails[p]) : tails[p][i] = tails[p][j] => i = j
  <2>1. tails[p][i] \in Calls
    OBVIOUS
  <2> QED
    BY <1>1, <1>2, <1>3, <2>1
<1>5. ASSUME NEW d \in Calls, change'[d].at # "idle"
      PROVE  /\ \E i \in 1..Len(tails[change'[d].o]) : tails[change'[d].o][i] = d
             /\ change'[d].at \in {"locked", "committed", "invalidating"} => Head(tails[change'[d].o]) = d
  <2>1. CASE d = c
    BY <1>1, <1>3, <2>1
  <2>2. CASE d # c
    BY <1>1, <1>3, <1>5, <2>2
  <2> QED
    BY <2>1, <2>2
<1> QED
  BY <1>1, <1>4, <1>5 DEF TurnsAreTaken

(* A call joins the end of its order's queue. *)
LEMMA JoiningTakesATurn ==
  ASSUME tails \in [Orders -> Seq(Calls)], change \in [Calls -> {Idle} \cup Busy], TurnsAreTaken,
         NEW c \in Calls, change[c] = Idle, NEW o \in Orders, NEW x \in Busy, x.o = o, x.at = "queued",
         change' = [change EXCEPT ![c] = x], tails' = [tails EXCEPT ![o] = Append(@, c)]
  PROVE  /\ tails' \in [Orders -> Seq(Calls)] /\ change' \in [Calls -> {Idle} \cup Busy]
         /\ TurnsAreTaken'
         /\ change'[c] = x /\ \A d \in Calls \ {c} : change'[d] = change[d]
<1> DEFINE q == tails[o]
           more == Append(q, c)
<1>1. q \in Seq(Calls) /\ tails' = [tails EXCEPT ![o] = more]
  OBVIOUS
<1>2. /\ more \in Seq(Calls) /\ Len(q) \in Nat /\ Len(more) = Len(q) + 1 /\ more[Len(q) + 1] = c
      /\ \A i \in 1..Len(q) : more[i] = q[i]
  BY <1>1
<1>3. /\ \A p \in Orders : \A i \in 1..Len(tails[p]) :
           /\ change[tails[p][i]].at # "idle" /\ change[tails[p][i]].o = p
           /\ \A j \in 1..Len(tails[p]) : tails[p][i] = tails[p][j] => i = j
      /\ \A d \in Calls : change[d].at # "idle" =>
           /\ \E i \in 1..Len(tails[change[d].o]) : tails[change[d].o][i] = d
           /\ change[d].at \in {"locked", "committed", "invalidating"} => Head(tails[change[d].o]) = d
  BY DEF TurnsAreTaken
<1> HIDE DEF more
<1>4. /\ tails' \in [Orders -> Seq(Calls)] /\ change' \in [Calls -> {Idle} \cup Busy]
      /\ tails'[o] = more /\ \A p \in Orders \ {o} : tails'[p] = tails[p]
      /\ change'[c] = x /\ \A d \in Calls \ {c} : change'[d] = change[d]
  BY <1>1, <1>2
<1>5. \A p \in Orders : \A i \in 1..Len(tails[p]) : tails[p][i] \in Calls /\ tails[p][i] # c
  BY <1>3 DEF Idle
<1> HIDE DEF q
<1>6. ASSUME NEW p \in Orders, NEW i \in 1..Len(tails'[p])
      PROVE  /\ change'[tails'[p][i]].at # "idle" /\ change'[tails'[p][i]].o = p
             /\ \A j \in 1..Len(tails'[p]) : tails'[p][i] = tails'[p][j] => i = j
  <2>1. CASE p = o
    <3>1. \A k \in 1..Len(more) : (k = Len(q) + 1 /\ more[k] = c)
                                  \/ (k \in 1..Len(q) /\ more[k] = q[k] /\ q[k] # c /\ q[k] \in Calls)
      BY <1>2, <1>5 DEF q
    <3>2. i \in 1..Len(more) /\ tails'[p] = more
      BY <1>4, <2>1
    <3>3. \A j \in 1..Len(more) : more[i] = more[j] => i = j
      BY <1>3, <3>1, <3>2 DEF q
    <3>4. change'[more[i]].at # "idle" /\ change'[more[i]].o = p
      BY <1>3, <1>4, <2>1, <3>1, <3>2 DEF q
    <3> QED
      BY <3>2, <3>3, <3>4
  <2>2. CASE p # o
    BY <1>3, <1>4, <1>5, <2>2
  <2> QED
    BY <2>1, <2>2
<1>7. ASSUME NEW d \in Calls, change'[d].at # "idle"
      PROVE  /\ \E i \in 1..Len(tails'[change'[d].o]) : tails'[change'[d].o][i] = d
             /\ change'[d].at \in {"locked", "committed", "invalidating"} => Head(tails'[change'[d].o]) = d
  <2>1. CASE d = c
    <3>1. Len(q) + 1 \in 1..Len(more)
      BY <1>2
    <3> QED
      BY <1>2, <1>4, <2>1, <3>1
  <2>2. CASE d # c
    <3>1. change'[d] = change[d] /\ change[d].at # "idle" /\ change[d].o \in Orders
      BY <1>4, <1>7, <2>2, BusyFields
    <3>2. CASE change[d].o # o
      BY <1>3, <1>4, <3>1, <3>2
    <3>3. CASE change[d].o = o
      <4>1. PICK i \in 1..Len(q) : q[i] = d
        BY <1>3, <3>1, <3>3 DEF q
      <4>2. i \in 1..Len(more) /\ more[i] = d
        BY <1>2, <4>1
      <4>3. Head(more) = Head(q)
        <5>1. 1 \in 1..Len(q)
          BY <1>2, <4>1
        <5> QED
          BY <1>1, <1>2, <5>1
      <4> QED
        BY <1>3, <1>4, <3>1, <3>3, <4>2, <4>3 DEF q
    <3> QED
      BY <3>2, <3>3
  <2> QED
    BY <2>1, <2>2
<1> QED
  BY <1>4, <1>6, <1>7 DEF TurnsAreTaken

(* What the changes of status keep. *)
ChangesOK ==
  /\ status \in [Orders -> Statuses] /\ tails \in [Orders -> Seq(Calls)]
  /\ change \in [Calls -> {Idle} \cup Busy]
  /\ base \in [Orders -> Statuses] /\ missed \in SUBSET Orders /\ log \in [Orders -> Seq(Event)]
  /\ TurnsAreTaken /\ FoundAsLeft /\ EventsFollowCommits

LEMMA OneAtTheHead ==
  ASSUME TurnsAreTaken, NEW c \in Calls, NEW d \in Calls, change[c].at # "idle", change[d].o = change[c].o,
         Head(tails[change[c].o]) = c,
         change[d].at \in {"locked", "committed", "invalidating"}
  PROVE  d = c
BY DEF TurnsAreTaken

(* Nothing was published: the events still follow the commits where the status stays. *)
LEMMA EventsStillFollow ==
  ASSUME EventsFollowCommits, log' = log, base' = base, missed \subseteq missed',
         \A o \in Orders \ missed' : Settled(o)' =>
           (Settled(o) /\ status'[o] = status[o]) \/ status'[o] = Before(o, Len(log[o]) + 1)
  PROVE  EventsFollowCommits'
<1> SUFFICES ASSUME NEW o \in Orders \ missed'
    PROVE  /\ \A i \in DOMAIN log[o] : log[o][i].previous = Before(o, i)
           /\ Settled(o)' => status'[o] = Before(o, Len(log[o]) + 1)
  BY DEF EventsFollowCommits, Before
<1>2. o \in Orders \ missed
  OBVIOUS
<1>3. \A i \in DOMAIN log[o] : log[o][i].previous = Before(o, i)
  BY <1>2 DEF EventsFollowCommits
<1>4. Settled(o)' => status'[o] = Before(o, Len(log[o]) + 1)
  BY <1>2 DEF EventsFollowCommits
<1> QED
  BY <1>3, <1>4

LEMMA ChangeStatusKeeps ==
  ASSUME ChangesOK, NEW c \in Calls, NEW o \in Orders, NEW want \in Statuses, ChangeStatus(c, o, want)
  PROVE  ChangesOK'
<1> DEFINE x == [at |-> "queued", o |-> o, want |-> want, previous |-> want]
<1>1. /\ x \in Busy /\ x.o = o /\ x.at = "queued"
      /\ change[c] = Idle /\ change' = [change EXCEPT ![c] = x] /\ tails' = [tails EXCEPT ![o] = Append(@, c)]
      /\ status' = status /\ base' = base /\ missed' = missed /\ log' = log
  BY DEF ChangeStatus, feed, Busy
<1> HIDE DEF x
<1>2. /\ tails' \in [Orders -> Seq(Calls)] /\ change' \in [Calls -> {Idle} \cup Busy] /\ TurnsAreTaken'
      /\ change'[c] = x /\ \A d \in Calls \ {c} : change'[d] = change[d]
  BY <1>1, JoiningTakesATurn DEF ChangesOK
<1>3. FoundAsLeft'
  <2>1. \A d \in Calls : change'[d].at \in {"locked", "committed"} => change'[d] = change[d]
    BY <1>1, <1>2
  <2> QED
    BY <1>1, <2>1 DEF ChangesOK, FoundAsLeft, Before
<1>4. EventsFollowCommits'
  <2>1. \A p \in Orders : Settled(p)' => Settled(p)
    BY <1>1, <1>2 DEF Settled, Idle
  <2> QED
    BY <1>1, <2>1, EventsStillFollow DEF ChangesOK
<1> QED
  BY <1>1, <1>2, <1>3, <1>4 DEF ChangesOK

LEMMA LockKeeps ==
  ASSUME ChangesOK, NEW c \in Calls, Lock(c)
  PROVE  ChangesOK'
<1> DEFINE o == change[c].o
           x == [change[c] EXCEPT !.at = "locked", !.previous = status[o]]
<1>1. /\ change[c].at = "queued" /\ Head(tails[o]) = c /\ o \in Orders /\ change[c] \in Busy
      /\ status' = status /\ base' = base /\ missed' = missed /\ log' = log /\ tails' = tails
      /\ status[o] \in Statuses
  BY BusyFields DEF Lock, HasTurn, feed, ChangesOK
<1>2. x \in Busy /\ x.o = o /\ x.at = "locked" /\ x.previous = status[o]
  BY <1>1 DEF Busy
<1>3. change' = [change EXCEPT ![c] = x]
  BY DEF Lock, ChangesOK
<1> HIDE DEF x
<1>4. /\ change' \in [Calls -> {Idle} \cup Busy] /\ TurnsAreTaken'
      /\ change'[c] = x /\ \A d \in Calls \ {c} : change'[d] = change[d]
  BY <1>1, <1>2, <1>3, AdvancingKeepsTheTurn DEF ChangesOK
<1>5. FoundAsLeft'
  <2>1. \A d \in Calls : (d = c /\ change'[d] = x) \/ change'[d] = change[d]
    BY <1>4
  <2> QED
    BY <1>1, <1>2, <2>1 DEF ChangesOK, FoundAsLeft, Before
<1>6. EventsFollowCommits'
  <2>1. \A p \in Orders : Settled(p)' => Settled(p)
    BY <1>1, <1>4 DEF Settled
  <2> QED
    BY <1>1, <2>1, EventsStillFollow DEF ChangesOK
<1> QED
  BY <1>1, <1>4, <1>5, <1>6 DEF ChangesOK

LEMMA CommitKeeps ==
  ASSUME ChangesOK, NEW c \in Calls, Commit(c)
  PROVE  ChangesOK'
<1> DEFINE o == change[c].o
           x == [change[c] EXCEPT !.at = "committed"]
<1>1. /\ change[c].at = "locked" /\ o \in Orders /\ change[c] \in Busy /\ change[c].want \in Statuses
      /\ base' = base /\ missed' = missed /\ log' = log /\ tails' = tails
      /\ status' = [status EXCEPT ![o] = change[c].want]
  BY BusyFields DEF Commit, feed, ChangesOK
<1>2. x \in Busy /\ x.o = o /\ x.at = "committed" /\ x.previous = change[c].previous /\ x.want = change[c].want
  BY <1>1 DEF Busy
<1>3. change' = [change EXCEPT ![c] = x] /\ Head(tails[o]) = c /\ change[c].previous = status[o]
  BY <1>1 DEF Commit, ChangesOK, TurnsAreTaken, FoundAsLeft
<1> HIDE DEF x
<1>4. /\ change' \in [Calls -> {Idle} \cup Busy] /\ TurnsAreTaken'
      /\ change'[c] = x /\ \A d \in Calls \ {c} : change'[d] = change[d]
  BY <1>1, <1>2, <1>3, AdvancingKeepsTheTurn DEF ChangesOK
<1>5. /\ status' \in [Orders -> Statuses] /\ status'[o] = change[c].want
      /\ \A p \in Orders \ {o} : status'[p] = status[p]
  BY <1>1 DEF ChangesOK
<1>6. \A d \in Calls \ {c} : change[d].at \in {"locked", "committed"} => change[d].o # o /\ change[d].o \in Orders
  <2>1. \A d \in Calls \ {c} : change[d].at \in {"locked", "committed"} => change[d].o # o
    BY <1>1, <1>3, OneAtTheHead DEF ChangesOK
  <2> QED
    BY <2>1, BusyFields DEF ChangesOK
<1>7. o \notin missed => change[c].previous = Before(o, Len(log[o]) + 1)
  <2>1. Settled(o)
    BY <1>1, <1>6 DEF Settled
  <2> QED
    BY <1>1, <1>3, <2>1 DEF ChangesOK, EventsFollowCommits
<1>8. FoundAsLeft'
  <2> SUFFICES ASSUME NEW d \in Calls
      PROVE  /\ change'[d].at = "locked" => change'[d].previous = status'[change'[d].o]
             /\ change'[d].at = "committed" /\ change'[d].o \notin missed =>
                  /\ status'[change'[d].o] = change'[d].want
                  /\ change'[d].previous = Before(change'[d].o, Len(log[change'[d].o]) + 1)
    BY <1>1 DEF FoundAsLeft, Before
  <2>1. CASE d = c
    BY <1>2, <1>4, <1>5, <1>7, <2>1
  <2>2. CASE d # c
    <3>1. change'[d] = change[d]
      BY <1>4, <2>2
    <3>2. change[d].at \in {"locked", "committed"} => status'[change[d].o] = status[change[d].o]
      BY <1>5, <1>6, <2>2
    <3> QED
      BY <3>1, <3>2 DEF ChangesOK, FoundAsLeft
  <2> QED
    BY <2>1, <2>2
<1>9. EventsFollowCommits'
  <2>1. \A p \in Orders : Settled(p)' => Settled(p) /\ p # o
    BY <1>1, <1>2, <1>4 DEF Settled
  <2> QED
    BY <1>1, <1>5, <2>1, EventsStillFollow DEF ChangesOK
<1> QED
  BY <1>1, <1>4, <1>5, <1>8, <1>9 DEF ChangesOK

(* A call that leaves its queue, its commit answered or not, its status published or not. *)
LEMMA LeavingKeeps ==
  ASSUME ChangesOK, NEW c \in Calls, change[c].at # "idle", Head(tails[change[c].o]) = c, LeaveQueue(c),
         base' = base, log' = log, missed' \in SUBSET Orders, missed \subseteq missed',
         status' \in [Orders -> Statuses],
         \A p \in Orders \ {change[c].o} : status'[p] = status[p],
         change[c].o \notin missed' => status'[change[c].o] = Before(change[c].o, Len(log[change[c].o]) + 1)
                                       \/ (status'[change[c].o] = status[change[c].o]
                                           /\ change[c].at # "committed")
  PROVE  ChangesOK'
<1> DEFINE o == change[c].o
<1>1. o \in Orders
  BY BusyFields DEF ChangesOK
<1>2. /\ tails' \in [Orders -> Seq(Calls)] /\ change' \in [Calls -> {Idle} \cup Busy] /\ TurnsAreTaken'
      /\ change'[c] = Idle /\ \A d \in Calls \ {c} : change'[d] = change[d]
  BY LeavingPassesTheTurn DEF ChangesOK
<1>3. \A d \in Calls \ {c} : change[d].at \in {"locked", "committed"} => change[d].o # o /\ change[d].o \in Orders
  <2>1. \A d \in Calls \ {c} : change[d].at \in {"locked", "committed"} => change[d].o # o
    BY OneAtTheHead DEF ChangesOK
  <2> QED
    BY <2>1, BusyFields DEF ChangesOK
<1>4. FoundAsLeft'
  <2> SUFFICES ASSUME NEW d \in Calls
      PROVE  /\ change'[d].at = "locked" => change'[d].previous = status'[change'[d].o]
             /\ change'[d].at = "committed" /\ change'[d].o \notin missed' =>
                  /\ status'[change'[d].o] = change'[d].want
                  /\ change'[d].previous = Before(change'[d].o, Len(log[change'[d].o]) + 1)
    BY DEF FoundAsLeft, Before
  <2>1. CASE d = c
    BY <1>2, <2>1 DEF Idle
  <2>2. CASE d # c
    <3>1. change'[d] = change[d]
      BY <1>2, <2>2
    <3>2. change[d].at \in {"locked", "committed"} => status'[change[d].o] = status[change[d].o]
      BY <1>3, <2>2
    <3> QED
      BY <3>1, <3>2 DEF ChangesOK, FoundAsLeft
  <2> QED
    BY <2>1, <2>2
<1>5. EventsFollowCommits'
  <2>1. ASSUME NEW p \in Orders, p # o \/ change[c].at # "committed"
        PROVE  Settled(p)' => Settled(p)
    <3>1. \A d \in Calls : change[d].at = "committed" /\ change[d].o = p => change'[d] = change[d]
      BY <1>2, <2>1
    <3> QED
      BY <3>1 DEF Settled
  <2>2. \A p \in Orders \ missed' : Settled(p)' =>
          (Settled(p) /\ status'[p] = status[p]) \/ status'[p] = Before(p, Len(log[p]) + 1)
    BY <1>1, <2>1
  <2> QED
    BY <2>2, EventsStillFollow DEF ChangesOK
<1> QED
  BY <1>2, <1>4, <1>5 DEF ChangesOK

LEMMA CommitUnansweredKeeps ==
  ASSUME ChangesOK, NEW c \in Calls, CommitUnanswered(c)
  PROVE  ChangesOK'
<1> DEFINE o == change[c].o
<1>1. /\ change[c].at = "locked" /\ o \in Orders /\ change[c].want \in Statuses
      /\ base' = base /\ log' = log /\ LeaveQueue(c)
      /\ status' = [status EXCEPT ![o] = change[c].want]
      /\ missed' = IF Changed(c) THEN missed \cup {o} ELSE missed
  BY BusyFields DEF CommitUnanswered, feed, ChangesOK
<1>2. Head(tails[o]) = c /\ change[c].previous = status[o]
  BY <1>1 DEF ChangesOK, TurnsAreTaken, FoundAsLeft
<1>3. /\ status' \in [Orders -> Statuses] /\ status'[o] = change[c].want
      /\ \A p \in Orders \ {o} : status'[p] = status[p]
      /\ missed' \in SUBSET Orders /\ missed \subseteq missed'
  BY <1>1 DEF ChangesOK
<1>4. o \notin missed' => status'[o] = status[o] /\ change[c].at # "committed"
  BY <1>1, <1>2, <1>3 DEF Changed
<1> QED
  BY <1>1, <1>2, <1>3, <1>4, LeavingKeeps

LEMMA FailKeeps ==
  ASSUME ChangesOK, NEW c \in Calls, Fail(c)
  PROVE  ChangesOK'
<1>1. /\ change[c].at \in {"queued", "locked"} /\ Head(tails[change[c].o]) = c /\ LeaveQueue(c)
      /\ status' = status /\ base' = base /\ log' = log /\ missed' = missed
  BY DEF Fail, HasTurn, feed
<1> QED
  BY <1>1, LeavingKeeps, BusyFields DEF ChangesOK

LEMMA FinishChangeKeeps ==
  ASSUME ChangesOK, NEW c \in Calls, FinishChange(c)
  PROVE  ChangesOK'
<1>1. /\ change[c].at = "invalidating" \/ (change[c].at = "committed" /\ ~Changed(c))
      /\ LeaveQueue(c)
      /\ status' = status /\ base' = base /\ log' = log /\ missed' = missed
  BY DEF FinishChange, feed
<1>2. change[c].at # "idle" /\ Head(tails[change[c].o]) = c /\ LeaveQueue(c)
  BY <1>1 DEF FinishChange, ChangesOK, TurnsAreTaken
<1>3. change[c].at = "committed" /\ change[c].o \notin missed =>
        status'[change[c].o] = Before(change[c].o, Len(log[change[c].o]) + 1)
  BY <1>1 DEF ChangesOK, FoundAsLeft, Changed
<1> QED
  BY <1>1, <1>2, <1>3, LeavingKeeps, BusyFields DEF FinishChange, feed, ChangesOK

LEMMA PublishEventKeeps ==
  ASSUME ChangesOK, sequence \in Nat, NEW c \in Calls, PublishEvent(c)
  PROVE  ChangesOK'
<1> DEFINE o == change[c].o
           x == [change[c] EXCEPT !.at = "invalidating"]
           event == [id |-> sequence + 1, previous |-> change[c].previous, status |-> change[c].want]
<1>1. /\ change[c].at = "committed" /\ o \in Orders /\ change[c] \in Busy
      /\ change[c].want \in Statuses /\ change[c].previous \in Statuses
      /\ base' = base /\ missed' = missed /\ tails' = tails /\ status' = status
      /\ log' = [log EXCEPT ![o] = Append(log[o], event)]
  BY BusyFields DEF PublishEvent, ChangesOK
<1>2. x \in Busy /\ x.o = o /\ x.at = "invalidating"
  BY <1>1 DEF Busy
<1>3. change' = [change EXCEPT ![c] = x] /\ Head(tails[o]) = c
  BY <1>1 DEF PublishEvent, ChangesOK, TurnsAreTaken
<1> HIDE DEF x
<1>4. /\ change' \in [Calls -> {Idle} \cup Busy] /\ TurnsAreTaken'
      /\ change'[c] = x /\ \A d \in Calls \ {c} : change'[d] = change[d]
  BY <1>1, <1>2, <1>3, AdvancingKeepsTheTurn DEF ChangesOK
<1>5. event \in Event /\ event.previous = change[c].previous /\ event.status = change[c].want
  BY <1>1 DEF Event
<1> HIDE DEF event
<1> DEFINE n == Len(log[o])
<1>6. /\ n \in Nat /\ log[o] \in Seq(Event) /\ Append(log[o], event) \in Seq(Event)
      /\ Len(Append(log[o], event)) = n + 1 /\ Append(log[o], event)[n + 1] = event
      /\ \A i \in 1..n : Append(log[o], event)[i] = log[o][i]
  BY <1>1, <1>5 DEF ChangesOK
<1> DEFINE more == Append(log[o], event)
<1> HIDE DEF more
<1>7. /\ log' \in [Orders -> Seq(Event)] /\ log'[o] = more
      /\ \A p \in Orders \ {o} : log'[p] = log[p]
  BY <1>1, <1>6 DEF ChangesOK, more
<1>8. \A d \in Calls \ {c} : change[d].at \in {"locked", "committed"} => change[d].o # o /\ change[d].o \in Orders
  <2>1. \A d \in Calls \ {c} : change[d].at \in {"locked", "committed"} => change[d].o # o
    BY <1>1, <1>3, OneAtTheHead DEF ChangesOK
  <2> QED
    BY <2>1, BusyFields DEF ChangesOK
<1>9. FoundAsLeft'
  <2> SUFFICES ASSUME NEW d \in Calls
      PROVE  /\ change'[d].at = "locked" => change'[d].previous = status[change'[d].o]
             /\ change'[d].at = "committed" /\ change'[d].o \notin missed =>
                  /\ status[change'[d].o] = change'[d].want
                  /\ change'[d].previous =
                       IF Len(log'[change'[d].o]) + 1 = 1 THEN base[change'[d].o]
                       ELSE log'[change'[d].o][Len(log'[change'[d].o]) + 1 - 1].status
    BY <1>1 DEF FoundAsLeft, Before
  <2>1. CASE d = c
    BY <1>2, <1>4, <2>1
  <2>2. CASE d # c
    <3>1. change'[d] = change[d]
      BY <1>4, <2>2
    <3>2. change[d].at \in {"locked", "committed"} => log'[change[d].o] = log[change[d].o]
      BY <1>7, <1>8, <2>2
    <3>3. change[d].at = "locked" => change[d].previous = status[change[d].o]
      BY DEF ChangesOK, FoundAsLeft
    <3>4. change[d].at = "committed" /\ change[d].o \notin missed =>
            /\ status[change[d].o] = change[d].want
            /\ change[d].previous = Before(change[d].o, Len(log[change[d].o]) + 1)
      BY DEF ChangesOK, FoundAsLeft
    <3> HIDE DEF o, n
    <3>5. CASE change[d].at = "locked"
      BY <3>1, <3>3, <3>5
    <3>6. CASE change[d].at = "committed" /\ change[d].o \notin missed
      <4>1. log'[change'[d].o] = log[change[d].o] /\ change'[d] = change[d]
        BY <3>1, <3>2, <3>6
      <4>2. change[d].previous = IF Len(log[change[d].o]) + 1 = 1 THEN base[change[d].o]
                                 ELSE log[change[d].o][Len(log[change[d].o]) + 1 - 1].status
        <5> DEFINE last == Len(log[change[d].o]) + 1
        <5>1. change[d].previous = Before(change[d].o, last)
          BY <3>4, <3>6
        <5> HIDE DEF last
        <5>2. change[d].previous = IF last = 1 THEN base[change[d].o] ELSE log[change[d].o][last - 1].status
          BY <5>1 DEF Before
        <5> QED
          BY <5>2 DEF last
      <4>3. change'[d].previous = IF Len(log'[change'[d].o]) + 1 = 1 THEN base[change'[d].o]
                       ELSE log'[change'[d].o][Len(log'[change'[d].o]) + 1 - 1].status
        BY <4>1, <4>2, Zenon
      <4> QED
        BY <3>1, <3>4, <3>6, <4>3
    <3> QED
      BY <3>1, <3>5, <3>6
  <2> QED
    BY <2>1, <2>2
<1>10. EventsFollowCommits'
  <2> SUFFICES ASSUME NEW p \in Orders \ missed
      PROVE  /\ \A i \in DOMAIN log'[p] : log'[p][i].previous = IF i = 1 THEN base[p] ELSE log'[p][i - 1].status
             /\ Settled(p)' => status[p] = IF Len(log'[p]) + 1 = 1 THEN base[p]
                                           ELSE log'[p][Len(log'[p]) + 1 - 1].status
    BY <1>1 DEF EventsFollowCommits, Before
  <2>1. CASE p = o
    <3>1. /\ \A i \in 1..n : log[o][i].previous = IF i = 1 THEN base[o] ELSE log[o][i - 1].status
          /\ status[o] = change[c].want
          /\ change[c].previous = IF n + 1 = 1 THEN base[o] ELSE log[o][n + 1 - 1].status
      <4>1. DOMAIN log[o] = 1..n
        BY <1>6
      <4>2. /\ \A i \in 1..n : log[o][i].previous = Before(o, i)
            /\ status[o] = change[c].want /\ change[c].previous = Before(o, n + 1)
        BY <1>1, <2>1, <4>1 DEF ChangesOK, EventsFollowCommits, FoundAsLeft
      <4> QED
        BY <4>2, SMTT(30) DEF Before
    <3>2. /\ log'[p] = more /\ DOMAIN more = 1..(n + 1) /\ Len(more) = n + 1 /\ more[n + 1] = event
          /\ \A i \in 1..n : more[i] = log[o][i]
      BY <1>6, <1>7, <2>1 DEF more
    <3> HIDE DEF n
    <3>3. ASSUME NEW i \in 1..(n + 1)
          PROVE  more[i].previous = IF i = 1 THEN base[p] ELSE more[i - 1].status
      <4>1. CASE i = n + 1
        <5>1. i # 1 => i - 1 \in 1..n /\ i - 1 = n + 1 - 1
          BY <1>6, <4>1
        <5> QED
          BY <1>5, <2>1, <3>1, <3>2, <4>1, <5>1
      <4>2. CASE i # n + 1
        <5>1. i \in 1..n /\ (i # 1 => i - 1 \in 1..n)
          BY <1>6, <4>2
        <5> QED
          BY <2>1, <3>1, <3>2, <5>1
      <4> QED
        BY <4>1, <4>2
    <3>4. n + 1 + 1 # 1 /\ n + 1 + 1 - 1 = n + 1
      BY <1>6
    <3> QED
      BY <1>5, <2>1, <3>1, <3>2, <3>3, <3>4
  <2>2. CASE p # o
    <3>1. log'[p] = log[p]
      BY <1>7, <2>2
    <3>2. Settled(p)' => Settled(p)
      BY <1>1, <1>4, <2>2 DEF Settled
    <3> QED
      BY <3>1, <3>2 DEF ChangesOK, EventsFollowCommits, Before
  <2> QED
    BY <2>1, <2>2
<1> QED
  BY <1>1, <1>4, <1>7, <1>9, <1>10 DEF ChangesOK

(* The feed: every order's events grow and its ring holds the latest of them. *)
FeedOK ==
  /\ sequence \in Nat /\ histories \in [Orders -> Ring] /\ log \in [Orders -> Seq(Event)]
  /\ RingKeepsLatest

LEMMA OrdersFeed ==
  ASSUME log \in [Orders -> Seq(Event)]
  PROVE  RingKeepsLatest <=>
           \A o \in Orders : /\ Growing(log[o]) /\ RingHolds(histories[o], log[o])
                             /\ \A i \in 1..Len(log[o]) : log[o][i].id \in 1..sequence
<1>1. \A o \in Orders : log[o] \in Seq(Event)
  OBVIOUS
<1> HIDE DEF Event
<1> QED
  BY <1>1 DEF RingKeepsLatest, Growing, RingHolds

LEMMA GrowsOn ==
  ASSUME NEW events, Growing(events), NEW e \in Event, \A i \in 1..Len(events) : events[i].id < e.id
  PROVE  Growing(Append(events, e))
<1> DEFINE n == Len(events)
           more == Append(events, e)
<1>1. events \in Seq(Event) /\ n \in Nat
  BY EventsOf DEF Growing
<1> HIDE DEF Event
<1>2. more \in Seq(Event) /\ Len(more) = n + 1 /\ more[n + 1] = e /\ \A i \in 1..n : more[i] = events[i]
  BY <1>1
<1> HIDE DEF more
<1>3. \A i \in 1..n : \A j \in 1..(i - 1) : events[j].id < events[i].id
  BY DEF Growing
<1>4. ASSUME NEW i \in 1..(n + 1), NEW j \in 1..(i - 1) PROVE more[j].id < more[i].id
  <2>1. j \in 1..n /\ more[j] = events[j]
    BY <1>1, <1>2
  <2>2. CASE i = n + 1
    BY <1>2, <2>1, <2>2
  <2>3. CASE i # n + 1
    <3>1. i \in 1..n /\ more[i] = events[i]
      BY <1>1, <1>2, <2>3
    <3> QED
      BY <1>3, <2>1, <3>1
  <2> QED
    BY <2>2, <2>3
<1>5. Growing(more)
  BY <1>2, <1>4 DEF Growing
<1> QED
  BY <1>5 DEF more

LEMMA AfterIsEvents ==
  ASSUME NEW events, Growing(events), NEW lastId \in Nat
  PROVE  After(events, lastId) \in Seq(Event)
<1>1. PICK f \in 1..(Len(events) + 1) : Begins(f, events, lastId)
  BY BeginsSomewhere
<1>2. Len(events) \in Nat /\ f \in Nat /\ \A i \in f..Len(events) : events[i] \in Event
  BY <1>1, EventsOf
<1>3. After(events, lastId) = SubSeq(events, f, Len(events))
  BY <1>1, <1>2, AfterIsTheEnd
<1> HIDE DEF Event
<1> QED
  BY <1>2, <1>3, SubSeqProperties

LEMMA RepliesAreExact == FeedOK => ReplayIsExact
<1> SUFFICES ASSUME FeedOK, NEW o \in Orders, NEW lastId \in 0..sequence
    PROVE  Replay(o, lastId) = IF Len(After(log[o], lastId)) > capacity THEN Gone ELSE After(log[o], lastId)
  BY DEF ReplayIsExact
<1>1. lastId \in Nat /\ ~(lastId > sequence)
  BY DEF FeedOK
<1>2. Growing(log[o]) /\ RingHolds(histories[o], log[o]) /\ histories[o] \in Ring
  BY OrdersFeed DEF FeedOK
<1>3. /\ Len(After(log[o], lastId)) > capacity <=> lastId < histories[o].evictedThrough
      /\ ~(lastId < histories[o].evictedThrough) =>
           After(KeptEvents(histories[o]), lastId) = After(log[o], lastId)
  BY <1>1, <1>2, RingReplays
<1> QED
  BY <1>1, <1>3, Zenon DEF Replay

LEMMA PublishingKeepsTheFeed ==
  ASSUME FeedOK, NEW o \in Orders, NEW e \in Event, e.id = sequence + 1, sequence' = sequence + 1,
         histories' = [histories EXCEPT ![o] = AddToRing(@, e)], log' = [log EXCEPT ![o] = Append(@, e)]
  PROVE  FeedOK' /\ Growing(Append(log[o], e))
<1> DEFINE ring == AddToRing(histories[o], e)
           more == Append(log[o], e)
<1>1. sequence \in Nat /\ histories \in [Orders -> Ring] /\ log \in [Orders -> Seq(Event)]
  BY DEF FeedOK
<1>2. \A p \in Orders : /\ Growing(log[p]) /\ RingHolds(histories[p], log[p]) /\ histories[p] \in Ring
                        /\ \A i \in 1..Len(log[p]) : log[p][i].id \in 1..sequence
  BY <1>1, OrdersFeed DEF FeedOK
<1>3. ring \in Ring /\ RingHolds(ring, more)
  BY <1>2, RingKeepsOn
<1>4. Growing(more)
  <2>1. \A i \in 1..Len(log[o]) : log[o][i].id < e.id
    BY <1>1, <1>2
  <2> QED
    BY <1>2, <2>1, GrowsOn
<1>5. /\ more \in Seq(Event) /\ Len(log[o]) \in Nat /\ Len(more) = Len(log[o]) + 1
      /\ more[Len(log[o]) + 1] = e /\ \A i \in 1..Len(log[o]) : more[i] = log[o][i]
  <2>1. log[o] \in Seq(Event)
    BY <1>1
  <2> HIDE DEF Event
  <2> QED
    BY <2>1
<1>6. \A i \in 1..Len(more) : more[i].id \in 1..(sequence + 1)
  <2> HIDE DEF more
  <2> TAKE i \in 1..Len(more)
  <2>1. CASE i = Len(log[o]) + 1
    BY <1>1, <1>5, <2>1
  <2>2. CASE i # Len(log[o]) + 1
    <3>1. i \in 1..Len(log[o]) /\ more[i] = log[o][i]
      BY <1>5, <2>2
    <3>2. log[o][i].id \in 1..sequence
      BY <1>2, <3>1
    <3> QED
      BY <1>1, <3>1, <3>2
  <2> QED
    BY <2>1, <2>2
<1> HIDE DEF ring, more
<1>7. /\ histories' \in [Orders -> Ring] /\ log' \in [Orders -> Seq(Event)] /\ sequence' \in Nat
      /\ histories'[o] = ring /\ log'[o] = more
      /\ \A p \in Orders \ {o} : histories'[p] = histories[p] /\ log'[p] = log[p]
  <2>1. histories' = [histories EXCEPT ![o] = ring] /\ log' = [log EXCEPT ![o] = more]
    BY DEF ring, more
  <2> QED
    BY <1>1, <1>3, <1>5, <2>1
<1>8. \A p \in Orders : /\ Growing(log'[p]) /\ RingHolds(histories'[p], log'[p])
                        /\ \A i \in 1..Len(log'[p]) : log'[p][i].id \in 1..sequence'
  <2> TAKE p \in Orders
  <2>1. CASE p = o
    BY <1>3, <1>4, <1>6, <1>7, <2>1
  <2>2. CASE p # o
    <3>1. histories'[p] = histories[p] /\ log'[p] = log[p]
      BY <1>7, <2>2
    <3>2. \A i \in 1..Len(log[p]) : log[p][i].id \in 1..sequence'
      BY <1>1, <1>2
    <3> QED
      BY <1>2, <3>1, <3>2
  <2> QED
    BY <2>1, <2>2
<1>9. RingKeepsLatest'
  <2>1. \A p \in Orders : log'[p] \in Seq(Event)
    BY <1>7
  <2> HIDE DEF Event
  <2> QED
    BY <1>8, <2>1 DEF RingKeepsLatest, Growing, RingHolds
<1> QED
  BY <1>4, <1>7, <1>9 DEF FeedOK, more

(* The streams: what is on the wire is what its client has not seen. *)
StreamsOK ==
  /\ stream \in [Streams -> {Closed} \cup Asked \cup Subscribed] /\ wire \in [Streams -> Seq(Event)]
  /\ \A s \in Streams : stream[s].at = "open" => stream[s].seen <= sequence
  /\ StreamsAreGapless

LEMMA StreamFields ==
  ASSUME NEW x \in {Closed} \cup Asked \cup Subscribed
  PROVE  /\ x.at = "open" => x.o \in Orders /\ x.seen \in Nat
         /\ x.at = "asked" => x.o \in Orders /\ x.last \in Nat \cup {NoCursor}
BY DEF Closed, Asked, Subscribed

LEMMA PublishingReachesStreams ==
  ASSUME FeedOK, StreamsOK, NEW o \in Orders, NEW e \in Event, e.id = sequence + 1, sequence' = sequence + 1,
         Growing(Append(log[o], e)), log' = [log EXCEPT ![o] = Append(@, e)], stream' = stream,
         wire' = [s \in Streams |-> IF stream[s].at = "open" /\ stream[s].o = o
                                    THEN Append(wire[s], e) ELSE wire[s]]
  PROVE  StreamsOK'
<1>1. /\ sequence \in Nat /\ log \in [Orders -> Seq(Event)] /\ \A p \in Orders : Growing(log[p])
      /\ wire \in [Streams -> Seq(Event)]
  BY OrdersFeed DEF FeedOK, StreamsOK
<1>2. log'[o] = Append(log[o], e) /\ \A p \in Orders \ {o} : log'[p] = log[p]
  BY <1>1
<1>3. wire' \in [Streams -> Seq(Event)]
  <2> HIDE DEF Event
  <2>1. \A s \in Streams : Append(wire[s], e) \in Seq(Event) /\ wire[s] \in Seq(Event)
    BY <1>1
  <2> QED
    BY <2>1
<1>4. ASSUME NEW s \in Streams, stream[s].at = "open"
      PROVE  stream[s].seen <= sequence' /\ wire'[s] = After(log'[stream[s].o], stream[s].seen)
  <2>1. /\ stream[s].seen \in Nat /\ stream[s].seen <= sequence /\ stream[s].o \in Orders
        /\ wire[s] = After(log[stream[s].o], stream[s].seen)
    BY <1>4, StreamFields DEF StreamsOK, StreamsAreGapless
  <2>2. CASE stream[s].o = o
    <3>1. e.id > stream[s].seen
      BY <1>1, <2>1
    <3>2. After(Append(log[o], e), stream[s].seen) = Append(After(log[o], stream[s].seen), e)
      BY <1>1, <2>1, <3>1, AfterGrows
    <3>3. wire'[s] = Append(wire[s], e)
      BY <1>4, <2>2
    <3>4. wire'[s] = After(log'[stream[s].o], stream[s].seen)
      BY <1>2, <2>1, <2>2, <3>2, <3>3, Zenon
    <3> QED
      BY <1>1, <2>1, <3>4
  <2>3. CASE stream[s].o # o
    BY <1>1, <1>2, <1>4, <2>1, <2>3
  <2> QED
    BY <2>2, <2>3
<1> QED
  BY <1>3, <1>4 DEF StreamsOK, StreamsAreGapless

(* Only this stream has changed, and it is as it should be. *)
LEMMA OneStreamMoves ==
  ASSUME StreamsOK, NEW s \in Streams, NEW x \in {Closed} \cup Asked \cup Subscribed, NEW w \in Seq(Event),
         stream' = [stream EXCEPT ![s] = x], wire' = [wire EXCEPT ![s] = w],
         sequence' = sequence, log' = log,
         x.at = "open" => x.seen <= sequence /\ w = After(log[x.o], x.seen)
  PROVE  StreamsOK'
<1> HIDE DEF Event
<1>1. /\ stream' \in [Streams -> {Closed} \cup Asked \cup Subscribed] /\ wire' \in [Streams -> Seq(Event)]
      /\ stream'[s] = x /\ wire'[s] = w
      /\ \A t \in Streams \ {s} : stream'[t] = stream[t] /\ wire'[t] = wire[t]
  BY DEF StreamsOK
<1>2. ASSUME NEW t \in Streams, stream'[t].at = "open"
      PROVE  stream'[t].seen <= sequence /\ wire'[t] = After(log[stream'[t].o], stream'[t].seen)
  <2>1. CASE t = s
    BY <1>1, <1>2, <2>1
  <2>2. CASE t # s
    <3>1. stream'[t] = stream[t] /\ wire'[t] = wire[t]
      BY <1>1, <2>2
    <3> QED
      BY <1>2, <3>1 DEF StreamsOK, StreamsAreGapless
  <2> QED
    BY <2>1, <2>2
<1> QED
  BY <1>1, <1>2 DEF StreamsOK, StreamsAreGapless

LEMMA OpenKeepsStreams ==
  ASSUME FeedOK, StreamsOK, NEW s \in Streams, Open(s)
  PROVE  StreamsOK'
<1> DEFINE o == stream[s].o
           last == stream[s].last
           from == IF last = NoCursor \/ last > sequence THEN sequence ELSE last
           x == [at |-> "open", o |-> o, seen |-> from]
           w == Replayed(s)
<1>1. stream[s].at = "asked" /\ w # Gone /\ sequence' = sequence /\ log' = log
  BY DEF Open, feed
<1>2. o \in Orders /\ last \in Nat \cup {NoCursor} /\ sequence \in Nat
  BY <1>1, StreamFields DEF StreamsOK, FeedOK
<1>3. from \in Nat /\ from <= sequence /\ x \in Subscribed /\ x.at = "open" /\ x.o = o /\ x.seen = from
  BY <1>2 DEF Subscribed
<1>4. stream' = [stream EXCEPT ![s] = x] /\ wire' = [wire EXCEPT ![s] = w]
  BY DEF Open, Opened
<1>5. Growing(log[o]) /\ \A i \in 1..Len(log[o]) : log[o][i].id \in 1..sequence
  BY <1>2, OrdersFeed DEF FeedOK
<1>6. w = After(log[o], from)
  <2>1. CASE last = NoCursor \/ last > sequence
    <3>1. w = <<>> /\ from = sequence
      BY <2>1 DEF Replayed, Replay
    <3>2. \A i \in 1..Len(log[o]) : log[o][i].id <= sequence
      BY <1>2, <1>5
    <3>3. After(log[o], sequence) = <<>>
      BY <1>2, <1>5, <3>2, NothingAfterTheLast
    <3> QED
      BY <3>1, <3>3
  <2>2. CASE ~(last = NoCursor \/ last > sequence)
    <3>1. last \in 0..sequence /\ from = last /\ w = Replay(o, last)
      BY <1>2, <2>2 DEF Replayed
    <3>2. ReplayIsExact
      BY RepliesAreExact
    <3>3. Replay(o, last) = IF Len(After(log[o], last)) > capacity THEN Gone ELSE After(log[o], last)
      BY <1>2, <3>1, <3>2 DEF ReplayIsExact
    <3> QED
      BY <1>1, <3>1, <3>3
  <2> QED
    BY <2>1, <2>2
<1>7. w \in Seq(Event)
  BY <1>3, <1>5, <1>6, AfterIsEvents
<1> HIDE DEF x, w, from, o
<1> QED
  BY <1>1, <1>3, <1>4, <1>6, <1>7, OneStreamMoves

LEMMA ReceiveKeepsStreams ==
  ASSUME FeedOK, StreamsOK, NEW s \in Streams, Receive(s)
  PROVE  StreamsOK'
<1> DEFINE o == stream[s].o
           event == Head(wire[s])
           x == [stream[s] EXCEPT !.seen = event.id]
           w == Tail(wire[s])
<1>1. /\ stream[s].at = "open" /\ wire[s] # <<>> /\ sequence' = sequence /\ log' = log
      /\ wire' = [wire EXCEPT ![s] = w]
  BY DEF Receive, feed, StreamsOK
<1>2. stream' = [stream EXCEPT ![s] = x]
  BY DEF Receive, StreamsOK
<1>3. o \in Orders /\ stream[s].seen \in Nat /\ stream[s] \in Subscribed
  BY <1>1, StreamFields DEF StreamsOK, Closed, Asked
<1>4. wire[s] = After(log[o], stream[s].seen)
  BY <1>1 DEF StreamsOK, StreamsAreGapless
<1>5. Growing(log[o]) /\ \A i \in 1..Len(log[o]) : log[o][i].id \in 1..sequence
  BY <1>3, OrdersFeed DEF FeedOK
<1>6. /\ \E i \in 1..Len(log[o]) : event = log[o][i]
      /\ After(log[o], event.id) = w
  BY <1>1, <1>3, <1>4, <1>5, AfterTheNext
<1>7. event.id \in Nat /\ event.id <= sequence
  <2>1. sequence \in Nat
    BY DEF FeedOK
  <2> QED
    BY <1>5, <1>6, <2>1
<1>8. w \in Seq(Event)
  BY <1>5, <1>6, <1>7, AfterIsEvents
<1>9. x \in Subscribed /\ x.at = "open" /\ x.o = o /\ x.seen = event.id
  <2> HIDE DEF event
  <2> QED
    BY <1>1, <1>3, <1>7 DEF Subscribed
<1> HIDE DEF x, w, event, o
<1> QED
  BY <1>1, <1>2, <1>6, <1>7, <1>8, <1>9, OneStreamMoves

LEMMA StreamActionsKeep ==
  ASSUME FeedOK, StreamsOK, MaxEvents \in Nat, NEW s \in Streams,
         \/ \E o \in Orders, last \in 0..(MaxEvents + 1) \cup {NoCursor} : Ask(s, o, last)
         \/ Open(s) \/ Refuse(s) \/ Receive(s) \/ CloseStream(s)
  PROVE  StreamsOK'
<1>1. wire[s] \in Seq(Event) /\ wire = [wire EXCEPT ![s] = wire[s]] /\ <<>> \in Seq(Event)
  <2> HIDE DEF Event
  <2> QED
    BY DEF StreamsOK
<1>2. Closed \in {Closed} \cup Asked \cup Subscribed /\ Closed.at = "closed"
  BY DEF Closed
<1>3. ASSUME NEW o \in Orders, NEW last \in 0..(MaxEvents + 1) \cup {NoCursor}, Ask(s, o, last)
      PROVE  StreamsOK'
  <2> DEFINE x == [at |-> "asked", o |-> o, last |-> last]
  <2>1. x \in Asked /\ x.at = "asked"
    BY DEF Asked
  <2>2. stream' = [stream EXCEPT ![s] = x] /\ wire' = wire /\ sequence' = sequence /\ log' = log
    BY <1>3 DEF Ask, feed
  <2> HIDE DEF x
  <2> QED
    BY <1>1, <2>1, <2>2, OneStreamMoves
<1>4. CASE Refuse(s)
  <2>1. stream' = [stream EXCEPT ![s] = Closed] /\ wire' = wire /\ sequence' = sequence /\ log' = log
    BY <1>4 DEF Refuse, feed
  <2> QED
    BY <1>1, <1>2, <2>1, OneStreamMoves
<1>5. CASE CloseStream(s)
  <2>1. stream' = [stream EXCEPT ![s] = Closed] /\ wire' = [wire EXCEPT ![s] = <<>>]
        /\ sequence' = sequence /\ log' = log
    BY <1>5 DEF CloseStream, feed
  <2> QED
    BY <1>1, <1>2, <2>1, OneStreamMoves
<1> QED
  BY <1>3, <1>4, <1>5, OpenKeepsStreams, ReceiveKeepsStreams

(* The sockets, and all of it together. *)
SocketsOK ==
  /\ socket \in [Sockets -> {"new", "connected", "gone"}]
  /\ joining \in [Sockets -> Orders \cup {NoRoom}] /\ rooms \in [Sockets -> SUBSET Orders]
  /\ GoneSocketsLeave

ServerOK == ChangesOK /\ FeedOK /\ StreamsOK /\ SocketsOK /\ restarts \in 0..MaxRestarts

LEMMA ServerIsSafe == ServerOK => FeedInv /\ StreamsAreGapless
BY RepliesAreExact
DEF ServerOK, ChangesOK, FeedOK, StreamsOK, SocketsOK, FeedInv, FeedTypeOK

LEMMA ChangesRest ==
  ASSUME ChangesOK, UNCHANGED changes, UNCHANGED log
  PROVE  ChangesOK'
BY DEF ChangesOK, changes, TurnsAreTaken, FoundAsLeft, EventsFollowCommits, Before, Settled

LEMMA FeedRests ==
  ASSUME FeedOK, UNCHANGED feed
  PROVE  FeedOK'
BY DEF FeedOK, feed, RingKeepsLatest

LEMMA StreamsRest ==
  ASSUME StreamsOK, UNCHANGED streaming, UNCHANGED <<log, sequence>>
  PROVE  StreamsOK'
BY DEF StreamsOK, streaming, StreamsAreGapless

LEMMA SocketsRest ==
  ASSUME SocketsOK, UNCHANGED socketing
  PROVE  SocketsOK'
BY DEF SocketsOK, socketing, GoneSocketsLeave

LEMMA SocketActionsKeep ==
  ASSUME SocketsOK, NEW k \in Sockets,
         \/ Connect(k) \/ Disconnect(k) \/ Joined(k) \/ JoinRefused(k)
         \/ \E o \in Orders : Join(k, o)
  PROVE  SocketsOK'
<1>1. CASE Connect(k)
  BY <1>1 DEF SocketsOK, Connect, GoneSocketsLeave
<1>2. CASE Disconnect(k)
  BY <1>2 DEF SocketsOK, Disconnect, GoneSocketsLeave
<1>3. CASE Joined(k)
  BY <1>3 DEF SocketsOK, Joined, GoneSocketsLeave
<1>4. CASE JoinRefused(k)
  BY <1>4 DEF SocketsOK, JoinRefused, GoneSocketsLeave
<1>5. ASSUME NEW o \in Orders, Join(k, o) PROVE SocketsOK'
  BY <1>5 DEF SocketsOK, Join, GoneSocketsLeave
<1> QED
  BY <1>1, <1>2, <1>3, <1>4, <1>5

(* The process starts, for the first time or anew. *)
Started ==
  /\ status \in [Orders -> Statuses] /\ base = status /\ missed = {}
  /\ tails = [o \in Orders |-> <<>>] /\ change = [c \in Calls |-> Idle]
  /\ sequence = 0 /\ histories = [o \in Orders |-> EmptyRing] /\ log = [o \in Orders |-> <<>>]
  /\ stream = [s \in Streams |-> Closed] /\ wire = [s \in Streams |-> <<>>]

LEMMA NothingYet ==
         /\ EmptyRing \in Ring
         /\ [o \in Orders |-> <<>>] \in [Orders -> Seq(Calls)]
         /\ [o \in Orders |-> <<>>] \in [Orders -> Seq(Event)]
         /\ [s \in Streams |-> <<>>] \in [Streams -> Seq(Event)]
<1>1. capacity \in Nat /\ capacity > 0
  BY CapacityAssumption
<1> HIDE DEF Event
<1>2. EmptyRing \in Ring
  BY <1>1 DEF EmptyRing, Ring
<1> QED
  BY <1>2

LEMMA StartIsSafe == Started => ChangesOK /\ FeedOK /\ StreamsOK
<1> SUFFICES ASSUME Started PROVE ChangesOK /\ FeedOK /\ StreamsOK
  OBVIOUS
<1>1. capacity \in Nat /\ capacity > 0
  BY CapacityAssumption
<1>2. /\ EmptyRing \in Ring /\ EmptyRing.size = 0 /\ EmptyRing.evictedThrough = 0
      /\ tails \in [Orders -> Seq(Calls)] /\ log \in [Orders -> Seq(Event)] /\ wire \in [Streams -> Seq(Event)]
  <2>1. EmptyRing.size = 0 /\ EmptyRing.evictedThrough = 0
    BY DEF EmptyRing
  <2> QED
    BY <2>1, NothingYet DEF Started
<1>3. ChangesOK
  BY <1>2 DEF Started, ChangesOK, TurnsAreTaken, FoundAsLeft, EventsFollowCommits, Before, Idle
<1>4. FeedOK
  <2>1. RingKeepsLatest
    <3>1. \A o \in Orders : log[o] \in Seq(Event) /\ Len(log[o]) = 0 /\ histories[o] = EmptyRing
      BY <1>2 DEF Started
    <3>2. \A o \in Orders : Growing(log[o]) /\ RingHolds(histories[o], log[o])
      <4> TAKE o \in Orders
      <4> DEFINE events == log[o]
                 ring == histories[o]
                 n == Len(events)
      <4>1. events \in Seq(Event) /\ n = 0 /\ ring.size = 0 /\ ring.evictedThrough = 0
        BY <1>2, <3>1
      <4> HIDE DEF events, ring, Event
      <4>2. Growing(events)
        BY <4>1 DEF Growing
      <4>3. /\ ring.size = (IF n < capacity THEN n ELSE capacity)
            /\ ring.evictedThrough = (IF n <= capacity THEN 0 ELSE events[n - capacity].id)
        BY <1>1, <4>1
      <4>4. \A k \in 1..ring.size : FALSE
        BY <4>1
      <4>5. RingHolds(ring, events)
        BY <4>3, <4>4, Zenon DEF RingHolds
      <4> QED
        BY <4>2, <4>5 DEF events, ring
    <3> QED
      BY <1>2, <3>1, <3>2, OrdersFeed
  <2> QED
    BY <1>2, <2>1 DEF FeedOK, Started
<1>5. StreamsOK
  BY <1>2 DEF Started, StreamsOK, StreamsAreGapless, Closed
<1> QED
  BY <1>3, <1>4, <1>5

LEMMA FeedStep == ServerOK /\ [FeedNext]_feedVars => ServerOK'
<1> SUFFICES ASSUME ServerOK, [FeedNext]_feedVars PROVE ServerOK'
  OBVIOUS
<1>1. ChangesOK /\ FeedOK /\ StreamsOK /\ SocketsOK /\ restarts \in 0..MaxRestarts /\ sequence \in Nat
      /\ MaxEvents \in Nat /\ MaxRestarts \in Nat
  BY BoundsAssumption DEF ServerOK, FeedOK
<1>2. ASSUME NEW c \in Calls,
             \/ \E o \in Orders, want \in Statuses : ChangeStatus(c, o, want)
             \/ Lock(c) \/ Commit(c) \/ FinishChange(c) \/ CommitUnanswered(c) \/ Fail(c)
      PROVE  ServerOK'
  <2>1. UNCHANGED feed /\ UNCHANGED streaming /\ UNCHANGED socketing /\ restarts' = restarts
    BY <1>2 DEF ChangeStatus, Lock, Commit, FinishChange, CommitUnanswered, Fail
  <2>2. ChangesOK'
    BY <1>1, <1>2, ChangeStatusKeeps, LockKeeps, CommitKeeps, FinishChangeKeeps, CommitUnansweredKeeps, FailKeeps
  <2>3. log' = log /\ sequence' = sequence
    BY <2>1 DEF feed
  <2> QED
    BY <1>1, <2>1, <2>2, <2>3, FeedRests, StreamsRest, SocketsRest DEF ServerOK
<1>3. ASSUME NEW c \in Calls, PublishEvent(c) PROVE ServerOK'
  <2> DEFINE o == change[c].o
             event == [id |-> sequence + 1, previous |-> change[c].previous, status |-> change[c].want]
  <2>1. o \in Orders /\ event \in Event /\ event.id = sequence + 1
    <3>1. change[c].at # "idle" /\ change[c] \in {Idle} \cup Busy
      BY <1>1, <1>3 DEF PublishEvent, ChangesOK
    <3> QED
      BY <1>1, <3>1, BusyFields DEF Event
  <2>2. /\ sequence' = sequence + 1 /\ histories' = [histories EXCEPT ![o] = AddToRing(@, event)]
        /\ log' = [log EXCEPT ![o] = Append(@, event)] /\ stream' = stream
        /\ wire' = [s \in Streams |-> IF stream[s].at = "open" /\ stream[s].o = o
                                      THEN Append(wire[s], event) ELSE wire[s]]
        /\ UNCHANGED socketing /\ restarts' = restarts
    BY <1>3 DEF PublishEvent
  <2>3. ChangesOK'
    BY <1>1, <1>3, PublishEventKeeps
  <2> HIDE DEF event, o
  <2>4. FeedOK' /\ Growing(Append(log[o], event))
    BY <1>1, <2>1, <2>2, PublishingKeepsTheFeed
  <2>5. StreamsOK'
    BY <1>1, <2>1, <2>2, <2>4, PublishingReachesStreams
  <2> QED
    BY <1>1, <2>2, <2>3, <2>4, <2>5, SocketsRest DEF ServerOK
<1>4. ASSUME NEW s \in Streams,
             \/ \E o \in Orders, last \in 0..(MaxEvents + 1) \cup {NoCursor} : Ask(s, o, last)
             \/ Open(s) \/ Refuse(s) \/ Receive(s) \/ CloseStream(s)
      PROVE  ServerOK'
  <2>1. UNCHANGED changes /\ UNCHANGED feed /\ UNCHANGED socketing /\ restarts' = restarts
    BY <1>4 DEF Ask, Open, Refuse, Receive, CloseStream
  <2>2. StreamsOK'
    BY <1>1, <1>4, StreamActionsKeep
  <2>3. log' = log
    BY <2>1 DEF feed
  <2> QED
    BY <1>1, <2>1, <2>2, <2>3, ChangesRest, FeedRests, SocketsRest DEF ServerOK
<1>5. ASSUME NEW k \in Sockets,
             \/ Connect(k) \/ Disconnect(k) \/ Joined(k) \/ JoinRefused(k)
             \/ \E o \in Orders : Join(k, o)
      PROVE  ServerOK'
  <2>1. UNCHANGED changes /\ UNCHANGED feed /\ UNCHANGED streaming /\ restarts' = restarts
    BY <1>5 DEF Connect, Disconnect, Joined, JoinRefused, Join
  <2>2. log' = log /\ sequence' = sequence
    BY <2>1 DEF feed
  <2> QED
    BY <1>1, <1>5, <2>1, <2>2, ChangesRest, FeedRests, StreamsRest, SocketActionsKeep DEF ServerOK
<1>6. CASE PublishElsewhere
  <2>1. /\ UNCHANGED changes /\ UNCHANGED streaming /\ UNCHANGED socketing /\ restarts' = restarts
        /\ sequence' = sequence + 1 /\ histories' = histories /\ log' = log
    BY <1>6 DEF PublishElsewhere
  <2>2. FeedOK'
    <3>1. \A o \in Orders : Len(log[o]) \in Nat
      BY OrdersFeed, EventsOf DEF FeedOK, ServerOK
    <3> QED
      BY <1>1, <2>1, <3>1 DEF FeedOK, RingKeepsLatest
  <2>3. StreamsOK'
    <3>1. \A s \in Streams : stream[s].at = "open" => stream[s].seen \in Nat
      BY <1>1, StreamFields DEF StreamsOK
    <3> QED
      BY <1>1, <2>1, <3>1 DEF StreamsOK, streaming, StreamsAreGapless
  <2> QED
    BY <1>1, <2>1, <2>2, <2>3, ChangesRest, SocketsRest DEF ServerOK
<1>7. CASE Restart
  <2>1. /\ status' = status /\ base' = status' /\ missed' = {}
        /\ tails' = [o \in Orders |-> <<>>] /\ change' = [c \in Calls |-> Idle] /\ sequence' = 0
        /\ histories' = [o \in Orders |-> EmptyRing] /\ log' = [o \in Orders |-> <<>>]
        /\ stream' = [s \in Streams |-> Closed] /\ wire' = [s \in Streams |-> <<>>]
        /\ restarts < MaxRestarts /\ restarts' = restarts + 1
    BY <1>7 DEF Restart
  <2>2. (ChangesOK /\ FeedOK /\ StreamsOK)'
    <3>1. Started'
      BY <1>1, <2>1 DEF ChangesOK, Started
    <3> QED
      BY <3>1, StartIsSafe, PTL
  <2>3. SocketsOK'
    BY <1>1, <1>7 DEF SocketsOK, Restart, GoneSocketsLeave
  <2> QED
    BY <1>1, <2>1, <2>2, <2>3 DEF ServerOK
<1>8. CASE UNCHANGED feedVars
  <2>1. /\ UNCHANGED changes /\ UNCHANGED feed /\ UNCHANGED streaming /\ UNCHANGED socketing
        /\ restarts' = restarts
    BY <1>8 DEF feedVars
  <2>2. log' = log /\ sequence' = sequence
    BY <2>1 DEF feed
  <2> QED
    BY <1>1, <2>1, <2>2, ChangesRest, FeedRests, StreamsRest, SocketsRest DEF ServerOK
<1> QED
  BY <1>2, <1>3, <1>4, <1>5, <1>6, <1>7, <1>8 DEF FeedNext, Advance

LEMMA FeedStarts == FeedInit => ServerOK
<1> SUFFICES ASSUME FeedInit PROVE ServerOK
  OBVIOUS
<1>1. ChangesOK /\ FeedOK /\ StreamsOK
  BY StartIsSafe DEF FeedInit, Started
<1>2. SocketsOK /\ restarts \in 0..MaxRestarts
  BY BoundsAssumption DEF FeedInit, SocketsOK, GoneSocketsLeave
<1> QED
  BY <1>1, <1>2 DEF ServerOK

(* The feed is exact for every number of orders, calls and streams and every   *)
(* size of ring: an order's events follow its commits, and replay() returns     *)
(* exactly the later events of the order or says that some are no longer kept.  *)
THEOREM FeedIsExact == FeedSpec => []FeedInv
<1>1. ServerOK => FeedInv
  BY ServerIsSafe
<1> QED
  BY <1>1, FeedStarts, FeedStep, PTL DEF FeedSpec

(* Replay and subscription leave no gap in a stream and repeat nothing. *)
THEOREM StreamsHaveNoGap == FeedSpec => []StreamsAreGapless
<1>1. ServerOK => StreamsAreGapless
  BY ServerIsSafe
<1> QED
  BY <1>1, FeedStarts, FeedStep, PTL DEF FeedSpec

-----------------------------------------------------------------------------
(* What a slice of a sequence is. *)
IsSlice(piece, s, from, n) ==
  /\ Len(piece) = IF Len(s) < from + n THEN Len(s) - from ELSE n
  /\ \A i \in 1..Len(piece) : from + i \in 1..Len(s) /\ piece[i] = s[from + i]

LEMMA SliceIs ==
  ASSUME NEW S, NEW s \in Seq(S), NEW from \in Nat, NEW n \in Nat, from <= Len(s)
  PROVE  Slice(s, from, n) \in Seq(S) /\ IsSlice(Slice(s, from, n), s, from, n)
<1> DEFINE stop == IF Len(s) < from + n THEN Len(s) ELSE from + n
           piece == Slice(s, from, n)
<1>1. Len(s) \in Nat /\ stop \in Nat /\ from <= stop /\ stop <= Len(s)
  OBVIOUS
<1>2. piece = SubSeq(s, from + 1, stop)
  BY DEF Slice
<1> HIDE DEF stop, piece
<1>3. /\ piece \in Seq(S) /\ Len(piece) = stop - from
      /\ \A i \in 1..(stop - from) : piece[i] = s[from + i]
  BY <1>1, <1>2
<1>4. \A i \in 1..(stop - from) : from + i \in 1..Len(s)
  BY <1>1
<1>5. Len(piece) = IF Len(s) < from + n THEN Len(s) - from ELSE n
  BY <1>1, <1>3 DEF stop
<1>6. piece \in Seq(S) /\ IsSlice(piece, s, from, n)
  BY <1>3, <1>4, <1>5 DEF IsSlice
<1> QED
  BY <1>6 DEF piece

LEMMA PagingInitOK == PagingInit => PagingInv
<1> SUFFICES ASSUME PagingInit PROVE PagingInv
  OBVIOUS
<1> USE DEF PagingInit
<1>1. MaxRows \in Nat \ {0} /\ MaxPage \in Nat \ {0}
  BY PagingAssumption
<1>2. PagingTypeOK
  BY <1>1 DEF PagingTypeOK, Ids
<1>3. shown = <<>> /\ ToSet(shown) = {}
  BY DEF ToSet
<1>4. PagesAreExact
  BY <1>3 DEF PagesAreExact
<1>5. CursorIsLastShown
  BY <1>1, <1>3 DEF CursorIsLastShown, Ids
<1> QED
  BY <1>2, <1>4, <1>5 DEF PagingInv

(* What a walk has seen stays there: a committed row is never taken back. *)
LEMMA RowsKeepPages ==
  ASSUME PagingInv, InsertRow \/ \E i \in Ids : EndInsert(i)
  PROVE  PagingInv'
<1>1. MaxRows \in Nat \ {0} /\ MaxPage \in Nat \ {0}
  BY PagingAssumption
<1>2. /\ UNCHANGED <<list, walk, shown, atStart>>
      /\ row' \in [Ids -> {"none", "inserted", "committed", "rolledBack"}]
      /\ idSequence' \in {0} \cup Ids
      /\ \A i \in Ids : row[i] = "committed" => row'[i] = "committed"
      /\ \A i \in Ids : row'[i] = "none" <=> i > idSequence'
      /\ list.of = "contract" => \A i \in Ids : i <= idSequence' => row'[i] = "committed"
  <2>1. CASE InsertRow
    BY <1>1, <2>1 DEF PagingInv, PagingTypeOK, CursorIsLastShown, InsertRow, Ids
  <2>2. CASE \E i \in Ids : EndInsert(i)
    <3>1. PICK i \in Ids : EndInsert(i)
      BY <2>2
    <3>2. list.of # "contract"
      BY <1>1, <3>1 DEF PagingInv, PagingTypeOK, CursorIsLastShown, EndInsert, Ids
    <3> QED
      BY <3>1, <3>2 DEF PagingInv, PagingTypeOK, CursorIsLastShown, EndInsert
  <2> QED
    BY <2>1, <2>2, Zenon
<1>3. Listed \subseteq Listed'
  BY <1>2 DEF Listed
<1>4. ToSet(shown') = ToSet(shown)
  BY <1>2
<1>5. PagingTypeOK'
  BY <1>2 DEF PagingInv, PagingTypeOK
<1>6. PagesAreExact'
  BY <1>2, <1>3, <1>4 DEF PagingInv, PagesAreExact
<1>7. CursorIsLastShown'
  BY <1>2, <1>3, <1>4 DEF PagingInv, CursorIsLastShown
<1> QED
  BY <1>5, <1>6, <1>7 DEF PagingInv

LEMMA StartKeepsPages == ASSUME PagingInv, StartWalk PROVE PagingInv'
<1>1. /\ UNCHANGED <<row, idSequence, list, shown>> /\ walk.at = "idle" /\ atStart' = Listed
      /\ walk' \in [at : {"idle", "page", "done"}, after : {0} \cup Ids]
      /\ walk'.after = walk.after /\ walk'.at = "page"
  BY DEF PagingInv, PagingTypeOK, StartWalk, rowVars
<1>2. shown = <<>> /\ ToSet(shown) = {} /\ walk.after = 0
  BY <1>1 DEF PagingInv, CursorIsLastShown, ToSet
<1>3. Listed' = Listed /\ Listed \subseteq Ids
  BY <1>1 DEF Listed
<1>4. ToSet(shown') = {} /\ Len(shown') = 0
  BY <1>1, <1>2
<1>5. PagingTypeOK'
  BY <1>1, <1>3 DEF PagingInv, PagingTypeOK
<1>6. PagesAreExact'
  <2>1. {i \in atStart' : i <= walk'.after} = {}
    <3>1. \A i \in Listed : i \in Nat /\ ~(i <= 0)
      BY <1>3, PagingAssumption DEF Ids
    <3>2. atStart' = Listed /\ walk'.after = 0
      BY <1>1, <1>2
    <3> QED
      BY <3>1, <3>2, Zenon
  <2> QED
    BY <1>1, <1>4, <2>1 DEF PagesAreExact
<1>7. CursorIsLastShown'
  BY <1>1, <1>2, <1>3, <1>4 DEF PagingInv, CursorIsLastShown
<1> QED
  BY <1>5, <1>6, <1>7 DEF PagingInv

(* What the items of a page have to be: an ascending run of the rows after    *)
(* the cursor that leaves none of them out before its last.                    *)
Follows(items, hasMore) ==
  /\ items \in Seq(Ids)
  /\ \A i, j \in 1..Len(items) : i < j => items[i] < items[j]
  /\ \A i \in 1..Len(items) : items[i] \in Listed /\ items[i] > walk.after
  /\ hasMore => items # <<>>
  /\ \A i \in Listed : i > walk.after /\ (hasMore => i <= items[Len(items)])
                         => \E pos \in 1..Len(items) : items[pos] = i

LEMMA ShowKeepsPages ==
  ASSUME PagingInv, NEW items, NEW hasMore \in BOOLEAN, Follows(items, hasMore),
         Show(items, hasMore)
  PROVE  PagingInv'
<1> DEFINE before == Len(shown)
           count == Len(items)
<1>1. /\ shown \in Seq(Ids) /\ items \in Seq(Ids) /\ before \in Nat /\ count \in Nat
      /\ shown' = shown \o items /\ UNCHANGED <<row, idSequence, list, atStart>>
      /\ walk.at = "page" /\ walk.after \in Nat
  BY PagingAssumption DEF PagingInv, PagingTypeOK, Follows, Show, rowVars, Ids
<1>2. /\ shown' \in Seq(Ids) /\ Len(shown') = before + count
      /\ \A i \in 1..before : shown'[i] = shown[i]
      /\ \A i \in 1..count : shown'[before + i] = items[i]
  BY <1>1
<1>3. /\ ToSet(shown) = {shown[i] : i \in 1..before}
      /\ ToSet(items) = {items[i] : i \in 1..count}
      /\ ToSet(shown') = {shown'[i] : i \in 1..(before + count)}
  BY <1>1, <1>2 DEF ToSet
<1>4. Listed' = Listed /\ Listed \subseteq Ids /\ Ids \subseteq Nat \ {0}
  BY <1>1, PagingAssumption DEF Listed, Ids
<1>5. /\ walk' \in [at : {"idle", "page", "done"}, after : {0} \cup Ids]
      /\ walk'.at # "idle" /\ walk'.after \in Nat
      /\ hasMore => count > 0 /\ walk'.after = items[count] /\ walk'.at = "page"
      /\ ~hasMore => walk'.after = walk.after /\ walk'.at = "done"
  <2>1. CASE hasMore
    <3>1. count > 0 /\ items[count] \in Ids /\ Last(items) = items[count]
      BY <1>1, <2>1 DEF Follows, Last
    <3>2. walk' = [at |-> "page", after |-> items[count]]
      BY <2>1, <3>1 DEF Show
    <3> QED
      BY <1>4, <2>1, <3>1, <3>2
  <2>2. CASE ~hasMore
    BY <1>1, <2>2 DEF Show, PagingInv, PagingTypeOK
  <2> QED
    BY <2>1, <2>2
<1>6. ToSet(shown') = ToSet(shown) \cup ToSet(items)
  <2>1. ASSUME NEW i \in 1..(before + count)
        PROVE  shown'[i] \in ToSet(shown) \cup ToSet(items)
    <3>1. CASE i <= before
      BY <1>1, <1>2, <1>3, <3>1
    <3>2. CASE i > before
      <4>1. i - before \in 1..count /\ i = before + (i - before)
        BY <1>1, <3>2
      <4> QED
        BY <1>2, <1>3, <4>1
    <3> QED
      BY <1>1, <3>1, <3>2
  <2>2. \A i \in 1..before : shown[i] \in ToSet(shown')
    <3>1. ASSUME NEW i \in 1..before PROVE shown[i] = shown'[i] /\ i \in 1..(before + count)
      BY <1>1, <1>2
    <3> QED
      BY <1>3, <3>1
  <2>3. \A i \in 1..count : items[i] \in ToSet(shown')
    <3>1. ASSUME NEW i \in 1..count PROVE items[i] = shown'[before + i] /\ before + i \in 1..(before + count)
      BY <1>1, <1>2
    <3> QED
      BY <1>3, <3>1
  <2> QED
    BY <1>3, <2>1, <2>2, <2>3
<1> HIDE DEF before, count
<1>7. /\ \A i, j \in 1..before : i < j => shown[i] < shown[j]
      /\ \A i \in 1..before : shown[i] \in Ids /\ shown[i] <= walk.after
      /\ ToSet(shown) \subseteq Listed
      /\ {i \in atStart : i <= walk.after} \subseteq ToSet(shown)
      /\ walk.after \in {0} \cup ToSet(shown) /\ atStart \subseteq Listed
  BY <1>1 DEF before, PagingInv, PagesAreExact, CursorIsLastShown
<1>8. /\ \A i, j \in 1..count : i < j => items[i] < items[j]
      /\ \A i \in 1..count : items[i] \in Listed /\ items[i] > walk.after
      /\ \A i \in Listed : i > walk.after /\ (hasMore => i <= items[count]) => i \in ToSet(items)
  BY <1>3 DEF count, Follows
<1>9. PagingTypeOK'
  BY <1>1, <1>2, <1>5 DEF PagingInv, PagingTypeOK
<1>10. PagesAreExact'
  <2>1. ASSUME NEW i \in 1..(before + count), NEW j \in 1..(before + count), i < j
        PROVE  shown'[i] < shown'[j]
    <3>1. CASE j <= before
      BY <1>1, <1>2, <1>7, <2>1, <3>1
    <3>2. CASE i <= before /\ before < j
      <4>1. j - before \in 1..count /\ j = before + (j - before) /\ i \in 1..before
        BY <1>1, <3>2
      <4>2. shown'[j] = items[j - before] /\ shown'[i] = shown[i]
        BY <1>2, <4>1
      <4>3. items[j - before] > walk.after /\ shown[i] <= walk.after
        BY <1>7, <1>8, <4>1
      <4>4. items[j - before] \in Nat /\ shown[i] \in Nat
        BY <1>4, <1>7, <1>8, <4>1
      <4> QED
        BY <1>1, <4>2, <4>3, <4>4
    <3>3. CASE before < i
      <4>1. /\ i - before \in 1..count /\ i = before + (i - before)
            /\ j - before \in 1..count /\ j = before + (j - before) /\ i - before < j - before
        BY <1>1, <2>1, <3>3
      <4> QED
        BY <1>2, <1>8, <4>1
    <3>4. j <= before \/ (i <= before /\ before < j) \/ before < i
      BY <1>1
    <3> QED
      BY <3>1, <3>2, <3>3, <3>4, Zenon
  <2>2. ToSet(shown') \subseteq Listed
    BY <1>3, <1>6, <1>7, <1>8
  <2>3. ASSUME NEW i \in atStart, i <= walk'.after \/ walk'.at = "done"
        PROVE  i \in ToSet(shown')
    <3>1. i \in Listed /\ i \in Nat
      BY <1>4, <1>7
    <3>2. CASE i <= walk.after
      BY <1>6, <1>7, <3>2
    <3>3. CASE i > walk.after
      <4>1. hasMore => i <= items[count]
        BY <1>5, <2>3
      <4> QED
        BY <1>6, <1>8, <3>1, <3>3, <4>1
    <3> QED
      BY <1>1, <3>1, <3>2, <3>3
  <2> QED
    BY <1>1, <1>2, <1>4, <2>1, <2>2, <2>3 DEF PagesAreExact
<1>11. CursorIsLastShown'
  <2>1. walk'.after \in {0} \cup ToSet(shown')
    <3>1. CASE hasMore
      <4>1. count \in 1..count
        BY <1>1, <1>5, <3>1 DEF count
      <4> QED
        BY <1>3, <1>5, <1>6, <3>1, <4>1
    <3> QED
      BY <1>5, <1>6, <1>7, <3>1
  <2>2. ASSUME walk'.at # "done", NEW i \in 1..(before + count) PROVE shown'[i] <= walk'.after
    <3>1. hasMore /\ count > 0 /\ walk'.after = items[count] /\ count \in 1..count
      BY <1>1, <1>5, <2>2
    <3>2. items[count] \in Nat /\ items[count] > walk.after
      BY <1>4, <1>8, <3>1
    <3>3. CASE i <= before
      <4>1. i \in 1..before
        BY <1>1, <3>3
      <4>2. shown'[i] = shown[i] /\ shown[i] <= walk.after /\ shown[i] \in Nat
        BY <1>2, <1>4, <1>7, <4>1
      <4> QED
        BY <1>1, <3>1, <3>2, <4>2
    <3>4. CASE i > before
      <4>1. i - before \in 1..count /\ i = before + (i - before)
        BY <1>1, <3>4
      <4>2. shown'[i] = items[i - before] /\ items[i - before] \in Nat
        BY <1>2, <1>4, <1>8, <4>1
      <4>3. i - before = count \/ i - before < count
        BY <1>1, <4>1
      <4> QED
        BY <1>8, <3>1, <3>2, <4>1, <4>2, <4>3
    <3>5. i <= before \/ i > before
      BY <1>1
    <3> QED
      BY <3>3, <3>4, <3>5, Zenon
  <2>3. walk'.at # "idle" /\ atStart' = atStart /\ Listed' = Listed
    BY <1>1, <1>4, <1>5
  <2> QED
    BY <1>1, <1>2, <1>7, <2>1, <2>2, <2>3 DEF CursorIsLastShown, PagingInv
<1> QED
  BY <1>9, <1>10, <1>11 DEF PagingInv

LEMMA PageFollows ==
  ASSUME PagingInv, NEW found \in Ordered(walk.after),
         NEW rows, rows = RowsOfPage(found)
  PROVE  Follows(Slice(rows, 0, list.limit), Len(rows) > list.limit)
<1> DEFINE limit == list.limit
           items == Slice(rows, 0, limit)
<1>1. /\ limit \in Nat \ {0} /\ walk.after \in Nat /\ Ids \subseteq Nat \ {0}
      /\ MaxRows \in Nat /\ Listed \subseteq Ids
  BY PagingAssumption DEF PagingInv, PagingTypeOK, Ids, Listed
<1>2. /\ found \in Seq(Ids) /\ Len(found) \in Nat
      /\ \A i, j \in 1..Len(found) : i < j => found[i] < found[j]
      /\ ToSet(found) = {i \in Listed : i > walk.after}
      /\ ToSet(found) = {found[i] : i \in 1..Len(found)}
  <2>1. PICK n \in 0..MaxRows : found \in [1..n -> Ids]
    BY DEF Ordered, Ascending
  <2>2. found \in Seq(Ids) /\ Len(found) \in Nat
    BY <1>1, <2>1
  <2> QED
    BY <2>2 DEF Ordered, Ascending, ToSet
<1>3. /\ rows \in Seq(Ids)
      /\ Len(rows) = IF Len(found) < limit + 1 THEN Len(found) ELSE limit + 1
      /\ \A i \in 1..Len(rows) : i \in 1..Len(found) /\ rows[i] = found[i]
  <2>1. limit + 1 \in Nat /\ 0 \in Nat /\ 0 <= Len(found) /\ rows = Slice(found, 0, limit + 1)
    BY <1>1, <1>2 DEF RowsOfPage
  <2>2. rows \in Seq(Ids) /\ IsSlice(rows, found, 0, limit + 1)
    BY <1>2, <2>1, SliceIs, Zenon
  <2> QED
    BY <1>1, <1>2, <2>2 DEF IsSlice
<1>4. /\ items \in Seq(Ids) /\ Len(rows) \in Nat
      /\ Len(items) = IF Len(rows) < limit THEN Len(rows) ELSE limit
      /\ \A i \in 1..Len(items) : i \in 1..Len(rows) /\ items[i] = rows[i]
  <2>1. Len(rows) \in Nat /\ 0 \in Nat /\ 0 <= Len(rows) /\ limit \in Nat
    BY <1>1, <1>3
  <2>2. items \in Seq(Ids) /\ IsSlice(items, rows, 0, limit)
    BY <1>3, <2>1, SliceIs, Zenon DEF items
  <2> HIDE DEF items, limit
  <2> QED
    BY <2>1, <2>2 DEF IsSlice
<1> HIDE DEF limit, items
<1>5. \A i \in 1..Len(items) : i \in 1..Len(found) /\ items[i] = found[i]
  BY <1>3, <1>4
<1>6. \A i, j \in 1..Len(items) : i < j => items[i] < items[j]
  BY <1>2, <1>5
<1>7. \A i \in 1..Len(items) : items[i] \in Listed /\ items[i] > walk.after
  BY <1>2, <1>5
<1>8. Len(rows) > limit => items # <<>> /\ Len(items) = limit
  BY <1>1, <1>3, <1>4
<1>9. ASSUME NEW id \in Listed, id > walk.after,
             Len(rows) > limit => id <= items[Len(items)]
      PROVE  \E i \in 1..Len(items) : items[i] = id
  <2>1. PICK i \in 1..Len(found) : found[i] = id
    BY <1>2, <1>9
  <2>2. i <= Len(items)
    <3>1. CASE Len(rows) > limit
      <4>1. /\ Len(items) = limit /\ limit \in 1..Len(found)
            /\ items[limit] = found[limit] /\ id <= found[limit]
        BY <1>1, <1>3, <1>4, <1>5, <1>8, <1>9, <3>1
      <4>2. id \in Nat /\ found[limit] \in Nat
        BY <1>1, <1>2, <4>1
      <4>3. limit < i => found[limit] < found[i]
        BY <1>2, <2>1, <4>1
      <4> QED
        BY <1>1, <1>2, <2>1, <4>1, <4>2, <4>3
    <3>2. CASE ~(Len(rows) > limit)
      BY <1>1, <1>2, <1>3, <1>4, <2>1, <3>2
    <3> QED
      BY <3>1, <3>2
  <2>3. i \in 1..Len(items)
    BY <1>1, <1>4, <2>1, <2>2
  <2> QED
    BY <1>5, <2>1, <2>3
<1> QED
  BY <1>4, <1>6, <1>7, <1>8, <1>9 DEF Follows, items, limit

LEMMA ContractPageFollows ==
  ASSUME PagingInv, ContractPage
  PROVE  \E items, hasMore : hasMore \in BOOLEAN /\ Follows(items, hasMore) /\ Show(items, hasMore)
<1> DEFINE limit == list.limit
           records == [i \in 1..idSequence |-> i]
           afterIndex == IF walk.after = 0 THEN 0
                         ELSE CHOOSE i \in 1..idSequence : records[i] = walk.after
           items == Slice(records, afterIndex, limit)
           hasMore == afterIndex + Len(items) < idSequence
<1>1. /\ list.of = "contract" /\ Show(items, hasMore)
  BY DEF ContractPage
<1>2. /\ limit \in Nat \ {0} /\ walk.after \in Nat /\ Ids \subseteq Nat \ {0}
      /\ idSequence \in Nat /\ Listed \subseteq Ids /\ idSequence <= MaxRows /\ MaxRows \in Nat
  BY PagingAssumption DEF PagingInv, PagingTypeOK, Ids, Listed
<1>3. \A i \in Ids : i \in Listed <=> i \in 1..idSequence
  <2>1. \A i \in Ids : row[i] = "committed" <=> i \in 1..idSequence
    BY <1>1, <1>2 DEF PagingInv, CursorIsLastShown, Ids
  <2> QED
    BY <1>1, <2>1 DEF Listed
<1>4. walk.after \in 0..idSequence /\ afterIndex = walk.after
  <2>1. walk.after # 0 => walk.after \in Listed
    BY DEF PagingInv, PagesAreExact, CursorIsLastShown
  <2>2. walk.after # 0 => walk.after \in 1..idSequence
    BY <1>2, <1>3, <2>1
  <2>3. walk.after \in 0..idSequence
    BY <1>2, <2>2
  <2>4. CASE walk.after # 0
    <3>1. \E i \in 1..idSequence : records[i] = walk.after
      BY <2>2, <2>4
    <3>2. \A i \in 1..idSequence : records[i] = i
      OBVIOUS
    <3> HIDE DEF records
    <3> QED
      BY <2>3, <2>4, <3>1, <3>2
  <2> QED
    BY <2>3, <2>4
<1>5. records \in Seq(Ids) /\ Len(records) = idSequence /\ \A i \in 1..idSequence : records[i] = i
  <2>1. 1..idSequence \subseteq Ids
    BY <1>2 DEF Ids
  <2> QED
    BY <1>2, <2>1
<1> HIDE DEF records, afterIndex, limit
<1>6. /\ items \in Seq(Ids)
      /\ Len(items) = IF idSequence < walk.after + limit THEN idSequence - walk.after ELSE limit
      /\ \A i \in 1..Len(items) : walk.after + i \in 1..idSequence
                                  /\ items[i] = records[walk.after + i]
  <2>1. limit \in Nat /\ walk.after \in Nat /\ walk.after <= Len(records)
    BY <1>2, <1>4, <1>5
  <2>2. items = Slice(records, walk.after, limit)
    BY <1>4
  <2> HIDE DEF items
  <2>3. items \in Seq(Ids) /\ IsSlice(items, records, walk.after, limit)
    BY <1>5, <2>1, <2>2, SliceIs, Zenon
  <2> QED
    BY <1>5, <2>3 DEF IsSlice
<1> HIDE DEF items
<1>7. Len(items) \in Nat /\ \A i \in 1..Len(items) : items[i] = walk.after + i
  BY <1>5, <1>6
<1>8. \A i, j \in 1..Len(items) : i < j => items[i] < items[j]
  BY <1>2, <1>7
<1>9. \A i \in 1..Len(items) : items[i] \in Listed /\ items[i] > walk.after
  <2>1. ASSUME NEW i \in 1..Len(items) PROVE walk.after + i \in Listed
    BY <1>2, <1>3, <1>6, <2>1, SMTT(30) DEF Ids
  <2> QED
    BY <1>2, <1>7, <2>1
<1>10. hasMore => Len(items) = limit /\ items # <<>>
  BY <1>2, <1>4, <1>6, <1>7
<1>11. ASSUME NEW id \in Listed, id > walk.after, hasMore => id <= items[Len(items)]
       PROVE  \E i \in 1..Len(items) : items[i] = id
  <2>1. id \in Nat /\ id <= idSequence
    BY <1>2, <1>3
  <2>2. hasMore => id <= walk.after + Len(items)
    <3>1. hasMore => Len(items) \in 1..Len(items)
      BY <1>2, <1>7, <1>10
    <3> QED
      BY <1>7, <1>11, <3>1
  <2>3. ~hasMore => idSequence <= walk.after + Len(items)
    BY <1>2, <1>4, <1>7
  <2>4. id - walk.after \in 1..Len(items) /\ walk.after + (id - walk.after) = id
    BY <1>2, <1>7, <1>11, <2>1, <2>2, <2>3
  <2> QED
    BY <1>7, <2>4
<1>12. hasMore \in BOOLEAN
  OBVIOUS
<1> HIDE DEF hasMore
<1>13. Follows(items, hasMore)
  BY <1>6, <1>8, <1>9, <1>10, <1>11 DEF Follows
<1> QED
  BY <1>1, <1>12, <1>13

LEMMA PagingStep == ASSUME PagingInv, [PagingNext]_pagingVars PROVE PagingInv'
<1>1. CASE InsertRow \/ \E i \in Ids : EndInsert(i)
  BY <1>1, RowsKeepPages
<1>2. CASE StartWalk
  BY <1>2, StartKeepsPages
<1>3. CASE NextPage
  <2>1. PICK found \in Ordered(walk.after) :
          Show(Slice(RowsOfPage(found), 0, list.limit), Len(RowsOfPage(found)) > list.limit)
    BY <1>3 DEF NextPage
  <2>2. Follows(Slice(RowsOfPage(found), 0, list.limit), Len(RowsOfPage(found)) > list.limit)
    BY PageFollows
  <2>3. (Len(RowsOfPage(found)) > list.limit) \in BOOLEAN
    OBVIOUS
  <2> QED
    BY <2>1, <2>2, <2>3, ShowKeepsPages
<1>4. CASE ContractPage
  BY <1>4, ContractPageFollows, ShowKeepsPages
<1>5. CASE UNCHANGED pagingVars
  <2>1. UNCHANGED <<row, idSequence, list, walk, shown, atStart>>
    BY <1>5 DEF pagingVars
  <2>2. Listed' = Listed /\ ToSet(shown') = ToSet(shown)
    BY <2>1 DEF Listed
  <2> QED
    BY <2>1, <2>2 DEF PagingInv, PagingTypeOK, PagesAreExact, CursorIsLastShown
<1> QED
  BY <1>1, <1>2, <1>3, <1>4, <1>5 DEF PagingNext

(* Walks are exact. *)
THEOREM WalksAreExact == PagingSpec => []PagingInv
  BY PagingInitOK, PagingStep, PTL DEF PagingSpec

-----------------------------------------------------------------------------
(* Decoding changes the bytes of characters only, and into such bytes or U+FFFD. *)
Texts == Seq(Pieces \cup {Replaced})
CharBytes == {"char1", "char2", Replaced}
Cut(text, i) ==
  \/ text[i] = "char1" /\ (i = Len(text) \/ text[i + 1] # "char2")
  \/ text[i] = "char2" /\ (i = 1 \/ text[i - 1] # "char1")

LEMMA DecodedIs ==
  ASSUME NEW s \in Seq(Pieces)
  PROVE  /\ Decoded(s) \in Texts /\ Len(Decoded(s)) = Len(s)
         /\ \A i \in 1..Len(s) :
              /\ Cut(s, i) => Decoded(s)[i] = Replaced /\ s[i] \in CharBytes
              /\ ~Cut(s, i) => Decoded(s)[i] = s[i]
<1>1. Len(s) \in Nat /\ DOMAIN s = 1..Len(s)
  OBVIOUS
<1>2. Decoded(s) = [i \in 1..Len(s) |-> IF Cut(s, i) THEN Replaced ELSE s[i]]
  BY <1>1 DEF Decoded, Cut
<1>3. \A i \in 1..Len(s) : (IF Cut(s, i) THEN Replaced ELSE s[i]) \in Pieces \cup {Replaced}
  BY <1>1
<1>4. Decoded(s) \in [1..Len(s) -> Pieces \cup {Replaced}]
  BY <1>2, <1>3, Zenon
<1>5. Decoded(s) \in Texts /\ Len(Decoded(s)) = Len(s)
  BY <1>1, <1>4 DEF Texts
<1>6. \A i \in 1..Len(s) : Cut(s, i) => s[i] \in CharBytes
  BY DEF Cut, CharBytes
<1> QED
  BY <1>2, <1>5, <1>6

(* What a chunk of a sequence is, and what appending makes. *)
IsChunk(chunk, s, a, n) ==
  /\ Len(chunk) = n /\ Last(chunk) = chunk[n]
  /\ \A pos \in 1..n : chunk[pos] = s[a + pos]

LEMMA ChunkIs ==
  ASSUME NEW S, NEW s \in Seq(S), NEW a \in Nat, NEW n \in Nat \ {0}, a + n <= Len(s)
  PROVE  SubSeq(s, a + 1, a + n) \in Seq(S) /\ IsChunk(SubSeq(s, a + 1, a + n), s, a, n)
<1> DEFINE first == a + 1
           stop == a + n
           chunk == SubSeq(s, first, stop)
<1>1. /\ first \in 1..Len(s) /\ stop \in 1..Len(s) /\ first <= stop /\ stop - first + 1 = n
      /\ Len(s) \in Nat
  OBVIOUS
<1>2. \A pos \in 1..n : first + pos - 1 = a + pos
  OBVIOUS
<1>3. chunk = SubSeq(s, first, stop)
  OBVIOUS
<1> HIDE DEF first, stop, chunk
<1>4. /\ chunk \in Seq(S) /\ Len(chunk) = stop - first + 1
      /\ \A pos \in 1..(stop - first + 1) : chunk[pos] = s[first + pos - 1]
  BY <1>1, <1>3
<1>5. Last(chunk) = chunk[n]
  BY <1>1, <1>4 DEF Last
<1>6. chunk \in Seq(S) /\ IsChunk(chunk, s, a, n)
  BY <1>1, <1>2, <1>4, <1>5 DEF IsChunk
<1> QED
  BY <1>6 DEF chunk, first, stop

IsJoined(joined, s, t) ==
  /\ Len(joined) = Len(s) + Len(t)
  /\ \A pos \in 1..Len(s) : joined[pos] = s[pos]
  /\ \A pos \in 1..Len(t) : joined[Len(s) + pos] = t[pos]

LEMMA JoinIs ==
  ASSUME NEW S, NEW s \in Seq(S), NEW t \in Seq(S)
  PROVE  s \o t \in Seq(S) /\ IsJoined(s \o t, s, t)
  BY DEF IsJoined

(* A chunk decodes as the whole does, but for a character cut at its ends. *)
LEMMA ChunkDecodes ==
  ASSUME NEW s \in Seq(Pieces), NEW a \in Nat, NEW n \in Nat \ {0}, a + n <= Len(s),
         NEW chunk, chunk = SubSeq(s, a + 1, a + n), NEW i \in 1..n
  PROVE  \/ Decoded(chunk)[i] = Decoded(s)[a + i]
         \/ /\ {Decoded(chunk)[i], Decoded(s)[a + i]} \subseteq CharBytes
            /\ chunk[n] = "char1" \/ (a > 0 /\ s[a] = "char1")
<1>1. /\ chunk \in Seq(Pieces) /\ Len(chunk) = n
      /\ \A pos \in 1..n : chunk[pos] = s[a + pos]
  <2>1. chunk \in Seq(Pieces) /\ IsChunk(chunk, s, a, n)
    BY ChunkIs, Zenon
  <2> QED
    BY <2>1 DEF IsChunk
<1>2. /\ i \in 1..Len(chunk) /\ a + i \in 1..Len(s)
      /\ i - 1 \in Nat /\ Len(s) \in Nat /\ chunk[i] = s[a + i]
  BY <1>1
<1>3. /\ Cut(chunk, i) => Decoded(chunk)[i] = Replaced /\ chunk[i] \in CharBytes
      /\ ~Cut(chunk, i) => Decoded(chunk)[i] = chunk[i]
      /\ Cut(s, a + i) => Decoded(s)[a + i] = Replaced /\ s[a + i] \in CharBytes
      /\ ~Cut(s, a + i) => Decoded(s)[a + i] = s[a + i]
  BY <1>1, <1>2, DecodedIs
<1> DEFINE length == Len(s)
           chunkLength == Len(chunk)
<1>4. /\ length \in Nat /\ chunkLength = n /\ a + n <= length
      /\ a \in Nat /\ n \in Nat /\ i \in 1..n
  BY <1>1, <1>2
<1>5. CASE Cut(chunk, i) <=> Cut(s, a + i)
  BY <1>2, <1>3, <1>5
<1>6. CASE ~(Cut(chunk, i) <=> Cut(s, a + i))
  <2>1. {Decoded(chunk)[i], Decoded(s)[a + i]} \subseteq CharBytes
    BY <1>2, <1>3, <1>6 DEF CharBytes
  <2>2. CASE s[a + i] = "char1"
    <3>1. i = n
      <4> SUFFICES ASSUME i # n PROVE FALSE
        OBVIOUS
      <4>1. i + 1 \in 1..n /\ a + (i + 1) = (a + i) + 1 /\ a + i # Len(s) /\ i # Len(chunk)
        <5> HIDE DEF length, chunkLength
        <5>1. i + 1 \in 1..n /\ a + (i + 1) = (a + i) + 1 /\ a + i # length /\ i # chunkLength
          BY <1>4
        <5> QED
          BY <5>1 DEF length, chunkLength
      <4>2. chunk[i + 1] = s[a + (i + 1)]
        BY <1>1, <4>1, Zenon
      <4>3. chunk[i + 1] = s[(a + i) + 1]
        BY <4>1, <4>2
      <4> QED
        BY <1>2, <1>6, <2>2, <4>1, <4>3 DEF Cut
    <3> QED
      BY <1>2, <2>1, <2>2, <3>1
  <2>3. CASE s[a + i] = "char2"
    <3>1. i = 1
      <4> SUFFICES ASSUME i # 1 PROVE FALSE
        OBVIOUS
      <4>1. i - 1 \in 1..n /\ a + (i - 1) = (a + i) - 1 /\ a + i # 1
        <5> HIDE DEF length, chunkLength
        <5> QED
          BY <1>4
      <4>2. chunk[i - 1] = s[a + (i - 1)]
        BY <1>1, <4>1, Zenon
      <4>3. chunk[i - 1] = s[(a + i) - 1]
        BY <4>1, <4>2
      <4> QED
        BY <1>2, <1>6, <2>3, <4>1, <4>3 DEF Cut
    <3>2. Cut(chunk, i)
      BY <1>2, <2>3, <3>1 DEF Cut
    <3>3. a + i # 1 /\ s[(a + i) - 1] = "char1"
      BY <1>6, <2>3, <3>2 DEF Cut
    <3>4. a > 0 /\ (a + i) - 1 = a
      BY <3>1, <3>3
    <3> QED
      BY <2>1, <3>3, <3>4
  <2>4. CASE s[a + i] \notin {"char1", "char2"}
    BY <1>2, <1>6, <2>4 DEF Cut
  <2> QED
    BY <2>2, <2>3, <2>4
<1> QED
  BY <1>5, <1>6

(* Two texts alike but for the bytes of characters: their headers end alike,  *)
(* as far as the shorter one goes, and get responses of the same status.       *)
Alike(b, d) ==
  /\ b \in Texts /\ d \in Texts /\ Len(b) <= Len(d)
  /\ \A i \in 1..Len(b) : b[i] = d[i] \/ {b[i], d[i]} \subseteq CharBytes

LEMMA HeadersEndAlike ==
  ASSUME NEW b, NEW d, Alike(b, d)
  PROVE  HeaderEnds(b) = {i \in HeaderEnds(d) : i < Len(b)}
<1>1. Len(b) \in Nat /\ Len(d) \in Nat /\ Len(b) <= Len(d)
  BY DEF Alike, Texts
<1>2. "CRLF1" \notin CharBytes /\ "CRLF2" \notin CharBytes
  BY DEF CharBytes, Replaced
<1>3. \A i \in 1..Len(b) : /\ b[i] = "CRLF1" <=> d[i] = "CRLF1"
                           /\ b[i] = "CRLF2" <=> d[i] = "CRLF2"
  BY <1>2, Zenon DEF Alike
<1>4. \A i \in 1..(Len(b) - 1) : i \in 1..Len(b) /\ i + 1 \in 1..Len(b) /\ i \in 1..(Len(d) - 1)
  BY <1>1
<1>5. \A i \in 1..(Len(d) - 1) : i < Len(b) => i \in 1..(Len(b) - 1)
  BY <1>1
<1>6. \A i \in HeaderEnds(b) : i \in HeaderEnds(d) /\ i < Len(b)
  <2>1. ASSUME NEW i \in HeaderEnds(b) PROVE i \in HeaderEnds(d) /\ i < Len(b)
    <3>1. i \in 1..(Len(b) - 1) /\ b[i] = "CRLF1" /\ b[i + 1] = "CRLF2"
      BY DEF HeaderEnds
    <3>2. d[i] = "CRLF1" /\ d[i + 1] = "CRLF2" /\ i \in 1..(Len(d) - 1)
      BY <1>3, <1>4, <3>1
    <3> QED
      BY <1>1, <3>1, <3>2 DEF HeaderEnds
  <2> QED
    BY <2>1
<1>7. \A i \in HeaderEnds(d) : i < Len(b) => i \in HeaderEnds(b)
  <2>1. ASSUME NEW i \in HeaderEnds(d), i < Len(b) PROVE i \in HeaderEnds(b)
    <3>1. i \in 1..(Len(b) - 1) /\ d[i] = "CRLF1" /\ d[i + 1] = "CRLF2"
      BY <1>5, <2>1 DEF HeaderEnds
    <3>2. b[i] = "CRLF1" /\ b[i + 1] = "CRLF2"
      BY <1>3, <1>4, <3>1
    <3> QED
      BY <3>1, <3>2 DEF HeaderEnds
  <2> QED
    BY <2>1
<1> QED
  BY <1>6, <1>7

LEMMA SectionsAlike ==
  ASSUME NEW b, NEW d, Alike(b, d), HeaderEnds(b) # {}
  PROVE  /\ Alike(HeaderSection(b), HeaderSection(d))
         /\ Len(HeaderSection(b)) = Len(HeaderSection(d))
         /\ (\A i \in 1..Len(b) : b[i] = d[i]) => HeaderSection(b) = HeaderSection(d)
<1>1. Len(b) \in Nat /\ Len(d) \in Nat /\ Len(b) <= Len(d) /\ b \in Texts /\ d \in Texts
  BY DEF Alike, Texts
<1>2. HeaderEnds(b) \in SUBSET Nat /\ HeaderEnds(d) \in SUBSET Nat
  BY <1>1 DEF HeaderEnds
<1>3. HeaderEnds(b) = {i \in HeaderEnds(d) : i < Len(b)}
  BY HeadersEndAlike
<1>4. PICK e \in HeaderEnds(b) : \A i \in HeaderEnds(b) : e <= i
  BY <1>2, Least
<1>5. e \in 1..(Len(b) - 1)
  BY <1>4 DEF HeaderEnds
<1>6. e \in HeaderEnds(d) /\ \A i \in HeaderEnds(d) : e <= i
  <2>1. ASSUME NEW i \in HeaderEnds(d) PROVE e <= i
    <3>1. CASE i < Len(b)
      BY <1>3, <1>4, <3>1
    <3>2. CASE ~(i < Len(b))
      BY <1>1, <1>2, <1>5, <3>2
    <3> QED
      BY <3>1, <3>2
  <2> QED
    BY <1>3, <1>4, <2>1
<1>7. ASSUME NEW text, HeaderEnds(text) \in SUBSET Nat, e \in HeaderEnds(text),
             \A i \in HeaderEnds(text) : e <= i
      PROVE  HeaderSection(text) = SubSeq(text, 1, e - 1)
  <2>1. \A m \in HeaderEnds(text) : (\A j \in HeaderEnds(text) : m <= j) => m = e
    <3>1. \A m \in HeaderEnds(text) : m <= e /\ e <= m /\ m \in Nat /\ e \in Nat => m = e
      OBVIOUS
    <3> QED
      BY <1>7, <3>1
  <2>2. (CHOOSE i \in HeaderEnds(text) : \A j \in HeaderEnds(text) : i <= j) = e
    BY <1>7, <2>1, Zenon
  <2> QED
    BY <2>2 DEF HeaderSection
<1>8. HeaderSection(b) = SubSeq(b, 1, e - 1) /\ HeaderSection(d) = SubSeq(d, 1, e - 1)
  BY <1>2, <1>4, <1>6, <1>7
<1>9. /\ HeaderSection(b) \in Texts /\ Len(HeaderSection(b)) = e - 1
      /\ \A i \in 1..(e - 1) : HeaderSection(b)[i] = b[i] /\ i \in 1..Len(b)
  BY <1>1, <1>5, <1>8 DEF Texts
<1>10. /\ HeaderSection(d) \in Texts /\ Len(HeaderSection(d)) = e - 1
       /\ \A i \in 1..(e - 1) : HeaderSection(d)[i] = d[i]
  BY <1>1, <1>5, <1>8 DEF Texts
<1>11. Alike(HeaderSection(b), HeaderSection(d))
  BY <1>5, <1>9, <1>10 DEF Alike
<1>12. ASSUME \A i \in 1..Len(b) : b[i] = d[i] PROVE HeaderSection(b) = HeaderSection(d)
  BY <1>9, <1>10, <1>12 DEF Texts
<1> QED
  BY <1>9, <1>10, <1>11, <1>12

Responses == [status : {200, 400, 404}, body : Texts]

LEMMA RespondsOnce ==
  ASSUME NEW section \in Texts
  PROVE  Respond(section) \in Responses
<1>1. <<>> \in Texts /\ (section # <<>> => Tail(section) \in Texts)
  BY DEF Texts
<1>2. \A body \in Texts : \A code \in {200, 400, 404} :
        [status |-> code, body |-> body] \in Responses
  BY DEF Responses
<1> DEFINE bad == \E i \in 2..Len(section) : section[i] \in Requested \cup {"noColon"}
           echo == section # <<>> /\ section[1] = "GET /headers"
           code == IF section # <<>> /\ section[1] = "GET /" THEN 200 ELSE 404
<1>3. Respond(section) = IF bad THEN [status |-> 400, body |-> <<>>]
                         ELSE IF echo THEN [status |-> 200, body |-> Tail(section)]
                         ELSE [status |-> code, body |-> <<>>]
  BY Zenon DEF Respond
<1>4. 200 \in {200, 400, 404} /\ 400 \in {200, 400, 404} /\ code \in {200, 400, 404}
  OBVIOUS
<1>5. echo => Tail(section) \in Texts
  BY <1>1
<1> HIDE DEF bad, echo, code, Texts, Responses
<1>6. CASE bad
  <2>1. Respond(section) = [status |-> 400, body |-> <<>>]
    BY <1>3, <1>6
  <2>2. [status |-> 400, body |-> <<>>] \in Responses
    BY <1>1, <1>4 DEF Responses
  <2> QED
    BY <2>1, <2>2, Zenon
<1>7. CASE ~bad /\ echo
  <2>1. Respond(section) = [status |-> 200, body |-> Tail(section)]
    BY <1>3, <1>7
  <2>2. [status |-> 200, body |-> Tail(section)] \in Responses
    BY <1>2, <1>4, <1>5, <1>7, ZenonT(40)
  <2> QED
    BY <2>1, <2>2, Zenon
<1>8. CASE ~bad /\ ~echo
  <2>1. Respond(section) = [status |-> code, body |-> <<>>]
    BY <1>3, <1>8
  <2>2. [status |-> code, body |-> <<>>] \in Responses
    BY <1>1, <1>4 DEF Responses
  <2> QED
    BY <2>1, <2>2, Zenon
<1> QED
  BY <1>6, <1>7, <1>8

LEMMA RespondAlike ==
  ASSUME NEW b, NEW d, Alike(b, d), Len(b) = Len(d)
  PROVE  Respond(b).status = Respond(d).status
<1>1. b \in Texts /\ d \in Texts /\ Len(b) \in Nat
  BY DEF Alike, Texts
<1>2. \A p \in Requested \cup {"noColon"} : p \notin CharBytes
  BY DEF CharBytes, Requested, Replaced
<1>3. \A i \in 1..Len(b) : \A p \in Requested \cup {"noColon"} : b[i] = p <=> d[i] = p
  BY <1>2, Zenon DEF Alike
<1>4. (\E i \in 2..Len(b) : b[i] \in Requested \cup {"noColon"})
        <=> (\E i \in 2..Len(d) : d[i] \in Requested \cup {"noColon"})
  <2>1. \A i \in 2..Len(b) : b[i] \in Requested \cup {"noColon"} <=> d[i] \in Requested \cup {"noColon"}
    <3>1. \A i \in 2..Len(b) : i \in 1..Len(b)
      BY <1>1
    <3> QED
      BY <1>3, <3>1, Zenon
  <2> QED
    BY <2>1
<1>5. /\ b # <<>> <=> d # <<>>
      /\ b # <<>> => 1 \in 1..Len(b)
  BY <1>1 DEF Texts
<1>6. b # <<>> => (b[1] = "GET /" <=> d[1] = "GET /") /\ (b[1] = "GET /headers" <=> d[1] = "GET /headers")
  BY <1>3, <1>5 DEF Requested
<1> QED
  BY <1>4, <1>5, <1>6, ZenonT(40) DEF Respond

(* So the property follows from what the buffer holds. *)
LEMMA DecodedBuffersDoNotMatter ==
  ASSUME WarmUpTypeOK, BufferIsDecoded PROVE CutsDoNotMatter
<1> SUFFICES ASSUME NEW k \in Connections
             PROVE  LET so_far == SubSeq(sent[k], 1, arrived[k]) IN
                    /\ Len(responses[k]) = IF HeaderEnds(so_far) = {} THEN 0 ELSE 1
                    /\ responses[k] # <<>> =>
                         LET whole == Respond(HeaderSection(Decoded(sent[k]))) IN
                         /\ responses[k][1].status = whole.status
                         /\ split[k] \/ responses[k][1] = whole
  BY DEF CutsDoNotMatter
<1> DEFINE s == sent[k]
           a == arrived[k]
           d == Decoded(s)
           b == requestBuffer[k]
           so_far == SubSeq(s, 1, a)
<1>1. /\ s \in Seq(Pieces) /\ a \in Nat /\ b \in Texts /\ a <= Len(s) /\ Len(s) \in Nat
      /\ Len(b) \in Nat /\ Len(b) <= a /\ handled[k] \in BOOLEAN
  BY SendingsAssumption DEF WarmUpTypeOK, BufferIsDecoded, Texts
<1>2. /\ ~handled[k] => Len(b) = a
      /\ \A i \in 1..Len(b) : b[i] = d[i] \/ (split[k] /\ {b[i], d[i]} \subseteq CharBytes)
      /\ handled[k] <=> HeaderEnds(b) # {}
      /\ responses[k] = IF handled[k] THEN <<Respond(HeaderSection(b))>> ELSE <<>>
  BY DEF BufferIsDecoded, Uncut, CutAt, CharBytes
<1> HIDE DEF s, a, d, b
<1>3. /\ d \in Texts /\ Len(d) = Len(s)
      /\ \A i \in 1..Len(s) : d[i] = s[i] \/ {d[i], s[i]} \subseteq CharBytes
  <2>1. Replaced \in CharBytes
    BY DEF CharBytes
  <2> QED
    BY <1>1, <2>1, DecodedIs DEF d
<1>4. Alike(b, d)
  BY <1>1, <1>2, <1>3 DEF Alike
<1>5. /\ so_far \in Texts /\ Len(so_far) = a
      /\ \A i \in 1..a : so_far[i] = s[i]
  <2>1. so_far \in Seq(Pieces) /\ Len(so_far) = a /\ \A i \in 1..a : so_far[i] = s[i]
    BY <1>1
  <2> HIDE DEF so_far
  <2> QED
    BY <2>1 DEF Texts
<1> HIDE DEF so_far
<1>6. Alike(so_far, d)
  BY <1>1, <1>3, <1>5 DEF Alike
<1>7. /\ HeaderEnds(b) = {i \in HeaderEnds(d) : i < Len(b)}
      /\ HeaderEnds(so_far) = {i \in HeaderEnds(d) : i < a}
  BY <1>4, <1>5, <1>6, HeadersEndAlike
<1>8. HeaderEnds(d) \in SUBSET Nat
  BY <1>1, <1>3 DEF HeaderEnds
<1>9. CASE ~handled[k]
  <2>1. HeaderEnds(so_far) = {} /\ responses[k] = <<>> /\ Len(responses[k]) = 0
    BY <1>2, <1>7, <1>9
  <2> QED
    BY <2>1 DEF so_far, s, a
<1>10. CASE handled[k]
  <2>1. HeaderEnds(b) # {} /\ HeaderEnds(so_far) # {}
    BY <1>1, <1>2, <1>7, <1>8, <1>10
  <2>2. responses[k] = <<Respond(HeaderSection(b))>> /\ Len(responses[k]) = 1
        /\ responses[k][1] = Respond(HeaderSection(b))
    BY <1>2, <1>10
  <2>3. Respond(HeaderSection(b)).status = Respond(HeaderSection(d)).status
    BY <1>4, <2>1, SectionsAlike, RespondAlike
  <2>4. ~split[k] => Respond(HeaderSection(b)) = Respond(HeaderSection(d))
    <3>1. ~split[k] => \A i \in 1..Len(b) : b[i] = d[i]
      BY <1>2
    <3> QED
      BY <1>4, <2>1, <3>1, SectionsAlike
  <2> QED
    BY <2>1, <2>2, <2>3, <2>4 DEF so_far, s, a, d
<1> QED
  BY <1>9, <1>10

LEMMA WarmUpInitOK == WarmUpInit => WarmUpInv
<1> SUFFICES ASSUME WarmUpInit PROVE WarmUpInv
  OBVIOUS
<1> USE DEF WarmUpInit
<1>1. WarmUpTypeOK
  <2>1. <<>> \in Seq(Pieces \cup {Replaced})
        /\ <<>> \in Seq([status : {200, 400, 404}, body : Seq(Pieces \cup {Replaced})])
    OBVIOUS
  <2> QED
    BY <2>1 DEF WarmUpTypeOK
<1>2. ASSUME NEW k \in Connections
      PROVE  /\ arrived[k] = 0 /\ requestBuffer[k] = <<>> /\ handled[k] = FALSE
             /\ responses[k] = <<>> /\ Len(sent[k]) \in Nat /\ Len(requestBuffer[k]) = 0
             /\ HeaderEnds(requestBuffer[k]) = {}
  <2>1. sent[k] \in Seq(Pieces)
    BY SendingsAssumption
  <2>2. Len(requestBuffer[k]) = 0 /\ 1..(0 - 1) = {}
    OBVIOUS
  <2> QED
    BY <2>1, <2>2 DEF HeaderEnds
<1>3. BufferIsDecoded
  BY <1>2 DEF BufferIsDecoded
<1> QED
  BY <1>1, <1>3, DecodedBuffersDoNotMatter DEF WarmUpInv

LEMMA DataKeepsBuffer ==
  ASSUME WarmUpInv, NEW k \in Connections, NEW n \in 1..(Len(sent[k]) - arrived[k]), Data(k, n)
  PROVE  WarmUpTypeOK' /\ BufferIsDecoded'
<1> DEFINE s == sent[k]
           a == arrived[k]
           d == Decoded(s)
           b == requestBuffer[k]
           chunk == SubSeq(s, a + 1, a + n)
           buffer == b \o Decoded(chunk)
<1>1. WarmUpTypeOK /\ BufferIsDecoded
  BY DEF WarmUpInv
<1>2. /\ s \in Seq(Pieces) /\ a \in Nat /\ b \in Texts /\ a <= Len(s) /\ Len(s) \in Nat
      /\ Len(b) \in Nat /\ Len(b) <= a /\ handled[k] \in BOOLEAN /\ split[k] \in BOOLEAN
      /\ n \in Nat \ {0} /\ a + n <= Len(s)
  BY <1>1, SendingsAssumption DEF WarmUpTypeOK, BufferIsDecoded, Texts
<1>3. /\ ~handled[k] => Len(b) = a
      /\ \A i \in 1..Len(b) : b[i] = d[i] \/ (split[k] /\ {b[i], d[i]} \subseteq CharBytes)
      /\ a > 0 /\ s[a] = "char1" => split[k]
      /\ handled[k] <=> HeaderEnds(b) # {}
      /\ responses[k] = IF handled[k] THEN <<Respond(HeaderSection(b))>> ELSE <<>>
  BY <1>1 DEF BufferIsDecoded, Uncut, CutAt, CharBytes
<1>4. /\ chunk \in Seq(Pieces) /\ Len(chunk) = n
      /\ \A i \in 1..n : chunk[i] = s[a + i]
      /\ Last(chunk) = s[a + n]
  <2> HIDE DEF s, a
  <2>1. /\ chunk \in Seq(Pieces) /\ Len(chunk) = n /\ Last(chunk) = chunk[n]
        /\ \A i \in 1..n : chunk[i] = s[a + i]
    <3>1. chunk = SubSeq(s, a + 1, a + n)
      OBVIOUS
    <3> HIDE DEF chunk
    <3>2. chunk \in Seq(Pieces) /\ IsChunk(chunk, s, a, n)
      BY <1>2, <3>1, ChunkIs, Zenon
    <3> QED
      BY <3>2 DEF IsChunk
  <2>2. n \in 1..n
    BY <1>2
  <2> HIDE DEF chunk
  <2> QED
    BY <2>1, <2>2
<1>5. /\ UNCHANGED <<sent, connection>>
      /\ arrived' = [arrived EXCEPT ![k] = a + n]
      /\ split' = [split EXCEPT ![k] = split[k] \/ Last(chunk) = "char1"]
      /\ IF handled[k] THEN UNCHANGED <<requestBuffer, handled, responses>>
         ELSE /\ requestBuffer' = [requestBuffer EXCEPT ![k] = buffer]
              /\ IF HeaderEnds(buffer) = {} THEN UNCHANGED <<handled, responses>>
                 ELSE /\ handled' = [handled EXCEPT ![k] = TRUE]
                      /\ responses' = [responses EXCEPT ![k] =
                           Append(@, Respond(HeaderSection(buffer)))]
  BY DEF Data
<1>6. /\ buffer \in Texts /\ Len(buffer) = Len(b) + n
      /\ \A i \in 1..Len(b) : buffer[i] = b[i]
      /\ \A i \in 1..n : buffer[Len(b) + i] = Decoded(chunk)[i]
  <2>1. Decoded(chunk) \in Texts /\ Len(Decoded(chunk)) = n
    BY <1>4, DecodedIs
  <2> DEFINE more == Decoded(chunk)
  <2>2. b \in Texts /\ more \in Texts /\ Len(more) = n /\ buffer = b \o more
    BY <1>2, <2>1
  <2> HIDE DEF a, s, d, chunk, b, more, buffer
  <2>3. /\ buffer \in Texts /\ Len(buffer) = Len(b) + n
        /\ \A i \in 1..Len(b) : buffer[i] = b[i]
        /\ \A i \in 1..n : buffer[Len(b) + i] = more[i]
    <3>1. buffer \in Texts /\ IsJoined(buffer, b, more)
      BY <2>2, JoinIs, Zenon DEF Texts
    <3> QED
      BY <2>2, <3>1 DEF IsJoined
  <2> QED
    BY <2>3 DEF more
<1>7. /\ split'[k] \in BOOLEAN /\ (split[k] => split'[k])
      /\ s[a + n] = "char1" => split'[k]
  BY <1>1, <1>2, <1>4, <1>5 DEF WarmUpTypeOK
<1>8. arrived'[k] = a + n /\ arrived' \in [Connections -> Nat]
  BY <1>1, <1>2, <1>5 DEF WarmUpTypeOK
<1>9. \A o \in Connections \ {k} :
         /\ sent'[o] = sent[o] /\ arrived'[o] = arrived[o] /\ handled'[o] = handled[o]
         /\ requestBuffer'[o] = requestBuffer[o] /\ responses'[o] = responses[o]
         /\ split'[o] = split[o]
  BY <1>1, <1>5 DEF WarmUpTypeOK
<1> DEFINE read == requestBuffer'[k]
<1>10. /\ read \in Texts /\ Len(read) \in Nat /\ Len(read) <= a + n
       /\ requestBuffer' \in [Connections -> Texts]
       /\ ~handled'[k] => Len(read) = a + n
       /\ \A i \in 1..Len(read) : read[i] = d[i] \/ (split'[k] /\ {read[i], d[i]} \subseteq CharBytes)
  <2>1. CASE handled[k]
    <3>1. read = b /\ handled' = handled /\ requestBuffer' = requestBuffer
      BY <1>5, <2>1
    <3> HIDE DEF d, s, a, read, b
    <3>2. Len(read) \in Nat /\ Len(read) <= a + n
      BY <1>2, <3>1
    <3> QED
      BY <1>1, <1>2, <1>3, <1>7, <2>1, <3>1, <3>2, SMTT(30) DEF WarmUpTypeOK, Texts
  <2>2. CASE ~handled[k]
    <3>1. requestBuffer' = [requestBuffer EXCEPT ![k] = buffer] /\ Len(b) = a
      BY <1>3, <1>5, <2>2
    <3>2. read = buffer /\ requestBuffer' \in [Connections -> Texts]
      <4> HIDE DEF buffer
      <4> QED
        BY <1>1, <1>6, <3>1 DEF WarmUpTypeOK, Texts
    <3>3. ASSUME NEW i \in 1..(a + n)
          PROVE  buffer[i] = d[i] \/ (split'[k] /\ {buffer[i], d[i]} \subseteq CharBytes)
      <4>1. CASE i <= a
        <5>1. i \in 1..Len(b)
          BY <1>2, <3>1, <4>1
        <5> QED
          <6>1. buffer[i] = b[i]
            BY <1>6, <5>1, Zenon
          <6> HIDE DEF b, d, s, a, buffer
          <6> QED
            BY <1>3, <1>7, <5>1, <6>1
      <4>2. CASE i > a
        <5>1. PICK j \in 1..n : i = a + j
          <6>1. i - a \in 1..n /\ i = a + (i - a)
            BY <1>2, <4>2
          <6> QED
            BY <6>1
        <5>2. buffer[i] = Decoded(chunk)[j]
          BY <1>6, <3>1, <5>1
        <5>3. \/ Decoded(chunk)[j] = d[a + j]
              \/ /\ {Decoded(chunk)[j], d[a + j]} \subseteq CharBytes
                 /\ chunk[n] = "char1" \/ (a > 0 /\ s[a] = "char1")
          BY <1>2, ChunkDecodes
        <5>4. chunk[n] = "char1" => split'[k]
          <6> HIDE DEF chunk, s, a
          <6>1. n \in 1..n
            BY <1>2
          <6> QED
            BY <1>4, <1>7, <6>1
        <5> HIDE DEF chunk, buffer, d, s, a
        <5> QED
          BY <1>3, <1>7, <5>1, <5>2, <5>3, <5>4
      <4>3. i <= a \/ i > a
        BY <1>2
      <4> QED
        BY <4>1, <4>2, <4>3, Zenon
    <3> HIDE DEF buffer, d, s, read, a, b
    <3>4. Len(read) = a + n /\ Len(read) \in Nat /\ Len(read) <= a + n /\ read \in Texts
      BY <1>2, <1>6, <3>1, <3>2
    <3>5. \A i \in 1..Len(read) : read[i] = d[i] \/ (split'[k] /\ {read[i], d[i]} \subseteq CharBytes)
      BY <3>2, <3>3, <3>4, Zenon
    <3> QED
      BY <3>2, <3>4, <3>5, Zenon
  <2> QED
    BY <2>1, <2>2
<1>11. /\ handled' \in [Connections -> BOOLEAN]
       /\ handled'[k] <=> HeaderEnds(read) # {}
       /\ responses'[k] = IF handled'[k] THEN <<Respond(HeaderSection(read))>> ELSE <<>>
       /\ responses' \in [Connections -> Seq(Responses)]
  <2>1. responses \in [Connections -> Seq(Responses)] /\ handled \in [Connections -> BOOLEAN]
    BY <1>1 DEF WarmUpTypeOK, Responses, Texts
  <2>2. CASE handled[k]
    <3>1. read = b /\ handled' = handled /\ responses' = responses
      BY <1>5, <2>2
    <3> QED
      BY <1>3, <2>1, <3>1
  <2>3. CASE ~handled[k] /\ HeaderEnds(buffer) = {}
    <3>1. read = buffer /\ handled' = handled /\ responses' = responses
      BY <1>1, <1>5, <2>3 DEF WarmUpTypeOK
    <3> HIDE DEF buffer, read, b
    <3> QED
      BY <1>3, <2>1, <2>3, <3>1
  <2>4. CASE ~handled[k] /\ HeaderEnds(buffer) # {}
    <3>1. /\ read = buffer /\ handled' = [handled EXCEPT ![k] = TRUE]
          /\ responses' = [responses EXCEPT ![k] = Append(responses[k], Respond(HeaderSection(buffer)))]
      BY <1>1, <1>5, <2>4 DEF WarmUpTypeOK
    <3> HIDE DEF buffer, read, b
    <3>2. HeaderSection(buffer) \in Texts
      <4>1. Alike(buffer, buffer)
        BY <1>6 DEF Alike, Texts
      <4> QED
        BY <2>4, <4>1, SectionsAlike DEF Alike
    <3>3. Respond(HeaderSection(buffer)) \in Responses
      BY <3>2, RespondsOnce
    <3>4. responses[k] = <<>>
      BY <1>3, <2>4
    <3>5. Append(responses[k], Respond(HeaderSection(buffer))) = <<Respond(HeaderSection(buffer))>>
      BY <3>4
    <3>6. <<Respond(HeaderSection(buffer))>> \in Seq(Responses)
      BY <3>3
    <3>7. responses' = [responses EXCEPT ![k] = <<Respond(HeaderSection(buffer))>>]
      BY <3>1, <3>5
    <3> QED
      BY <2>1, <2>4, <3>1, <3>6, <3>7, Zenon
  <2> QED
    BY <2>2, <2>3, <2>4
<1>12. WarmUpTypeOK'
  <2>1. split' \in [Connections -> BOOLEAN] /\ sent' = sent /\ connection' = connection
    BY <1>1, <1>5 DEF WarmUpTypeOK
  <2> HIDE DEF read
  <2> QED
    BY <1>1, <1>8, <1>10, <1>11, <2>1 DEF WarmUpTypeOK, Texts, Responses
<1>13. BufferIsDecoded'
  <2> SUFFICES ASSUME NEW o \in Connections
               PROVE  /\ arrived'[o] <= Len(sent'[o]) /\ Len(requestBuffer'[o]) <= arrived'[o]
                      /\ ~handled'[o] => Len(requestBuffer'[o]) = arrived'[o]
                      /\ \A i \in 1..Len(requestBuffer'[o]) :
                           \/ requestBuffer'[o][i] = Decoded(sent'[o])[i]
                           \/ split'[o] /\ {requestBuffer'[o][i], Decoded(sent'[o])[i]} \subseteq CharBytes
                      /\ arrived'[o] > 0 /\ sent'[o][arrived'[o]] = "char1" => split'[o]
                      /\ handled'[o] <=> HeaderEnds(requestBuffer'[o]) # {}
                      /\ responses'[o] = IF handled'[o]
                                         THEN <<Respond(HeaderSection(requestBuffer'[o]))>> ELSE <<>>
    BY Zenon DEF BufferIsDecoded, Uncut, CutAt, CharBytes
  <2>1. CASE o = k
    <3>1. sent'[k] = s
      BY <1>5
    <3> HIDE DEF s, a
    <3> QED
      BY <1>2, <1>7, <1>8, <1>10, <1>11, <2>1, <3>1
  <2>2. CASE o # k
    BY <1>1, <1>9, <2>2, SMTT(30) DEF BufferIsDecoded, Uncut, CutAt, CharBytes
  <2> QED
    BY <2>1, <2>2
<1> QED
  BY <1>12, <1>13

LEMMA WarmUpStep == ASSUME WarmUpInv, [WarmUpNext]_warmUpVars PROVE WarmUpInv'
<1>1. WarmUpTypeOK' /\ BufferIsDecoded'
  <2>1. ASSUME NEW k \in Connections, NEW n \in 1..(Len(sent[k]) - arrived[k]), Data(k, n)
        PROVE  WarmUpTypeOK' /\ BufferIsDecoded'
    BY <2>1, DataKeepsBuffer
  <2>2. ASSUME /\ UNCHANGED <<sent, arrived, requestBuffer, handled, responses, split>>
               /\ \/ UNCHANGED connection
                  \/ \E k \in Connections : connection' \in {[connection EXCEPT ![k] = "ended"],
                                                         [connection EXCEPT ![k] = "error"]}
        PROVE  WarmUpTypeOK' /\ BufferIsDecoded'
    <3>1. connection' \in [Connections -> {"open", "ended", "error"}]
      BY <2>2, ZenonT(40) DEF WarmUpInv, WarmUpTypeOK
    <3>2. WarmUpTypeOK'
      BY <2>2, <3>1 DEF WarmUpInv, WarmUpTypeOK
    <3> QED
      BY <2>2, <3>2 DEF WarmUpInv, BufferIsDecoded, Uncut, CutAt
  <2>3. ASSUME NEW k \in Connections, SocketEvent(k)
        PROVE  WarmUpTypeOK' /\ BufferIsDecoded'
    BY <2>2, <2>3, Zenon DEF SocketEvent
  <2>4. CASE UNCHANGED warmUpVars
    BY <2>2, <2>4, Zenon DEF warmUpVars
  <2> QED
    BY <2>1, <2>3, <2>4 DEF WarmUpNext
<1>2. (WarmUpTypeOK /\ BufferIsDecoded => CutsDoNotMatter)'
  BY DecodedBuffersDoNotMatter, PTL
<1> QED
  BY <1>1, <1>2 DEF WarmUpInv

THEOREM CutsAreInvisible == WarmUpSpec => []WarmUpInv
  BY WarmUpInitOK, WarmUpStep, PTL DEF WarmUpSpec
=============================================================================
