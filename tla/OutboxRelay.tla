---------------------------- MODULE OutboxRelay ----------------------------
(***************************************************************************)
(* The transactional outbox and the relays that drain it                   *)
(* (src/marketplace/src/outbox/relay.ts and relay-main.ts).  An order and  *)
(* its outbox row commit together; a relay locks a batch of pending rows   *)
(* (FOR UPDATE SKIP LOCKED), publishes each event, marks its row and       *)
(* commits.  PostgreSQL is modelled by its committed rows, its row locks   *)
(* and what each open transaction has written; the broker by how often it  *)
(* has accepted each event.                                                *)
(***************************************************************************)
EXTENDS Integers, FiniteSets

CONSTANTS
  Orders,      \* outbox ids; their order is ORDER BY created_at, id
  Relays,      \* OutboxRelay objects, each with one batch() call at a time
  NoRelay,     \* holder of an unlocked row
  BatchSize,   \* rows a batch may lock
  MaxFaults    \* bound on failures, crashes and lost answers

ASSUME OrdersAssumption == Orders \subseteq Nat /\ IsFiniteSet(Orders)
ASSUME RelaysAssumption == IsFiniteSet(Relays) /\ NoRelay \notin Relays
ASSUME BoundsAssumption == BatchSize \in 1..5 /\ MaxFaults \in Nat

VARIABLES
  row,         \* committed outbox row of each order
  attempts,    \* committed outbox.attempts
  holder,      \* which relay's transaction holds the row lock
  pc,          \* where each relay is in batch()
  live,        \* the relay's database session is alive
  todo,        \* rows of the batch (or of the flush) not handled yet
  attempted,   \* the `attempted` array of the batch
  failed,      \* failedAttempts, the relay's in-memory map
  sent,        \* times the broker accepted the event
  tries,       \* history: times a relay tried to publish the event
  lost,        \* history: kinds of observations lost so far
  faults       \* faults so far

dbVars == <<row, attempts, holder>>
relayVars == <<pc, live, todo, attempted, failed>>
history == <<sent, tries, lost>>
vars == <<dbVars, relayVars, history, faults>>

RowStates == {"none", "pending", "published", "deleted"}
Losses == {"answer", "memory", "row"}

TypeOK ==
  /\ row \in [Orders -> RowStates]
  /\ attempts \in [Orders -> Nat]
  /\ holder \in [Orders -> Relays \cup {NoRelay}]
  /\ pc \in [Relays -> {"idle", "flushing", "scan", "publish", "mark", "commit"}]
  /\ live \in [Relays -> BOOLEAN]
  /\ todo \in [Relays -> SUBSET Orders]
  /\ attempted \in [Relays -> SUBSET Orders]
  /\ failed \in [Relays -> [Orders -> Nat]]
  /\ sent \in [Orders -> Nat]
  /\ tries \in [Orders -> Nat]
  /\ lost \in SUBSET Losses
  /\ faults \in 0..MaxFaults

Init ==
  /\ row = [o \in Orders |-> "none"]
  /\ attempts = [o \in Orders |-> 0]
  /\ holder = [o \in Orders |-> NoRelay]
  /\ pc = [r \in Relays |-> "idle"]
  /\ live = [r \in Relays |-> TRUE]
  /\ todo = [r \in Relays |-> {}]
  /\ attempted = [r \in Relays |-> {}]
  /\ failed = [r \in Relays |-> [o \in Orders |-> 0]]
  /\ sent = [o \in Orders |-> 0]
  /\ tries = [o \in Orders |-> 0]
  /\ lost = {}
  /\ faults = 0

-----------------------------------------------------------------------------
(* The first BatchSize rows of S in ORDER BY order. *)
FirstRows(S) ==
  {o \in S : Cardinality({p \in S : p < o}) < BatchSize}

(* Up to BatchSize rows of S in an order unrelated to theirs: flushing sorts *)
(* by the random uuid.                                                      *)
SomeRows(S) ==
  {T \in SUBSET S : /\ Cardinality(T) <= BatchSize
                    /\ T = S \/ Cardinality(T) = BatchSize}

\* Unlocked with a fault, for the checks.
UnlockedIgnored(o) == TRUE
Unlocked(o) == holder[o] = NoRelay
LockRows(r, S) == holder' = [o \in Orders |-> IF o \in S THEN r ELSE holder[o]]
ReleaseRows(r) == [o \in Orders |-> IF holder[o] = r THEN NoRelay ELSE holder[o]]
Recorded(r) == {o \in Orders : failed[r][o] > 0}
OneFault == faults < MaxFaults /\ faults' = faults + 1

\* LeaveBatch with a fault, for the checks.
LeaveBatchKeepingLocks(r) ==
  /\ pc' = [pc EXCEPT ![r] = "idle"]
  /\ live' = [live EXCEPT ![r] = TRUE]
  /\ todo' = [todo EXCEPT ![r] = {}]
  /\ attempted' = [attempted EXCEPT ![r] = {}]
  /\ holder' = holder

(* The relay leaves batch(): its transaction is over, its locks are gone. *)
LeaveBatch(r) ==
  /\ pc' = [pc EXCEPT ![r] = "idle"]
  /\ live' = [live EXCEPT ![r] = TRUE]
  /\ todo' = [todo EXCEPT ![r] = {}]
  /\ attempted' = [attempted EXCEPT ![r] = {}]
  /\ holder' = ReleaseRows(r)

(* The catch block: every attempted id is counted for the next call. *)
CountFailures(r, ids) ==
  failed' = [failed EXCEPT ![r] =
               [o \in Orders |-> @[o] + (IF o \in ids THEN 1 ELSE 0)]]

-----------------------------------------------------------------------------
(* An order's transaction commits, and its outbox row with it. *)
Place(o) ==
  /\ row[o] = "none"
  /\ row' = [row EXCEPT ![o] = "pending"]
  /\ UNCHANGED <<attempts, holder, relayVars, history, faults>>

(* Retention deletes an old published row nobody holds. *)
Prune(o) ==
  /\ row[o] = "published" /\ Unlocked(o)
  /\ row' = [row EXCEPT ![o] = "deleted"]
  /\ lost' = lost \cup {"row"}
  /\ UNCHANGED <<attempts, holder, relayVars, sent, tries, faults>>

(* batch() with failures to record: the short transaction's UPDATE locks    *)
(* up to BatchSize of them, published ones included, and skips the rows  *)
(* another transaction holds.                                               *)
FlushBegin(r) ==
  /\ pc[r] = "idle" /\ Recorded(r) # {}
  /\ \E locked \in SomeRows({o \in Recorded(r) :
                      row[o] \in {"pending", "published"} /\ Unlocked(o)}) :
       /\ todo' = [todo EXCEPT ![r] = locked]
       /\ LockRows(r, locked)
  /\ pc' = [pc EXCEPT ![r] = "flushing"]
  /\ UNCHANGED <<row, attempts, live, attempted, failed, history, faults>>

FlushedAttempts(r) ==
  [o \in Orders |-> attempts[o] + (IF o \in todo[r] THEN failed[r][o] ELSE 0)]

\* FlushCommit with a fault, for the checks.
FlushCommitKeepingMap(r) ==
  /\ pc[r] = "flushing" /\ live[r]
  /\ attempts' = FlushedAttempts(r)
  /\ pc' = [pc EXCEPT ![r] = "scan"]
  /\ todo' = [todo EXCEPT ![r] = {}]
  /\ holder' = ReleaseRows(r)
  /\ UNCHANGED <<row, live, attempted, failed, history, faults>>

(* The short transaction commits; recorded and vanished ids leave the map. *)
FlushCommit(r) ==
  /\ pc[r] = "flushing" /\ live[r]
  /\ attempts' = FlushedAttempts(r)
  /\ failed' = [failed EXCEPT ![r] =
                  [o \in Orders |-> IF o \in todo[r] \/ row[o] = "deleted"
                                    THEN 0 ELSE @[o]]]
  /\ pc' = [pc EXCEPT ![r] = "scan"]
  /\ todo' = [todo EXCEPT ![r] = {}]
  /\ holder' = ReleaseRows(r)
  /\ UNCHANGED <<row, live, attempted, history, faults>>

(* It committed but the answer was lost: batch() throws, the map stays. *)
FlushCommitUnanswered(r) ==
  /\ pc[r] = "flushing" /\ live[r]
  /\ OneFault
  /\ attempts' = FlushedAttempts(r)
  /\ lost' = lost \cup {"answer"}
  /\ LeaveBatch(r)
  /\ UNCHANGED <<row, failed, sent, tries>>

(* It failed: batch() throws outside its try block, nothing is recorded. *)
FlushFail(r) ==
  /\ pc[r] = "flushing" /\ ~live[r]
  /\ LeaveBatch(r)
  /\ UNCHANGED <<row, attempts, failed, history, faults>>

(* SELECT ... FOR UPDATE SKIP LOCKED of the batch. *)
Scan(r) ==
  /\ pc[r] = "scan" \/ (pc[r] = "idle" /\ Recorded(r) = {})
  /\ LET rows == FirstRows({o \in Orders : row[o] = "pending" /\ Unlocked(o)})
     IN /\ todo' = [todo EXCEPT ![r] = rows]
        /\ LockRows(r, rows)
        /\ pc' = [pc EXCEPT ![r] = IF rows = {} THEN "idle" ELSE "publish"]
  /\ UNCHANGED <<row, attempts, live, attempted, failed, history, faults>>

IsNext(r, o) == o \in todo[r] /\ \A p \in todo[r] : o <= p
Try(o) == tries' = [tries EXCEPT ![o] = @ + 1]
Accept(o) == sent' = [sent EXCEPT ![o] = @ + 1]

(* The broker confirms.  The relay needs no database for this step: a dead *)
(* session is noticed by the next statement only.                          *)
PublishConfirmed(r, o) ==
  /\ pc[r] = "publish" /\ IsNext(r, o)
  /\ attempted' = [attempted EXCEPT ![r] = @ \cup {o}]
  /\ Try(o) /\ Accept(o)
  /\ pc' = [pc EXCEPT ![r] = "mark"]
  /\ UNCHANGED <<dbVars, live, todo, failed, lost, faults>>

\* PublishRefused with a fault, for the checks.
PublishRefusalSwallowed(r, o) ==
  /\ pc[r] = "publish" /\ IsNext(r, o)
  /\ OneFault
  /\ Try(o)
  /\ attempted' = [attempted EXCEPT ![r] = @ \cup {o}]
  /\ pc' = [pc EXCEPT ![r] = "mark"]
  /\ UNCHANGED <<dbVars, live, todo, failed, sent, lost>>

(* The broker refuses, returns or never sees the event. *)
PublishRefused(r, o) ==
  /\ pc[r] = "publish" /\ IsNext(r, o)
  /\ OneFault
  /\ Try(o)
  /\ CountFailures(r, attempted[r] \cup {o})
  /\ LeaveBatch(r)
  /\ UNCHANGED <<row, attempts, sent, lost>>

(* The broker has the event, but the relay sees a timeout or fails after. *)
PublishUnconfirmed(r, o) ==
  /\ pc[r] = "publish" /\ IsNext(r, o)
  /\ OneFault
  /\ Try(o) /\ Accept(o)
  /\ CountFailures(r, attempted[r] \cup {o})
  /\ LeaveBatch(r)
  /\ UNCHANGED <<row, attempts, lost>>

(* UPDATE outbox SET published_at, inside the transaction. *)
Mark(r, o) ==
  /\ pc[r] = "mark" /\ live[r] /\ IsNext(r, o)
  /\ todo' = [todo EXCEPT ![r] = @ \ {o}]
  /\ pc' = [pc EXCEPT ![r] = IF todo[r] = {o} THEN "commit" ELSE "publish"]
  /\ UNCHANGED <<dbVars, live, attempted, failed, history, faults>>

(* What COMMIT makes visible: the marked rows, one attempt each. *)
CommitMarks(r) ==
  /\ row' = [o \in Orders |-> IF o \in attempted[r] THEN "published" ELSE row[o]]
  /\ attempts' = [o \in Orders |-> attempts[o] + (IF o \in attempted[r] THEN 1 ELSE 0)]

\* Commit with a fault, for the checks.
CommitOutsideTransaction(r) ==
  /\ pc[r] = "commit"
  /\ CommitMarks(r)
  /\ LeaveBatch(r)
  /\ UNCHANGED <<failed, history, faults>>

Commit(r) ==
  /\ pc[r] = "commit" /\ live[r]
  /\ CommitMarks(r)
  /\ LeaveBatch(r)
  /\ UNCHANGED <<failed, history, faults>>

(* COMMIT took effect but its answer was lost: the catch block runs too. *)
CommitUnanswered(r) ==
  /\ pc[r] = "commit" /\ live[r]
  /\ OneFault
  /\ CommitMarks(r)
  /\ CountFailures(r, attempted[r])
  /\ lost' = lost \cup {"answer"}
  /\ LeaveBatch(r)
  /\ UNCHANGED <<sent, tries>>

(* The UPDATE or the COMMIT finds the session dead: ROLLBACK and catch. *)
BatchFail(r) ==
  /\ pc[r] \in {"mark", "commit"} /\ ~live[r]
  /\ CountFailures(r, attempted[r])
  /\ LeaveBatch(r)
  /\ UNCHANGED <<row, attempts, history, faults>>

(* PostgreSQL ends the session (restart, network, pg_terminate_backend):    *)
(* it rolls back and frees the locks while the relay runs on unaware.       *)
SessionLost(r) ==
  /\ pc[r] \in {"flushing", "publish", "mark", "commit"} /\ live[r]
  /\ OneFault
  /\ live' = [live EXCEPT ![r] = FALSE]
  /\ holder' = ReleaseRows(r)
  /\ UNCHANGED <<row, attempts, pc, todo, attempted, failed, history>>

(* SIGKILL or restart of the relay process: its memory is gone. *)
Crash(r) ==
  /\ OneFault
  /\ failed' = [failed EXCEPT ![r] = [o \in Orders |-> 0]]
  /\ lost' = lost \cup {"memory"}
  /\ LeaveBatch(r)
  /\ UNCHANGED <<row, attempts, sent, tries>>

-----------------------------------------------------------------------------
(* What a relay does when nothing fails. *)
Work(r) ==
  \/ FlushBegin(r) \/ FlushCommit(r) \/ FlushFail(r) \/ Scan(r)
  \/ \E o \in Orders : PublishConfirmed(r, o) \/ Mark(r, o)
  \/ Commit(r) \/ BatchFail(r)

Fault(r) ==
  \/ FlushCommitUnanswered(r) \/ CommitUnanswered(r)
  \/ \E o \in Orders : PublishRefused(r, o) \/ PublishUnconfirmed(r, o)
  \/ SessionLost(r) \/ Crash(r)

Next ==
  \/ \E o \in Orders : Place(o) \/ Prune(o)
  \/ \E r \in Relays : Work(r) \/ Fault(r)

Spec == Init /\ [][Next]_vars

(* relay-main loops forever and docker restarts it: each relay keeps going. *)
Fairness == \A r \in Relays : WF_vars(Work(r))
FairSpec == Spec /\ Fairness

-----------------------------------------------------------------------------
(* relay.ts publishes before it marks: a row marked as published, and a row *)
(* retention removed, has been accepted by the broker, whatever failed.      *)
PublishedMeansAccepted ==
  \A o \in Orders : row[o] \in {"published", "deleted"} => sent[o] >= 1

(* Row locks held until COMMIT keep two relays off one row: every repeated  *)
(* publication of an event is paid for by a failure, so a run with no        *)
(* failure publishes each event at most once.                                *)
DuplicatesNeedFaults ==
  \A o \in Orders : sent[o] <= 1 + faults

(* A transaction that is still alive owns what it works on: its rows are    *)
(* locked by it, so nobody else publishes, marks or prunes them meanwhile.   *)
BatchOwnsItsRows ==
  \A r \in Relays : live[r] =>
    \A o \in todo[r] \cup attempted[r] :
      /\ holder[o] = r
      /\ pc[r] # "flushing" => row[o] = "pending"

(* Outside its batch a relay has nothing in hand, and its session is alive.  *)
NothingInHand ==
  \A r \in Relays :
    /\ pc[r] \in {"idle", "scan"} => todo[r] = {} /\ live[r]
    /\ pc[r] \in {"idle", "scan", "flushing"} => attempted[r] = {}

(* What an open batch is about to mark, the broker has. *)
AttemptedIsAccepted ==
  \A r \in Relays : \A o \in attempted[r] : sent[o] >= 1

(* The loop attempts each row of its batch once: an attempted row is still    *)
(* to do only between its publication and its mark.                           *)
EachRowOnce ==
  \A r \in Relays : \A o \in todo[r] \cap attempted[r] : pc[r] = "mark" /\ IsNext(r, o)

(* Where one publication of o is accounted for: in its committed row, or in  *)
(* a live batch that is going to mark it.                                     *)
Accounted(o) ==
  \/ row[o] \in {"published", "deleted"}
  \/ \E r \in Relays : live[r] /\ o \in attempted[r]

(* Relays that will publish o although their sessions, and locks, are gone.  *)
Late(o) == {r \in Relays : ~live[r] /\ pc[r] = "publish" /\ o \in todo[r]}

(* Every publication beyond the accounted one, past or still to come from a  *)
(* relay that lost its session, has its failure.                              *)
RepeatsArePaidFor ==
  \A o \in Orders :
    sent[o] + Cardinality(Late(o)) <= faults + (IF Accounted(o) THEN 1 ELSE 0)

(* The inductive invariant: marks follow from acceptance because a live      *)
(* batch owns its rows until its COMMIT, and so do the repeats from failures.*)
OutboxInv ==
  /\ TypeOK
  /\ NothingInHand
  /\ BatchOwnsItsRows
  /\ AttemptedIsAccepted
  /\ PublishedMeansAccepted
  /\ EachRowOnce
  /\ RepeatsArePaidFor
  /\ \A o \in Orders : row[o] = "deleted" => "row" \in lost

(* How many relays have an attempt at o in an unfinished batch, and how many *)
(* failures of o the in-memory maps still hold, each numbered in its map.     *)
Unfinished(o) == Cardinality({r \in Relays : o \in attempted[r]})
Numbered(count) == UNION {{r} \X (1..count[r]) : r \in Relays}
Remembered(o) == Cardinality(Numbered([r \in Relays |-> failed[r][o]]))

(* outbox.attempts counts successes and observed failures: until the answer  *)
(* to a COMMIT is lost no attempt is counted twice, and until something is    *)
(* lost none is missing from the row, the maps and the open batches together. *)
AttemptsLedger ==
  \A o \in Orders :
    LET counted == attempts[o] + Remembered(o) + Unfinished(o)
    IN /\ "answer" \notin lost => counted <= tries[o]
       /\ lost = {} => counted = tries[o]

(* A row is marked by the transaction that locks it and by no other: a      *)
(* relay whose session died cannot mark a row behind the back of the relay   *)
(* that took it over, and a mark is never undone.                            *)
MarkedByItsHolder ==
  [][\A o \in Orders : row[o] # row'[o] =>
       \/ row[o] = "none" /\ row'[o] = "pending"
       \/ row[o] = "published" /\ row'[o] = "deleted" /\ holder[o] = NoRelay
       \/ /\ row[o] = "pending" /\ row'[o] = "published"
          /\ \E r \in Relays : holder[o] = r /\ o \in attempted[r]]_vars

(* Once failures stop, every committed order is published and marked: no    *)
(* lock, dead session or skipped row keeps it pending forever.               *)
EventuallyPublished ==
  \A o \in Orders : row[o] = "pending" ~> row[o] \in {"published", "deleted"}
=============================================================================
