-------------------------- MODULE RetryTransaction --------------------------
(***************************************************************************)
(* retryTransaction (src/marketplace/src/retry.ts) around an operation that  *)
(* reads rows and writes them back, as demo-retry.ts does with a balance:     *)
(* REPEATABLE READ transactions of PostgreSQL (external), of which the first   *)
(* updater of a row wins and the others fail with 40001 or, in a circle of     *)
(* waits, 40P01; the whole transaction is then run again.                      *)
(***************************************************************************)
EXTENDS Naturals, Sequences, FiniteSets

CONSTANTS
  Callers,       \* calls of retryTransaction
  Rows,
  Plan,          \* the rows each operation updates, in order
  MaxAttempts

Free == "free"

ASSUME CallersAssumption == IsFiniteSet(Callers) /\ Free \notin Callers
ASSUME PlanAssumption ==
  /\ DOMAIN Plan = Callers
  /\ \A c \in Callers : Plan[c] \in Seq(Rows) /\ Plan[c] # <<>>
ASSUME AttemptsAssumption == MaxAttempts \in Nat \ {0}

VARIABLES
  balance,     \* each row: the callers whose increments it contains
  holder,      \* whose transaction has updated it
  at,          \* where each call is
  tried,       \* its attempt
  updated,     \* how many rows of its plan it has updated
  snapshot,    \* what it read: the rows of its snapshot
  outcome,
  applied,     \* history: the calls whose transaction was committed...
  seen,        \* ... and which of them a snapshot contains
  conflicts,   \* history: the 40001s of each call...
  deadlocks    \* ... and its 40P01s

failures == <<conflicts, deadlocks>>
history == <<applied, seen, failures>>
retryVars == <<balance, holder, at, tried, updated, snapshot, outcome, history>>

RetryTypeOK ==
  /\ balance \in [Rows -> SUBSET Callers]
  /\ holder \in [Rows -> Callers \cup {Free}]
  /\ at \in [Callers -> {"begin", "update", "commit", "returned", "thrown"}]
  /\ tried \in [Callers -> 0..MaxAttempts]
  /\ updated \in [Callers -> Nat]
  /\ snapshot \in [Callers -> [Rows -> SUBSET Callers]]
  /\ outcome \in [Callers -> {"none", "done", "exhausted", "error"}]
  /\ applied \in SUBSET Callers
  /\ seen \in [Callers -> SUBSET Callers]
  /\ conflicts \in [Callers -> Nat] /\ deadlocks \in [Callers -> Nat]

RetryInit ==
  /\ balance = [x \in Rows |-> {}]
  /\ holder = [x \in Rows |-> Free]
  /\ at = [c \in Callers |-> "begin"]
  /\ tried = [c \in Callers |-> 0]
  /\ updated = [c \in Callers |-> 0]
  /\ snapshot = [c \in Callers |-> [x \in Rows |-> {}]]
  /\ outcome = [c \in Callers |-> "none"]
  /\ applied = {}
  /\ seen = [c \in Callers |-> {}]
  /\ conflicts = [c \in Callers |-> 0] /\ deadlocks = [c \in Callers |-> 0]

-----------------------------------------------------------------------------
PlanOf(c) == {Plan[c][i] : i \in DOMAIN Plan[c]}
NextRow(c) == Plan[c][updated[c] + 1]
Release(c) == holder' = [x \in Rows |-> IF holder[x] = c THEN Free ELSE holder[x]]
Ends(c, how, result) ==
  /\ at' = [at EXCEPT ![c] = how]
  /\ outcome' = [outcome EXCEPT ![c] = result]

(* BEGIN and the operation's SELECT, which takes the snapshot. *)
Begin(c) ==
  /\ at[c] = "begin" /\ tried[c] < MaxAttempts
  /\ at' = [at EXCEPT ![c] = "update"]
  /\ tried' = [tried EXCEPT ![c] = @ + 1]
  /\ updated' = [updated EXCEPT ![c] = 0]
  /\ snapshot' = [snapshot EXCEPT ![c] = balance]
  /\ seen' = [seen EXCEPT ![c] = applied]
  /\ UNCHANGED <<balance, holder, outcome, applied, failures>>

\* Unchanged with a fault, for the checks.
UnchangedReadCommitted(c, x) == TRUE
(* No transaction has committed a newer version of the row than was read.    *)
Unchanged(c, x) == balance[x] = snapshot[c][x]

(* The next UPDATE waits while another transaction has updated the row.      *)
Update(c) ==
  /\ at[c] = "update" /\ holder[NextRow(c)] \in {Free, c}
  /\ Unchanged(c, NextRow(c))
  /\ holder' = [holder EXCEPT ![NextRow(c)] = c]
  /\ updated' = [updated EXCEPT ![c] = @ + 1]
  /\ at' = [at EXCEPT ![c] = IF updated[c] + 1 = Len(Plan[c]) THEN "commit" ELSE "update"]
  /\ UNCHANGED <<balance, tried, snapshot, outcome, history>>

(* The catch clause for 40001 and 40P01: rolled back, and tried again after   *)
(* the delay unless this was the last attempt.                                 *)
RetryOrThrow(c) ==
  /\ Release(c)
  /\ IF tried[c] >= MaxAttempts THEN Ends(c, "thrown", "exhausted")
     ELSE at' = [at EXCEPT ![c] = "begin"] /\ UNCHANGED outcome
  /\ UNCHANGED <<balance, tried, updated, snapshot, applied, seen>>

SerializationFailure(c) ==
  /\ at[c] = "update" /\ holder[NextRow(c)] = Free
  /\ ~Unchanged(c, NextRow(c))
  /\ RetryOrThrow(c)
  /\ conflicts' = [conflicts EXCEPT ![c] = @ + 1] /\ UNCHANGED deadlocks

(* Whom a waiting call waits for; in a circle each is waited for as well.    *)
Waits(c, d) == at[c] = "update" /\ c # d /\ holder[NextRow(c)] = d
DeadlockDetected(c) ==
  /\ at[c] = "update"
  /\ \E ring \in SUBSET Callers :
       /\ c \in ring
       /\ \A d \in ring : \E e, f \in ring : Waits(d, e) /\ Waits(f, d)
  /\ RetryOrThrow(c)
  /\ deadlocks' = [deadlocks EXCEPT ![c] = @ + 1] /\ UNCHANGED conflicts

CommitApplies(c) ==
  /\ at[c] = "commit"
  /\ balance' = [x \in Rows |-> IF x \in PlanOf(c) THEN snapshot[c][x] \cup {c} ELSE balance[x]]
  /\ applied' = applied \cup {c}
  /\ Release(c)
  /\ UNCHANGED <<tried, updated, snapshot, seen, failures>>
Committed(c) == CommitApplies(c) /\ Ends(c, "returned", "done")

(* Any other error is thrown at once: with the transaction rolled back, or    *)
(* applied when only the answer of the COMMIT was lost.                        *)
CommitLost(c) == CommitApplies(c) /\ Ends(c, "thrown", "error")
OtherError(c) ==
  /\ at[c] \in {"update", "commit"}
  /\ Release(c) /\ Ends(c, "thrown", "error")
  /\ UNCHANGED <<balance, tried, updated, snapshot, history>>

RetryNext ==
  \E c \in Callers :
    \/ Begin(c) \/ Update(c) \/ SerializationFailure(c) \/ DeadlockDetected(c)
    \/ Committed(c) \/ CommitLost(c) \/ OtherError(c)

RetrySpec == RetryInit /\ [][RetryNext]_retryVars

-----------------------------------------------------------------------------
(* Every applied call's increment is in every row it updates, and no other    *)
(* is: no update is lost and none is applied twice, however often it was tried.*)
NoLostUpdate ==
  \A x \in Rows : balance[x] = {c \in applied : x \in PlanOf(c)}

(* A returned call was applied, one that gave up was not.                     *)
OutcomesAreTrue ==
  \A c \in Callers :
    /\ outcome[c] = "done" => c \in applied
    /\ outcome[c] = "exhausted" => c \notin applied /\ tried[c] = MaxAttempts

(* A call gives up only when every attempt has failed, and each 40001 among   *)
(* the failures is another call's commit that it met once: with fewer rivals   *)
(* than attempts only deadlocks, of which nobody need have committed, can make  *)
(* it give up.                                                                  *)
GivingUpIsPaid ==
  \A c \in Callers :
    /\ conflicts[c] <= Cardinality(applied \ {c})
    /\ outcome[c] = "exhausted" =>
         MaxAttempts <= deadlocks[c] + Cardinality(applied \ {c})

(* Every attempt but the one that is open, or ended the call, failed.         *)
AttemptsAreCounted ==
  \A c \in Callers :
    tried[c] = conflicts[c] + deadlocks[c]
                 + (IF at[c] = "begin" \/ outcome[c] = "exhausted" THEN 0 ELSE 1)

(* What the two rest on: a transaction's updated rows are its own and as its  *)
(* snapshot shows them, and a snapshot shows exactly the calls it has seen.    *)
SnapshotsHold ==
  \A c \in Callers :
    /\ at[c] \in {"begin", "update", "commit"} => c \notin applied /\ outcome[c] = "none"
    /\ at[c] \in {"update", "commit"} =>
         /\ seen[c] \subseteq applied
         /\ \A x \in Rows : snapshot[c][x] = {d \in seen[c] : x \in PlanOf(d)}
         /\ conflicts[c] <= Cardinality(seen[c])
         /\ \A i \in 1..updated[c] :
              holder[Plan[c][i]] = c /\ balance[Plan[c][i]] = snapshot[c][Plan[c][i]]
    /\ at[c] = "update" => updated[c] < Len(Plan[c])
    /\ at[c] = "commit" => updated[c] = Len(Plan[c])

RetryInv ==
  /\ RetryTypeOK /\ NoLostUpdate /\ OutcomesAreTrue /\ GivingUpIsPaid
  /\ AttemptsAreCounted /\ SnapshotsHold
=============================================================================
