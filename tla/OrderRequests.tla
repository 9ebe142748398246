--------------------------- MODULE OrderRequests ---------------------------
(***************************************************************************)
(* Idempotent order creation (src/marketplace/src/order-creation.service.ts *)
(* with repositories/orders.repository.ts and DatabaseService.transaction).  *)
(* A call takes a pooled connection, a transaction-scoped advisory lock on    *)
(* the hash of its Idempotency-Key, and then either answers from the request *)
(* row of that key or writes order, request and outbox event together.  A     *)
(* client that got no answer simply calls again with its key.                 *)
(***************************************************************************)
EXTENDS Integers, FiniteSets

CONSTANTS
  Calls,       \* calls of create(); an order is named after its call
  Keys, Bodies,
  Rejected,    \* bodies with an invalid item or an unknown product
  Slots,       \* advisory lock numbers
  SlotOf,      \* hashtextextended(key, 0)
  PoolSize,    \* DB_POOL_MAX
  Nobody, NoOrder

ASSUME SlotAssumption == SlotOf \in [Keys -> Slots] /\ Rejected \subseteq Bodies
ASSUME PoolAssumption == PoolSize \in Nat \ {0}
ASSUME NamesAssumption == Nobody \notin Calls /\ NoOrder \notin Calls

VARIABLES
  request,     \* order_requests: body and order of each key
  orders,      \* committed orders, with their items
  events,      \* orders whose outbox row is committed
  lock,        \* whose transaction holds each advisory lock
  guest,       \* whose transaction holds the guest user's row
  pc, ask,     \* where each call is; its key, body and whether it is a guest's
  answer,      \* what it was told
  faulted      \* history: calls that met a failure of the infrastructure

db == <<request, orders, events>>
vars == <<db, lock, guest, pc, ask, answer, faulted>>

NoRequest == [body |-> "none", order |-> NoOrder]
Asks == [key: Keys, body: Bodies, guest: BOOLEAN]
Told(kind, order) == [kind |-> kind, order |-> order]
Kinds == {"none", "created", "replayed", "conflict", "rejected", "failed"}

InTransaction == {"lock", "look", "guest", "create", "record", "commit"}

TypeOK ==
  /\ request \in [Keys -> [body: Bodies, order: Calls] \cup {NoRequest}]
  /\ orders \in SUBSET Calls
  /\ events \in SUBSET Calls
  /\ lock \in [Slots -> Calls \cup {Nobody}]
  /\ guest \in Calls \cup {Nobody}
  /\ pc \in [Calls -> {"idle", "invalidate", "ended"} \cup InTransaction]
  /\ ask \in [Calls -> Asks]
  /\ answer \in [Calls -> [kind: Kinds, order: Calls \cup {NoOrder}]]
  /\ faulted \in SUBSET Calls

Init ==
  /\ request = [k \in Keys |-> NoRequest]
  /\ orders = {} /\ events = {}
  /\ lock = [s \in Slots |-> Nobody]
  /\ guest = Nobody
  /\ pc = [c \in Calls |-> "idle"]
  /\ ask \in [Calls -> Asks]
  /\ answer = [c \in Calls |-> Told("none", NoOrder)]
  /\ faulted = {}

-----------------------------------------------------------------------------
Goto(c, step) == pc' = [pc EXCEPT ![c] = step]
Tell(c, kind, order) == answer' = [answer EXCEPT ![c] = Told(kind, order)]
Slot(c) == SlotOf[ask[c].key]
Previous(c) == request[ask[c].key]
Connected == {c \in Calls : pc[c] \in InTransaction}

(* COMMIT or ROLLBACK, and the connection goes back to the pool. *)
EndTransaction(c) ==
  /\ lock' = [s \in Slots |-> IF lock[s] = c THEN Nobody ELSE lock[s]]
  /\ guest' = IF guest = c THEN Nobody ELSE guest

(* transaction(): wait for a connection, BEGIN. *)
Begin(c) ==
  /\ pc[c] = "idle" /\ Cardinality(Connected) < PoolSize
  /\ Goto(c, "lock")
  /\ UNCHANGED <<db, lock, guest, ask, answer, faulted>>

(* pg_advisory_xact_lock, released with the transaction. *)
Lock(c) ==
  /\ pc[c] = "lock" /\ lock[Slot(c)] = Nobody
  /\ lock' = [lock EXCEPT ![Slot(c)] = c]
  /\ Goto(c, "look")
  /\ UNCHANGED <<db, guest, ask, answer, faulted>>

\* LookNew with a fault, for the checks.
LookOnPool(c) ==
  /\ pc[c] = "look" /\ Previous(c) = NoRequest
  /\ Cardinality(Connected) < PoolSize
  /\ Goto(c, IF ask[c].guest THEN "guest" ELSE "create")
  /\ UNCHANGED <<db, lock, guest, ask, answer, faulted>>

(* The request row of the key: none, so this call creates the order... *)
LookNew(c) ==
  /\ pc[c] = "look" /\ Previous(c) = NoRequest
  /\ Goto(c, IF ask[c].guest THEN "guest" ELSE "create")
  /\ UNCHANGED <<db, lock, guest, ask, answer, faulted>>

\* Replay with a fault, for the checks.
ReplayAny(c) ==
  /\ pc[c] = "look" /\ Previous(c) # NoRequest
  /\ Tell(c, "replayed", Previous(c).order)
  /\ Goto(c, "ended")
  /\ EndTransaction(c)
  /\ UNCHANGED <<db, ask, faulted>>

(* ... the same body, so it answers with that order... *)
Replay(c) ==
  /\ pc[c] = "look" /\ Previous(c) # NoRequest /\ Previous(c).body = ask[c].body
  /\ Tell(c, "replayed", Previous(c).order)
  /\ Goto(c, "ended")
  /\ EndTransaction(c)
  /\ UNCHANGED <<db, ask, faulted>>

(* ... or another body: 422. *)
Conflict(c) ==
  /\ pc[c] = "look" /\ Previous(c) # NoRequest /\ Previous(c).body # ask[c].body
  /\ Tell(c, "conflict", NoOrder)
  /\ Goto(c, "ended")
  /\ EndTransaction(c)
  /\ UNCHANGED <<db, ask, faulted>>

(* The upsert of the guest user locks its row until the transaction ends. *)
LockGuest(c) ==
  /\ pc[c] = "guest" /\ guest = Nobody
  /\ guest' = c
  /\ Goto(c, "create")
  /\ UNCHANGED <<db, lock, ask, answer, faulted>>

(* OrdersRepository.create refuses the body: 422, and the key stays free. *)
Refuse(c) ==
  /\ pc[c] = "create" /\ ask[c].body \in Rejected
  /\ Tell(c, "rejected", NoOrder)
  /\ Goto(c, "ended")
  /\ EndTransaction(c)
  /\ UNCHANGED <<db, ask, faulted>>

(* The order and its items, still private to the transaction. *)
Create(c) ==
  /\ pc[c] = "create" /\ ask[c].body \notin Rejected
  /\ Goto(c, "record")
  /\ UNCHANGED <<db, lock, guest, ask, answer, faulted>>

(* INSERT INTO order_requests: it waits for another transaction's            *)
(* uncommitted row of the same key, and violates the primary key when that    *)
(* row is committed: the call would reject.                                    *)
Record(c) ==
  /\ pc[c] = "record"
  /\ \A d \in Calls : pc[d] = "commit" => ask[d].key # ask[c].key
  /\ IF Previous(c) = NoRequest
     THEN Goto(c, "commit") /\ UNCHANGED <<lock, guest, answer>>
     ELSE Goto(c, "ended") /\ Tell(c, "failed", NoOrder) /\ EndTransaction(c)
  /\ UNCHANGED <<db, ask, faulted>>

\* CommitEffects with a fault, for the checks.
CommitEffectsWithoutRequest(c) ==
  /\ pc[c] = "commit"
  /\ request' = request
  /\ orders' = orders \cup {c}
  /\ events' = events \cup {c}
  /\ EndTransaction(c)
  /\ UNCHANGED ask

(* enqueueOrder and COMMIT: order, request and event become visible. *)
CommitEffects(c) ==
  /\ pc[c] = "commit"
  /\ request' = [request EXCEPT ![ask[c].key] = [body |-> ask[c].body, order |-> c]]
  /\ orders' = orders \cup {c}
  /\ events' = events \cup {c}
  /\ EndTransaction(c)
  /\ UNCHANGED ask

Commit(c) == CommitEffects(c) /\ Goto(c, "invalidate") /\ UNCHANGED <<answer, faulted>>

CommitUnanswered(c) ==
  /\ CommitEffects(c)
  /\ Tell(c, "failed", NoOrder)
  /\ Goto(c, "ended")
  /\ faulted' = faulted \cup {c}

(* The cards are invalidated, which never throws, and the order is returned. *)
Return(c) ==
  /\ pc[c] = "invalidate"
  /\ Tell(c, "created", c)
  /\ Goto(c, "ended")
  /\ UNCHANGED <<db, lock, guest, ask, faulted>>

(* A query, the session or the process fails: ROLLBACK before the COMMIT,    *)
(* an unanswered call after it.                                                *)
Abort(c) ==
  /\ pc[c] \in InTransaction \cup {"invalidate"}
  /\ Tell(c, "failed", NoOrder)
  /\ Goto(c, "ended")
  /\ EndTransaction(c)
  /\ faulted' = faulted \cup {c}
  /\ UNCHANGED <<db, ask>>

Step(c) ==
  \/ Begin(c) \/ Lock(c) \/ LookNew(c) \/ Replay(c) \/ Conflict(c) \/ LockGuest(c)
  \/ Refuse(c) \/ Create(c) \/ Record(c) \/ Commit(c) \/ Return(c)

Finished == (\A c \in Calls : pc[c] = "ended") /\ UNCHANGED vars

Next == (\E c \in Calls : Step(c) \/ CommitUnanswered(c) \/ Abort(c)) \/ Finished

Spec == Init /\ [][Next]_vars

(* PostgreSQL grants free locks, the pool hands out free connections. *)
FairSpec == Spec /\ \A c \in Calls : WF_vars(Step(c))

-----------------------------------------------------------------------------
(* One intent, one order: whatever calls raced, failed or were repeated, the *)
(* key's row names the only order created with it, under the body it was      *)
(* created with, and the order's event is there.                               *)
OneOrderPerKey ==
  /\ \A c \in orders : request[ask[c].key] = [body |-> ask[c].body, order |-> c]
  /\ \A k \in Keys : request[k] # NoRequest => request[k].order \in orders
  /\ events = orders

(* Two answers to one key name the same committed order, and a call with     *)
(* another body is told so, never given that order.                            *)
AnswersAgree ==
  \A c \in Calls :
    /\ answer[c].kind \in {"created", "replayed"} =>
         /\ answer[c].order \in orders
         /\ Previous(c) = [body |-> ask[c].body, order |-> answer[c].order]
    /\ answer[c].kind = "conflict" =>
         Previous(c) # NoRequest /\ Previous(c).body # ask[c].body

(* A race for a key is settled by the lock, not by the primary key: no call  *)
(* fails unless something failed under it.                                     *)
RacesAreNotErrors == \A c \in Calls : answer[c].kind = "failed" => c \in faulted

(* Calls whose transaction is past the look hold the lock of their key, and  *)
(* the key is still free.                                                       *)
LockedAndNew ==
  \A c \in Calls :
    /\ pc[c] \in InTransaction \ {"lock"} => lock[Slot(c)] = c
    /\ pc[c] \in {"guest", "create", "record", "commit"} => Previous(c) = NoRequest

(* Where a call's order and answer stand. *)
CallShape ==
  \A c \in Calls :
    /\ pc[c] \in {"idle"} \cup InTransaction => c \notin orders
    /\ pc[c] = "invalidate" => c \in orders
    /\ pc[c] \in {"record", "commit"} => ask[c].body \notin Rejected
    /\ pc[c] # "ended" => answer[c] = Told("none", NoOrder)

(* The inductive invariant. *)
RequestInv ==
  /\ TypeOK
  /\ LockedAndNew
  /\ CallShape
  /\ OneOrderPerKey
  /\ AnswersAgree
  /\ RacesAreNotErrors

(* Every call is answered, with any pool: a transaction needs no second       *)
(* connection, and key before guest is the order of every transaction.         *)
EveryCallEnds == \A c \in Calls : pc[c] = "idle" ~> pc[c] = "ended"

(* The calls are answered as the contract application would answer them one  *)
(* at a time, in the order in which their transactions took effect: a lost     *)
(* answer is one the client did not hear, a failed call one nobody made.       *)
ServedTo(c) == IF c \in orders THEN Told("created", c)
               ELSE IF answer[c].kind = "failed" THEN Told("none", NoOrder)
               ELSE answer[c]
Contract == INSTANCE ContractApp WITH
  idempotencyRecords <- request, placed <- orders, asked <- ask,
  served <- [c \in Calls |-> ServedTo(c)]
Contracted == Contract!ContractSpec
=============================================================================
