----------------------------- MODULE ContractApp -----------------------------
(***************************************************************************)
(* POST /orders as the in-memory contract application answers it             *)
(* (src/marketplace/src/app.ts): one request at a time, from a Map of          *)
(* idempotency records and an array of orders.  The application with the       *)
(* database is shown to be no different (Contracted in OrderRequests).         *)
(***************************************************************************)
EXTENDS Naturals

CONSTANTS Calls, Keys, Bodies, Rejected, NoOrder

VARIABLES
  idempotencyRecords,   \* fingerprint and order of each key
  placed,               \* the orders, named after the request that made them
  asked, served         \* each request, and its answer

contractVars == <<idempotencyRecords, placed, asked, served>>

NoRecord == [body |-> "none", order |-> NoOrder]
Served(kind, order) == [kind |-> kind, order |-> order]

ContractInit ==
  /\ idempotencyRecords = [k \in Keys |-> NoRecord]
  /\ placed = {}
  /\ asked \in [Calls -> [key : Keys, body : Bodies, guest : BOOLEAN]]
  /\ served = [c \in Calls |-> Served("none", NoOrder)]

-----------------------------------------------------------------------------
Record(c) == idempotencyRecords[asked[c].key]
Answer(c, kind, order) ==
  /\ served[c].kind = "none"
  /\ served' = [served EXCEPT ![c] = Served(kind, order)]

(* 422: the key was used with another body; 201 again: with this one.        *)
OtherBody(c) ==
  /\ Record(c) # NoRecord /\ Record(c).body # asked[c].body
  /\ Answer(c, "conflict", NoOrder)
  /\ UNCHANGED <<idempotencyRecords, placed, asked>>
SameBody(c) ==
  /\ Record(c) # NoRecord /\ Record(c).body = asked[c].body
  /\ Answer(c, "replayed", Record(c).order)
  /\ UNCHANGED <<idempotencyRecords, placed, asked>>

(* 422: unknown products; the key stays free. *)
UnknownProduct(c) ==
  /\ Record(c) = NoRecord /\ asked[c].body \in Rejected
  /\ Answer(c, "rejected", NoOrder)
  /\ UNCHANGED <<idempotencyRecords, placed, asked>>

(* 201: the order and the record of its key. *)
NewOrder(c) ==
  /\ Record(c) = NoRecord /\ asked[c].body \notin Rejected
  /\ Answer(c, "created", c)
  /\ placed' = placed \cup {c}
  /\ idempotencyRecords' =
       [idempotencyRecords EXCEPT ![asked[c].key] = [body |-> asked[c].body, order |-> c]]
  /\ UNCHANGED asked

ContractNext ==
  \E c \in Calls : OtherBody(c) \/ SameBody(c) \/ UnknownProduct(c) \/ NewOrder(c)

ContractSpec == ContractInit /\ [][ContractNext]_contractVars
=============================================================================
