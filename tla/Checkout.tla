------------------------------ MODULE Checkout ------------------------------
(***************************************************************************)
(* Paid checkouts racing for stock and money                                 *)
(* (src/marketplace/src/checkout.ts with outbox/write.ts).  Each call runs   *)
(* one READ COMMITTED transaction: a guarded UPDATE of the product, a        *)
(* guarded UPDATE of the buyer, then the inserts of the order, its item, its *)
(* job and its outbox event.  An UPDATE holds its row until the transaction  *)
(* ends; what it wrote is visible to nobody else before COMMIT.               *)
(***************************************************************************)
EXTENDS Integers, Sequences, FiniteSets

CONSTANTS
  Calls,        \* calls of checkout()
  Products, Buyers,
  Price,        \* price_cents of each product
  Stock,        \* stock of each product before any checkout
  Balance,      \* balance_cents of each buyer before any checkout
  Wishes,       \* what calls may ask for
  MaxTotal,     \* orders_total_cents_check
  Nobody        \* holder of an unlocked row

ASSUME MoneyAssumption ==
  /\ Price \in [Products -> Nat] /\ Stock \in [Products -> Nat]
  /\ Balance \in [Buyers -> Nat] /\ MaxTotal \in Nat
(* A validated request: checkout() refuses a quantity that is not positive. *)
Wish == [product: Products, buyer: Buyers, quantity: Nat \ {0}]
ASSUME WishesAssumption == Wishes \subseteq Wish
ASSUME NobodyAssumption == Nobody \notin Calls

(* What the transaction inserts, in this order. *)
Tables == <<"order", "items", "job", "outbox">>
TableNames == {"order", "items", "job", "outbox"}

VARIABLES
  stock, balance,    \* committed columns
  rows,              \* rows[t]: the calls whose row in table t is committed
  productHolder, buyerHolder,  \* whose transaction holds each row
  pc,                \* where each call is
  what,              \* product, buyer and quantity of each call
  written            \* tables each open transaction has inserted into

db == <<stock, balance, rows>>
locks == <<productHolder, buyerHolder>>
vars == <<db, locks, pc, what, written>>

InTransaction == {"product", "buyer"} \cup TableNames \cup {"commit"}
Ended == {"ok", "soldOut", "poor", "failed"}

TypeOK ==
  /\ stock \in [Products -> Nat]
  /\ balance \in [Buyers -> Nat]
  /\ rows \in [TableNames -> SUBSET Calls]
  /\ productHolder \in [Products -> Calls \cup {Nobody}]
  /\ buyerHolder \in [Buyers -> Calls \cup {Nobody}]
  /\ pc \in [Calls -> {"idle", "invalidate"} \cup InTransaction \cup Ended]
  /\ what \in [Calls -> Wish]
  /\ written \in [Calls -> SUBSET TableNames]

Init ==
  /\ stock = Stock
  /\ balance = Balance
  /\ rows = [t \in TableNames |-> {}]
  /\ productHolder = [p \in Products |-> Nobody]
  /\ buyerHolder = [b \in Buyers |-> Nobody]
  /\ pc = [c \in Calls |-> "idle"]
  /\ what \in [Calls -> Wishes]
  /\ written = [c \in Calls |-> {}]

Total(c) == Price[what[c].product] * what[c].quantity
Goto(c, step) == pc' = [pc EXCEPT ![c] = step]
Without(holder, c) == [x \in DOMAIN holder |-> IF holder[x] = c THEN Nobody ELSE holder[x]]

(* COMMIT or ROLLBACK: the transaction's locks and private rows are gone. *)
EndTransaction(c) ==
  /\ productHolder' = Without(productHolder, c)
  /\ buyerHolder' = Without(buyerHolder, c)
  /\ written' = [written EXCEPT ![c] = {}]

(* A validated call opens its transaction. *)
Begin(c) ==
  /\ pc[c] = "idle"
  /\ Goto(c, "product")
  /\ UNCHANGED <<db, locks, what, written>>

(* UPDATE products SET stock = stock - n WHERE stock >= n: it waits for the  *)
(* row and evaluates the guard again on what the previous holder committed.  *)
TakeStock(c) ==
  LET p == what[c].product IN
  /\ pc[c] = "product"
  /\ stock[p] >= what[c].quantity /\ productHolder[p] = Nobody
  /\ productHolder' = [productHolder EXCEPT ![p] = c]
  /\ Goto(c, "buyer")
  /\ UNCHANGED <<db, buyerHolder, what, written>>

\* SoldOut with a fault, for the checks.
SoldOutWhileHeld(c) ==
  LET p == what[c].product IN
  /\ pc[c] = "product"
  /\ stock[p] < what[c].quantity \/ productHolder[p] # Nobody
  /\ Goto(c, "soldOut")
  /\ EndTransaction(c)
  /\ UNCHANGED <<db, what>>

(* No row qualifies, held or not: OUT_OF_STOCK, and ROLLBACK. *)
SoldOut(c) ==
  /\ pc[c] = "product" /\ stock[what[c].product] < what[c].quantity
  /\ Goto(c, "soldOut")
  /\ EndTransaction(c)
  /\ UNCHANGED <<db, what>>

(* UPDATE users SET balance_cents = balance_cents - total, guarded likewise. *)
TakeMoney(c) ==
  LET b == what[c].buyer IN
  /\ pc[c] = "buyer"
  /\ balance[b] >= Total(c) /\ buyerHolder[b] = Nobody
  /\ buyerHolder' = [buyerHolder EXCEPT ![b] = c]
  /\ Goto(c, "order")
  /\ UNCHANGED <<db, productHolder, what, written>>

\* Poor with a fault, for the checks.
PoorKeepingStock(c) ==
  /\ pc[c] = "buyer" /\ balance[what[c].buyer] < Total(c)
  /\ Goto(c, "poor")
  /\ EndTransaction(c)
  /\ stock' = [stock EXCEPT ![what[c].product] = @ - what[c].quantity]
  /\ UNCHANGED <<balance, rows, what>>

\* Poor with a fault, for the checks.
PoorWithoutRollback(c) ==
  /\ pc[c] = "buyer" /\ balance[what[c].buyer] < Total(c)
  /\ Goto(c, "poor")
  /\ UNCHANGED <<db, locks, what, written>>

(* INSUFFICIENT_FUNDS: the ROLLBACK gives the stock back. *)
Poor(c) ==
  /\ pc[c] = "buyer" /\ balance[what[c].buyer] < Total(c)
  /\ Goto(c, "poor")
  /\ EndTransaction(c)
  /\ UNCHANGED <<db, what>>

(* The inserts, each a statement of the same transaction; the first one      *)
(* fails when the total is out of the column's range.                         *)
Insert(c) ==
  \E i \in DOMAIN Tables :
    /\ pc[c] = Tables[i] /\ Total(c) <= MaxTotal
    /\ written' = [written EXCEPT ![c] = @ \cup {Tables[i]}]
    /\ Goto(c, IF i = Len(Tables) THEN "commit" ELSE Tables[i + 1])
    /\ UNCHANGED <<db, locks, what>>

(* The effects of the transaction become visible together. *)
CommitEffects(c) ==
  /\ pc[c] = "commit"
  /\ stock' = [stock EXCEPT ![what[c].product] = @ - what[c].quantity]
  /\ balance' = [balance EXCEPT ![what[c].buyer] = @ - Total(c)]
  /\ rows' = [t \in TableNames |-> rows[t] \cup (IF t \in written[c] THEN {c} ELSE {})]
  /\ EndTransaction(c)
  /\ UNCHANGED what

Commit(c) == CommitEffects(c) /\ Goto(c, "invalidate")

(* COMMIT took effect but the call never hears of it. *)
CommitUnanswered(c) == CommitEffects(c) /\ Goto(c, "failed")

(* invalidateProductCards never throws: the order id is returned. *)
Return(c) ==
  /\ pc[c] = "invalidate"
  /\ Goto(c, "ok")
  /\ UNCHANGED <<db, locks, what, written>>

OutOfRange(c) == pc[c] = "order" /\ Total(c) > MaxTotal

(* A statement fails, the session or the process dies: ROLLBACK (nothing to  *)
(* undo after the COMMIT), and the call rejects or is never answered.         *)
Abort(c) ==
  /\ pc[c] \in InTransaction \cup {"invalidate"}
  /\ Goto(c, "failed")
  /\ EndTransaction(c)
  /\ UNCHANGED <<db, what>>

Reject(c) == OutOfRange(c) /\ Abort(c)

Step(c) ==
  \/ TakeStock(c) \/ SoldOut(c) \/ TakeMoney(c) \/ Poor(c) \/ Insert(c)
  \/ Reject(c) \/ Commit(c) \/ Return(c)

Done == /\ \A c \in Calls : pc[c] \in Ended
        /\ UNCHANGED vars

Next ==
  \/ \E c \in Calls : Begin(c) \/ Step(c) \/ CommitUnanswered(c) \/ Abort(c)
  \/ Done

Spec == Init /\ [][Next]_vars

(* PostgreSQL runs a statement whose row is free, the process keeps going. *)
FairSpec == Spec /\ \A c \in Calls : WF_vars(Step(c))

-----------------------------------------------------------------------------
Orders == rows["order"]

(* The sum of an amount over some calls, as a number of units: TLAPS has no  *)
(* induction over data, so a recursive sum could not be reasoned about.       *)
SumOver(calls, amount) == Cardinality(UNION {{c} \X (1..amount[c]) : c \in calls})

Quantities == [c \in Calls |-> what[c].quantity]
Totals == [c \in Calls |-> Total(c)]

(* Nothing is oversold and no money appears or vanishes: what left the       *)
(* product and the buyer is exactly what the committed orders hold, whoever   *)
(* rolled back in between.                                                     *)
StockLedger ==
  \A p \in Products :
    Stock[p] = stock[p] + SumOver({c \in Orders : what[c].product = p}, Quantities)
MoneyLedger ==
  \A b \in Buyers :
    Balance[b] = balance[b] + SumOver({c \in Orders : what[c].buyer = b}, Totals)
Ledgers == StockLedger /\ MoneyLedger

(* An order never exists without its item, its job and its outbox event, nor *)
(* they without it.                                                            *)
OrdersAreWhole == \A t \in TableNames : rows[t] = Orders

(* An answer is true: an id for a committed order, OUT_OF_STOCK only when    *)
(* committed orders (not a purchase that then rolled back) took the stock,    *)
(* INSUFFICIENT_FUNDS only when the money is not there.                        *)
AnswersAreTrue ==
  \A c \in Calls :
    /\ pc[c] = "ok" => c \in Orders
    /\ pc[c] = "soldOut" => c \notin Orders /\ stock[what[c].product] < what[c].quantity
    /\ pc[c] = "poor" => c \notin Orders /\ balance[what[c].buyer] < Total(c)

(* Between the guard and the COMMIT nobody else can spend what a transaction *)
(* has taken: it holds the rows, and they still cover it.                     *)
TakenIsCovered ==
  \A c \in Calls :
    LET w == what[c] IN
    /\ pc[c] \in InTransaction \ {"product"} =>
         productHolder[w.product] = c /\ stock[w.product] >= w.quantity
    /\ pc[c] \in TableNames \cup {"commit"} =>
         buyerHolder[w.buyer] = c /\ balance[w.buyer] >= Total(c)

(* What each call has inserted when it is at a given table or beyond. *)
WrittenBefore(step) ==
  CASE step = "items" -> {"order"}
    [] step = "job" -> {"order", "items"}
    [] step = "outbox" -> {"order", "items", "job"}
    [] step = "commit" -> TableNames
    [] OTHER -> {}

(* The inductive invariant. *)
CheckoutInv ==
  /\ TypeOK
  /\ TakenIsCovered
  /\ \A c \in Calls : written[c] = WrittenBefore(pc[c])
  /\ \A c \in Calls : pc[c] \in {"idle", "soldOut", "poor"} \cup InTransaction => c \notin Orders
  /\ \A c \in Calls : pc[c] \in {"invalidate", "ok"} => c \in Orders
  /\ OrdersAreWhole
  /\ AnswersAreTrue

(* Product before buyer, in every transaction: nobody waits in a circle, and *)
(* every call is answered.                                                     *)
EveryCallEnds == \A c \in Calls : pc[c] = "product" ~> pc[c] \in Ended
=============================================================================
