--------------------------- MODULE CheckoutProofs ---------------------------
(***************************************************************************)
(* Proofs about Checkout, for any calls, products, buyers, prices and        *)
(* amounts: an order is whole, every answer is true, stock and money are      *)
(* neither lost nor made; and about JobWorker, for any jobs and any finite    *)
(* set of workers: a committed job ran once, and every run is accounted for.  *)
(***************************************************************************)
EXTENDS Checkout, JobWorker, FiniteSetTheorems, TLAPS

LEMMA TotalType == ASSUME TypeOK, NEW c \in Calls PROVE Total(c) \in Nat
<1>1. Price[what[c].product] \in Nat /\ what[c].quantity \in Nat
  BY MoneyAssumption DEF TypeOK, Wish
<1>2. \A m, n \in Nat : m * n \in Nat
  OBVIOUS
<1> QED
  BY <1>1, <1>2 DEF Total

(* The table that follows each table. *)
LEMMA InsertSteps ==
  ASSUME NEW c \in Calls, Insert(c)
  PROVE  /\ UNCHANGED <<db, locks, what>>
         /\ \/ /\ pc[c] = "order" /\ Goto(c, "items")
               /\ written' = [written EXCEPT ![c] = @ \cup {"order"}]
            \/ /\ pc[c] = "items" /\ Goto(c, "job")
               /\ written' = [written EXCEPT ![c] = @ \cup {"items"}]
            \/ /\ pc[c] = "job" /\ Goto(c, "outbox")
               /\ written' = [written EXCEPT ![c] = @ \cup {"job"}]
            \/ /\ pc[c] = "outbox" /\ Goto(c, "commit")
               /\ written' = [written EXCEPT ![c] = @ \cup {"outbox"}]
<1>1. Len(Tables) = 4 /\ DOMAIN Tables = 1..4
  BY DEF Tables
<1>2. Tables[1] = "order" /\ Tables[2] = "items" /\ Tables[3] = "job" /\ Tables[4] = "outbox"
  BY DEF Tables
<1>3. PICK i \in 1..4 :
        /\ pc[c] = Tables[i]
        /\ written' = [written EXCEPT ![c] = @ \cup {Tables[i]}]
        /\ Goto(c, IF i = 4 THEN "commit" ELSE Tables[i + 1])
        /\ UNCHANGED <<db, locks, what>>
  BY <1>1 DEF Insert
<1>4. i = 1 \/ i = 2 \/ i = 3 \/ i = 4
  OBVIOUS
<1>5. CASE i = 4
  BY <1>2, <1>3, <1>5 DEF Goto
<1>6. CASE i # 4
  <2>1. Goto(c, Tables[i + 1])
    BY <1>3, <1>6 DEF Goto
  <2>2. \/ Tables[i] = "order" /\ Tables[i + 1] = "items"
        \/ Tables[i] = "items" /\ Tables[i + 1] = "job"
        \/ Tables[i] = "job" /\ Tables[i + 1] = "outbox"
    BY <1>2, <1>4, <1>6
  <2> QED
    BY <1>3, <2>1, <2>2
<1> QED
  BY <1>5, <1>6

(* A transaction that ends without COMMIT, or that had ended, keeps the      *)
(* invariant, provided its answer is true.                                     *)
LEMMA RollbackKeepsInv ==
  ASSUME CheckoutInv, NEW c \in Calls, NEW answer \in {"soldOut", "poor", "failed"},
         pc[c] \in InTransaction \cup {"invalidate"},
         Goto(c, answer), EndTransaction(c), UNCHANGED <<db, what>>,
         answer # "failed" => pc[c] \in InTransaction,
         answer = "soldOut" => stock[what[c].product] < what[c].quantity,
         answer = "poor" => balance[what[c].buyer] < Total(c)
  PROVE  CheckoutInv'
<1> USE DEF CheckoutInv, Goto, db
<1>1. TypeOK'
  BY DEF TypeOK, EndTransaction, Without, Ended
<1>2. \A d \in Calls \ {c} : pc'[d] = pc[d] /\ written'[d] = written[d]
  BY DEF TypeOK, EndTransaction
<1>3. pc'[c] = answer /\ written'[c] = {}
  BY DEF TypeOK, EndTransaction
<1>4. TakenIsCovered'
  <2>1. ASSUME NEW d \in Calls, pc'[d] \in InTransaction
        PROVE  /\ d # c /\ pc'[d] = pc[d]
               /\ productHolder[what[d].product] = d =>
                    productHolder'[what[d].product] = d
               /\ buyerHolder[what[d].buyer] = d => buyerHolder'[what[d].buyer] = d
    BY <1>2, <1>3, <2>1 DEF InTransaction, TableNames, EndTransaction, Without, TypeOK, Wish
  <2> QED
    BY <2>1 DEF TakenIsCovered, InTransaction, Total
<1>5. \A d \in Calls : written'[d] = WrittenBefore(pc'[d])
  BY <1>2, <1>3 DEF WrittenBefore
<1>6. OrdersAreWhole' /\ Orders' = Orders
  BY DEF OrdersAreWhole, Orders
<1>7. /\ \A d \in Calls : pc'[d] \in {"idle", "soldOut", "poor"} \cup InTransaction => d \notin Orders'
      /\ \A d \in Calls : pc'[d] \in {"invalidate", "ok"} => d \in Orders'
  BY <1>2, <1>3, <1>6 DEF InTransaction, TableNames
<1>8. AnswersAreTrue'
  BY <1>2, <1>3, <1>6, <1>7 DEF AnswersAreTrue, Total
<1> QED
  BY <1>1, <1>4, <1>5, <1>6, <1>7, <1>8

(* A COMMIT pays with rows it holds, and makes the order whole at once. *)
LEMMA CommitKeepsInv ==
  ASSUME CheckoutInv, NEW c \in Calls, CommitEffects(c),
         NEW answer \in {"invalidate", "failed"}, Goto(c, answer)
  PROVE  CheckoutInv'
<1> USE DEF CheckoutInv, Goto
<1>1. /\ what[c].product \in Products /\ what[c].buyer \in Buyers
      /\ what[c].quantity \in Nat /\ Total(c) \in Nat
      /\ productHolder[what[c].product] = c /\ buyerHolder[what[c].buyer] = c
      /\ stock[what[c].product] >= what[c].quantity
      /\ balance[what[c].buyer] >= Total(c)
  BY TotalType, MoneyAssumption
  DEF CommitEffects, TakenIsCovered, InTransaction, TableNames, TypeOK, Wish
<1>2. \A d \in Calls \ {c} : pc'[d] = pc[d] /\ written'[d] = written[d]
  BY DEF TypeOK, CommitEffects, EndTransaction
<1>3. pc'[c] = answer /\ written'[c] = {} /\ pc[c] = "commit" /\ what' = what
  BY DEF TypeOK, CommitEffects, EndTransaction
<1>4. \A t \in TableNames : rows'[t] = rows[t] \cup {c}
  BY DEF CommitEffects, WrittenBefore
<1>5. \A p \in Products : stock'[p] \in Nat /\ stock'[p] <= stock[p]
                         /\ (p # what[c].product => stock'[p] = stock[p])
  BY <1>1 DEF CommitEffects, TypeOK
<1>6. \A b \in Buyers : balance'[b] \in Nat /\ balance'[b] <= balance[b]
                       /\ (b # what[c].buyer => balance'[b] = balance[b])
  <2>1. balance' = [balance EXCEPT ![what[c].buyer] = balance[what[c].buyer] - Total(c)]
    BY DEF CommitEffects
  <2> QED
    BY <1>1, <2>1 DEF TypeOK
<1>7. TypeOK'
  <2>1. stock' \in [Products -> Nat] /\ balance' \in [Buyers -> Nat]
    BY <1>5, <1>6 DEF CommitEffects, TypeOK
  <2>2. rows' \in [TableNames -> SUBSET Calls]
    BY DEF CommitEffects, TypeOK
  <2>3. /\ productHolder' \in [Products -> Calls \cup {Nobody}]
        /\ buyerHolder' \in [Buyers -> Calls \cup {Nobody}]
        /\ written' \in [Calls -> SUBSET TableNames]
    BY DEF CommitEffects, EndTransaction, Without, TypeOK
  <2>4. pc' \in [Calls -> {"idle", "invalidate"} \cup InTransaction \cup Ended]
    BY DEF TypeOK, Ended
  <2> QED
    BY <1>3, <2>1, <2>2, <2>3, <2>4 DEF TypeOK
<1>8. TakenIsCovered'
  <2>1. ASSUME NEW d \in Calls, pc'[d] \in InTransaction
        PROVE  /\ d # c /\ pc'[d] = pc[d]
               /\ what[d].product \in Products /\ what[d].buyer \in Buyers
               /\ productHolder[what[d].product] = d =>
                    /\ productHolder'[what[d].product] = d
                    /\ stock'[what[d].product] = stock[what[d].product]
               /\ buyerHolder[what[d].buyer] = d =>
                    /\ buyerHolder'[what[d].buyer] = d
                    /\ balance'[what[d].buyer] = balance[what[d].buyer]
    BY <1>1, <1>2, <1>3, <1>5, <1>6, <2>1
    DEF InTransaction, TableNames, CommitEffects, EndTransaction, Without, TypeOK, Wish
  <2> QED
    BY <1>3, <2>1 DEF TakenIsCovered, InTransaction, TableNames, Total
<1>9. \A d \in Calls : written'[d] = WrittenBefore(pc'[d])
  BY <1>2, <1>3 DEF WrittenBefore
<1>10. OrdersAreWhole' /\ Orders' = Orders \cup {c}
  BY <1>4 DEF OrdersAreWhole, Orders, TableNames
<1>11. /\ \A d \in Calls : pc'[d] \in {"idle", "soldOut", "poor"} \cup InTransaction => d \notin Orders'
       /\ \A d \in Calls : pc'[d] \in {"invalidate", "ok"} => d \in Orders'
  BY <1>2, <1>3, <1>10 DEF InTransaction, TableNames
<1>12. AnswersAreTrue'
  <2>1. \A d \in Calls : /\ Total(d) \in Nat /\ what[d].quantity \in Nat
                         /\ what[d].product \in Products /\ what[d].buyer \in Buyers
    BY TotalType, MoneyAssumption DEF TypeOK, Wish
  <2>2. \A d \in Calls : Total(d)' = Total(d)
    BY <1>3 DEF Total
  <2>3. \A p \in Products : stock[p] \in Nat
    BY DEF TypeOK
  <2>4. \A b \in Buyers : balance[b] \in Nat
    BY DEF TypeOK
  <2>5. ASSUME NEW d \in Calls, pc'[d] = "soldOut"
        PROVE  stock'[what[d].product] < what[d].quantity
    BY <1>2, <1>3, <1>5, <2>1, <2>3, <2>5 DEF AnswersAreTrue
  <2>6. ASSUME NEW d \in Calls, pc'[d] = "poor"
        PROVE  balance'[what[d].buyer] < Total(d)
    BY <1>2, <1>3, <1>6, <2>1, <2>4, <2>6 DEF AnswersAreTrue
  <2> QED
    BY <1>3, <1>11, <2>2, <2>5, <2>6 DEF AnswersAreTrue
<1> QED
  BY <1>7, <1>8, <1>9, <1>10, <1>11, <1>12

(* A step inside a transaction that takes a free row or inserts a row.  What *)
(* the others hold and what is committed does not change.                     *)
LEMMA AdvanceKeepsInv ==
  ASSUME CheckoutInv, NEW c \in Calls, NEW step \in InTransaction, Goto(c, step),
         pc[c] \in {"idle"} \cup InTransaction, UNCHANGED <<db, what>>,
         written' = [written EXCEPT ![c] = WrittenBefore(step)],
         productHolder' \in [Products -> Calls \cup {Nobody}],
         buyerHolder' \in [Buyers -> Calls \cup {Nobody}],
         \A p \in Products : productHolder[p] # Nobody => productHolder'[p] = productHolder[p],
         \A b \in Buyers : buyerHolder[b] # Nobody => buyerHolder'[b] = buyerHolder[b],
         step # "product" => /\ productHolder'[what[c].product] = c
                             /\ stock[what[c].product] >= what[c].quantity,
         step \in TableNames \cup {"commit"} =>
           buyerHolder'[what[c].buyer] = c /\ balance[what[c].buyer] >= Total(c)
  PROVE  CheckoutInv'
<1> USE DEF CheckoutInv, Goto, db
<1>1. \A d \in Calls \ {c} : pc'[d] = pc[d] /\ written'[d] = written[d]
  BY DEF TypeOK
<1>2. pc'[c] = step /\ written'[c] = WrittenBefore(step)
  BY DEF TypeOK
<1>3. WrittenBefore(step) \in SUBSET TableNames
  BY DEF WrittenBefore, TableNames
<1>4. TypeOK'
  BY <1>3 DEF TypeOK
<1>5. TakenIsCovered'
  <2>1. ASSUME NEW d \in Calls, d # c
        PROVE  /\ what[d].product \in Products /\ what[d].buyer \in Buyers
               /\ productHolder[what[d].product] = d => productHolder'[what[d].product] = d
               /\ buyerHolder[what[d].buyer] = d => buyerHolder'[what[d].buyer] = d
    BY NobodyAssumption DEF TypeOK, Wish
  <2>2. ASSUME NEW d \in Calls PROVE Total(d)' = Total(d)
    BY DEF Total
  <2> QED
    BY <1>1, <1>2, <2>1, <2>2 DEF TakenIsCovered
<1>6. \A d \in Calls : written'[d] = WrittenBefore(pc'[d])
  BY <1>1, <1>2 DEF WrittenBefore
<1>7. OrdersAreWhole' /\ Orders' = Orders
  BY DEF OrdersAreWhole, Orders
<1>8. /\ \A d \in Calls : pc'[d] \in {"idle", "soldOut", "poor"} \cup InTransaction => d \notin Orders'
      /\ \A d \in Calls : pc'[d] \in {"invalidate", "ok"} => d \in Orders'
  BY <1>1, <1>2, <1>7 DEF InTransaction, TableNames
<1>9. AnswersAreTrue'
  BY <1>1, <1>2, <1>7, <1>8 DEF AnswersAreTrue, Total, InTransaction, TableNames
<1> QED
  BY <1>4, <1>5, <1>6, <1>7, <1>8, <1>9

(* Every step keeps the invariant: one case per action of Next. *)
LEMMA CheckoutStep == CheckoutInv /\ [Next]_vars => CheckoutInv'
<1> SUFFICES ASSUME CheckoutInv, [Next]_vars PROVE CheckoutInv'
  OBVIOUS
<1> USE DEF InTransaction, TableNames
<1>1. ASSUME NEW c \in Calls, Begin(c) PROVE CheckoutInv'
  <2>1. written' = [written EXCEPT ![c] = WrittenBefore("product")]
    BY <1>1 DEF CheckoutInv, TypeOK, Begin, WrittenBefore
  <2> QED
    BY <1>1, <2>1, AdvanceKeepsInv DEF CheckoutInv, TypeOK, Begin, locks
<1>2. ASSUME NEW c \in Calls, TakeStock(c) PROVE CheckoutInv'
  <2>1. written' = [written EXCEPT ![c] = WrittenBefore("buyer")]
    BY <1>2 DEF CheckoutInv, TypeOK, TakeStock, WrittenBefore
  <2>2. /\ productHolder' \in [Products -> Calls \cup {Nobody}]
        /\ productHolder'[what[c].product] = c
        /\ \A p \in Products : productHolder[p] # Nobody => productHolder'[p] = productHolder[p]
    BY <1>2 DEF CheckoutInv, TypeOK, Wish, TakeStock
  <2>3. buyerHolder' = buyerHolder /\ buyerHolder \in [Buyers -> Calls \cup {Nobody}]
    BY <1>2 DEF CheckoutInv, TypeOK, TakeStock
  <2> QED
    BY <1>2, <2>1, <2>2, <2>3, AdvanceKeepsInv DEF TakeStock
<1>3. ASSUME NEW c \in Calls, TakeMoney(c) PROVE CheckoutInv'
  <2>1. written' = [written EXCEPT ![c] = WrittenBefore("order")]
    BY <1>3 DEF CheckoutInv, TypeOK, TakeMoney, WrittenBefore
  <2>2. /\ buyerHolder' \in [Buyers -> Calls \cup {Nobody}]
        /\ buyerHolder'[what[c].buyer] = c
        /\ \A b \in Buyers : buyerHolder[b] # Nobody => buyerHolder'[b] = buyerHolder[b]
    BY <1>3 DEF CheckoutInv, TypeOK, Wish, TakeMoney
  <2>3. productHolder' = productHolder /\ productHolder \in [Products -> Calls \cup {Nobody}]
    BY <1>3 DEF CheckoutInv, TypeOK, TakeMoney
  <2>4. productHolder[what[c].product] = c /\ stock[what[c].product] >= what[c].quantity
    BY <1>3 DEF CheckoutInv, TakenIsCovered, TakeMoney
  <2> QED
    BY <1>3, <2>1, <2>2, <2>3, <2>4, AdvanceKeepsInv DEF TakeMoney
<1>4. ASSUME NEW c \in Calls, Insert(c) PROVE CheckoutInv'
  <2>1. PICK step \in {"items", "job", "outbox", "commit"} :
          Goto(c, step) /\ written' = [written EXCEPT ![c] = WrittenBefore(step)]
    BY <1>4, InsertSteps DEF CheckoutInv, TypeOK, WrittenBefore
  <2>2. pc[c] \in TableNames /\ UNCHANGED <<db, locks, what>>
    BY <1>4, InsertSteps
  <2>3. /\ productHolder[what[c].product] = c /\ stock[what[c].product] >= what[c].quantity
        /\ buyerHolder[what[c].buyer] = c /\ balance[what[c].buyer] >= Total(c)
    BY <2>2 DEF CheckoutInv, TakenIsCovered
  <2> QED
    BY <2>1, <2>2, <2>3, AdvanceKeepsInv DEF CheckoutInv, TypeOK, locks
<1>5. ASSUME NEW c \in Calls, SoldOut(c) PROVE CheckoutInv'
  BY <1>5, RollbackKeepsInv DEF SoldOut
<1>6. ASSUME NEW c \in Calls, Poor(c) PROVE CheckoutInv'
  BY <1>6, RollbackKeepsInv DEF Poor
<1>7. ASSUME NEW c \in Calls, Abort(c) PROVE CheckoutInv'
  BY <1>7, RollbackKeepsInv DEF Abort
<1>8. ASSUME NEW c \in Calls, Commit(c) \/ CommitUnanswered(c) PROVE CheckoutInv'
  BY <1>8, CommitKeepsInv DEF Commit, CommitUnanswered
<1>9. ASSUME NEW c \in Calls, Return(c) PROVE CheckoutInv'
  <2>1. /\ \A d \in Calls \ {c} : pc'[d] = pc[d]
        /\ pc[c] = "invalidate" /\ pc'[c] = "ok"
        /\ UNCHANGED <<db, locks, what, written>>
    BY <1>9 DEF CheckoutInv, TypeOK, Return, Goto
  <2>2. TypeOK'
    BY <1>9, <2>1 DEF CheckoutInv, TypeOK, Return, Goto, Ended, db, locks
  <2>3. TakenIsCovered'
    BY <2>1 DEF CheckoutInv, TakenIsCovered, Total, db, locks
  <2>4. \A d \in Calls : written'[d] = WrittenBefore(pc'[d])
    BY <2>1 DEF CheckoutInv, WrittenBefore
  <2>5. OrdersAreWhole' /\ Orders' = Orders
    BY <2>1 DEF CheckoutInv, OrdersAreWhole, Orders, db
  <2>6. AnswersAreTrue'
    BY <2>1, <2>5 DEF CheckoutInv, AnswersAreTrue, Total, db
  <2> QED
    BY <2>1, <2>2, <2>3, <2>4, <2>5, <2>6 DEF CheckoutInv
<1>10. CASE UNCHANGED vars
  BY <1>10 DEF CheckoutInv, TypeOK, TakenIsCovered, WrittenBefore, OrdersAreWhole,
               AnswersAreTrue, Orders, Total, vars, db, locks
<1> QED
  BY <1>1, <1>2, <1>3, <1>4, <1>5, <1>6, <1>7, <1>8, <1>9, <1>10
  DEF Next, Step, Reject, Done

(* CheckoutInv holds in every reachable state. *)
THEOREM CheckoutInvariant == Spec => []CheckoutInv
<1>1. Init => CheckoutInv
  BY MoneyAssumption, WishesAssumption
  DEF Init, CheckoutInv, TypeOK, TakenIsCovered, WrittenBefore, OrdersAreWhole,
      AnswersAreTrue, Orders, InTransaction, TableNames, Ended
<1> QED
  BY <1>1, CheckoutStep, PTL DEF Spec

(* An order, its item, its job and its outbox event stand or fall together. *)
THEOREM WholeOrders == Spec => []OrdersAreWhole
  BY CheckoutInvariant, PTL DEF CheckoutInv

(* A returned id is a committed order; a refusal tells the committed truth. *)
THEOREM TrueAnswers == Spec => []AnswersAreTrue
  BY CheckoutInvariant, PTL DEF CheckoutInv

(* An open transaction holds the rows it spends from, and they cover it. *)
THEOREM NobodyOverspends == Spec => []TakenIsCovered
  BY CheckoutInvariant, PTL DEF CheckoutInv

(* What one call counts for in a sum. *)
LEMMA OwnUnits ==
  ASSUME NEW c, NEW n \in Nat
  PROVE  IsFiniteSet({c} \X (1..n)) /\ Cardinality({c} \X (1..n)) = n
<1>1. IsFiniteSet({c}) /\ Cardinality({c}) = 1
  BY FS_Singleton
<1>2. IsFiniteSet(1..n) /\ Cardinality(1..n) = n
  BY FS_Interval
<1>3. IsFiniteSet({c} \X (1..n))
      /\ Cardinality({c} \X (1..n)) = Cardinality({c}) * Cardinality(1..n)
  BY <1>1, <1>2, FS_Product
<1>4. 1 * n = n
  OBVIOUS
<1> QED
  BY <1>1, <1>2, <1>3, <1>4

LEMMA SumOfNone == ASSUME NEW amount PROVE SumOver({}, amount) = 0
<1>1. UNION {{c} \X (1..amount[c]) : c \in {}} = {}
  OBVIOUS
<1> QED
  BY <1>1, FS_EmptySet DEF SumOver

(* A sum over finitely many calls grows by the amount of the call that joins. *)
LEMMA SumGrows ==
  ASSUME NEW calls \in SUBSET Calls, IsFiniteSet(calls), NEW c \in Calls, c \notin calls,
         NEW amount \in [Calls -> Nat]
  PROVE  /\ SumOver(calls, amount) \in Nat
         /\ SumOver(calls \cup {c}, amount) = SumOver(calls, amount) + amount[c]
<1> DEFINE Own(d) == {d} \X (1..amount[d])
           parts == {Own(d) : d \in calls}
           units == UNION parts
<1>1. ASSUME NEW d \in Calls PROVE IsFiniteSet(Own(d)) /\ Cardinality(Own(d)) = amount[d]
  BY OwnUnits
<1>2. IsFiniteSet(parts)
  <2>1. [d \in calls |-> Own(d)] \in Surjection(calls, parts)
    BY DEF Surjection
  <2> QED
    BY <2>1, FS_Surjection
<1>3. IsFiniteSet(units) /\ Cardinality(units) \in Nat
  BY <1>1, <1>2, FS_UNION, FS_CardinalityType
<1>4. UNION {Own(d) : d \in calls \cup {c}} = units \cup Own(c)
  OBVIOUS
<1>5. units \cap Own(c) = {}
  OBVIOUS
<1>6. Cardinality(units \cup Own(c))
        = Cardinality(units) + Cardinality(Own(c)) - Cardinality(units \cap Own(c))
  BY <1>1, <1>3, FS_Union
<1>7. Cardinality(units \cap Own(c)) = 0
  BY <1>5, FS_EmptySet
<1>8. SumOver(calls, amount) = Cardinality(units)
  BY DEF SumOver
<1>9. SumOver(calls \cup {c}, amount) = Cardinality(units \cup Own(c))
  BY <1>4 DEF SumOver
<1>10. Cardinality(Own(c)) = amount[c] /\ amount[c] \in Nat
  BY <1>1
<1> HIDE DEF units, Own
<1>11. Cardinality(units \cup Own(c)) = Cardinality(units) + amount[c]
  BY <1>3, <1>6, <1>7, <1>10
<1> QED
  BY <1>3, <1>8, <1>9, <1>11

LEMMA TakenIsAdded ==
  ASSUME NEW left \in Nat, NEW sum \in Nat, NEW n \in Nat
  PROVE  left + sum = (left - n) + (sum + n)
OBVIOUS

(* The ledgers with what makes their sums mean something: at any moment only *)
(* finitely many calls have committed, however many there are.                *)
Booked == IsFiniteSet(Orders) /\ Ledgers

LEMMA AmountsType ==
  ASSUME TypeOK PROVE Quantities \in [Calls -> Nat] /\ Totals \in [Calls -> Nat]
  BY TotalType DEF TypeOK, Wish, Quantities, Totals

(* A COMMIT takes from one product and one buyer what its order adds to them. *)
LEMMA CommitIsBooked ==
  ASSUME CheckoutInv, Booked, NEW c \in Calls, CommitEffects(c) PROVE Booked'
<1> DEFINE w == what[c]
<1>1. /\ TypeOK /\ w.product \in Products /\ w.buyer \in Buyers
      /\ w.quantity \in Nat /\ Total(c) \in Nat
      /\ stock \in [Products -> Nat] /\ balance \in [Buyers -> Nat]
      /\ Quantities \in [Calls -> Nat] /\ Totals \in [Calls -> Nat]
      /\ Quantities[c] = w.quantity /\ Totals[c] = Total(c)
  BY TotalType, AmountsType DEF CheckoutInv, TypeOK, Wish, Quantities, Totals
<1>2. what' = what /\ Quantities' = Quantities /\ Totals' = Totals
  BY DEF CommitEffects, Quantities, Totals, Total
<1>3. Orders' = Orders \cup {c} /\ c \notin Orders /\ Orders \subseteq Calls
  <2>1. pc[c] = "commit" /\ written[c] = TableNames
    BY DEF CheckoutInv, CommitEffects, WrittenBefore
  <2> QED
    BY <2>1 DEF CheckoutInv, TypeOK, CommitEffects, Orders, TableNames, InTransaction
<1>4. IsFiniteSet(Orders')
  BY <1>3, FS_AddElement DEF Booked
<1>5. StockLedger'
  <2> SUFFICES ASSUME NEW p \in Products
               PROVE  Stock[p] = stock'[p]
                        + SumOver({d \in Orders' : what[d].product = p}, Quantities)
    BY <1>2 DEF StockLedger
  <2> DEFINE sold == {d \in Orders : what[d].product = p}
  <2>1. Stock[p] = stock[p] + SumOver(sold, Quantities)
    BY DEF Booked, Ledgers, StockLedger
  <2>2. sold \in SUBSET Calls /\ IsFiniteSet(sold) /\ c \notin sold
    BY <1>3, FS_Subset DEF Booked
  <2>3. /\ SumOver(sold, Quantities) \in Nat
        /\ SumOver(sold \cup {c}, Quantities) = SumOver(sold, Quantities) + w.quantity
    BY <1>1, <2>2, SumGrows
  <2>4. CASE p = w.product
    <3>1. {d \in Orders' : what[d].product = p} = sold \cup {c}
      BY <1>3, <2>4
    <3>2. stock'[p] = stock[p] - w.quantity /\ stock[p] \in Nat
      BY <1>1, <2>4 DEF CommitEffects
    <3>3. stock[p] + SumOver(sold, Quantities) = (stock[p] - w.quantity) + (SumOver(sold, Quantities) + w.quantity)
      BY <1>1, <2>3, <3>2, TakenIsAdded
    <3> QED
      BY <2>1, <2>3, <3>1, <3>2, <3>3
  <2>5. CASE p # w.product
    <3>1. {d \in Orders' : what[d].product = p} = sold
      BY <1>3, <2>5
    <3>2. stock'[p] = stock[p]
      BY <1>1, <2>5 DEF CommitEffects
    <3> QED
      BY <2>1, <3>1, <3>2
  <2> QED
    BY <2>4, <2>5
<1>6. MoneyLedger'
  <2> SUFFICES ASSUME NEW b \in Buyers
               PROVE  Balance[b] = balance'[b]
                        + SumOver({d \in Orders' : what[d].buyer = b}, Totals)
    BY <1>2 DEF MoneyLedger
  <2> DEFINE paid == {d \in Orders : what[d].buyer = b}
  <2>1. Balance[b] = balance[b] + SumOver(paid, Totals)
    BY DEF Booked, Ledgers, MoneyLedger
  <2>2. paid \in SUBSET Calls /\ IsFiniteSet(paid) /\ c \notin paid
    BY <1>3, FS_Subset DEF Booked
  <2>3. /\ SumOver(paid, Totals) \in Nat
        /\ SumOver(paid \cup {c}, Totals) = SumOver(paid, Totals) + Total(c)
    BY <1>1, <2>2, SumGrows
  <2>4. CASE b = w.buyer
    <3>1. {d \in Orders' : what[d].buyer = b} = paid \cup {c}
      BY <1>3, <2>4
    <3>2. balance'[b] = balance[b] - Total(c) /\ balance[b] \in Nat
      BY <1>1, <2>4 DEF CommitEffects
    <3>3. balance[b] + SumOver(paid, Totals) = (balance[b] - Total(c)) + (SumOver(paid, Totals) + Total(c))
      BY <1>1, <2>3, <3>2, TakenIsAdded
    <3> QED
      BY <2>1, <2>3, <3>1, <3>2, <3>3
  <2>5. CASE b # w.buyer
    <3>1. {d \in Orders' : what[d].buyer = b} = paid
      BY <1>3, <2>5
    <3>2. balance'[b] = balance[b]
      BY <1>1, <2>5 DEF CommitEffects
    <3> QED
      BY <2>1, <3>1, <3>2
  <2> QED
    BY <2>4, <2>5
<1> QED
  BY <1>4, <1>5, <1>6 DEF Booked, Ledgers

(* Every other step leaves the committed columns and rows alone. *)
LEMMA BookedStep == CheckoutInv /\ Booked /\ [Next]_vars => Booked'
<1> SUFFICES ASSUME CheckoutInv, Booked, [Next]_vars PROVE Booked'
  OBVIOUS
<1>1. CASE UNCHANGED <<db, what>>
  BY <1>1 DEF Booked, Ledgers, StockLedger, MoneyLedger, Orders, Quantities, Totals, Total, db
<1>2. ASSUME NEW c \in Calls, Begin(c) \/ Step(c) \/ CommitUnanswered(c) \/ Abort(c)
      PROVE  UNCHANGED <<db, what>> \/ CommitEffects(c)
  BY <1>2 DEF Step, Begin, TakeStock, SoldOut, TakeMoney, Poor, Insert, Reject, Abort,
              Commit, CommitUnanswered, Return
<1>3. CASE UNCHANGED vars
  BY <1>1, <1>3 DEF vars
<1> QED
  BY <1>1, <1>2, <1>3, CommitIsBooked DEF Next, Done

(* What left the stock of a product and the balance of a buyer is exactly    *)
(* what the committed orders of that product and that buyer hold.             *)
THEOREM NothingOversold == Spec => []Ledgers
<1>1. Init => Booked
  <2> SUFFICES ASSUME Init PROVE Booked
    OBVIOUS
  <2>1. Orders = {} /\ stock = Stock /\ balance = Balance
    BY DEF Init, Orders, TableNames
  <2>2. IsFiniteSet(Orders)
    BY <2>1, FS_EmptySet
  <2>3. ASSUME NEW p \in Products
        PROVE  Stock[p] = stock[p] + SumOver({c \in Orders : what[c].product = p}, Quantities)
    <3>1. {c \in Orders : what[c].product = p} = {}
      BY <2>1
    <3>2. Stock[p] \in Nat
      BY MoneyAssumption
    <3> QED
      BY <2>1, <3>1, <3>2, SumOfNone
  <2>4. ASSUME NEW b \in Buyers
        PROVE  Balance[b] = balance[b] + SumOver({c \in Orders : what[c].buyer = b}, Totals)
    <3>1. {c \in Orders : what[c].buyer = b} = {}
      BY <2>1
    <3>2. Balance[b] \in Nat
      BY MoneyAssumption
    <3> QED
      BY <2>1, <3>1, <3>2, SumOfNone
  <2> QED
    BY <2>2, <2>3, <2>4 DEF Booked, Ledgers, StockLedger, MoneyLedger
<1>2. Booked => Ledgers
  BY DEF Booked
<1> QED
  BY <1>1, <1>2, BookedStep, CheckoutInvariant, PTL DEF Spec

-----------------------------------------------------------------------------
(* The jobs of the orders: JobWorker. *)

LEMMA OneFaultType == ASSUME JobTypeOK, OneFault PROVE faults' \in 0..MaxFaults
  BY WorkersAssumption DEF JobTypeOK, OneFault

LEMMA EndTransactionType ==
  ASSUME JobTypeOK, NEW w \in Workers, EndJob(w)
  PROVE  /\ holder' \in [Jobs -> Workers \cup {NoWorker}]
         /\ job' \in [Workers -> SUBSET Jobs]
         /\ live' \in [Workers -> BOOLEAN]
  BY DEF JobTypeOK, EndJob, Released

LEMMA GotoType ==
  ASSUME JobTypeOK, NEW w \in Workers, NEW step \in Steps, JobGoto(w, step)
  PROVE  at' \in [Workers -> Steps]
  BY DEF JobTypeOK, JobGoto

LEMMA MarkDoneType ==
  ASSUME JobTypeOK, NEW w \in Workers, MarkDone(w)
  PROVE  /\ status' \in [Jobs -> {"none", "pending", "done"}]
         /\ processed' \in [Jobs -> Nat]
         /\ workerId' \in [Jobs -> Workers \cup {NoWorker}]
  BY DEF JobTypeOK, MarkDone

(* A transaction that ends without COMMIT disturbs nothing but its own claim. *)
LEMMA EndKeepsClaims ==
  ASSUME ClaimsInv, NEW w \in Workers, EndJob(w), JobGoto(w, "failed"),
         UNCHANGED <<table, scope, credited, due, runs>>, faults' \in 0..MaxFaults
  PROVE  ClaimsInv'
<1> USE DEF ClaimsInv
<1>1. JobTypeOK'
  BY EndTransactionType, GotoType DEF JobTypeOK, table, Steps
<1>2. \A v \in Workers \ {w} : at'[v] = at[v] /\ live'[v] = live[v] /\ job'[v] = job[v]
  BY DEF JobTypeOK, JobGoto, EndJob
<1>3. at'[w] = "failed" /\ live'[w] /\ job'[w] = {}
  BY DEF JobTypeOK, JobGoto, EndJob
<1>4. ClaimShape'
  BY <1>2, <1>3 DEF ClaimShape, InJob
<1>5. ClaimIsExclusive'
  BY <1>2, <1>3 DEF ClaimIsExclusive, EndJob, Released, JobTypeOK, table
<1>6. ProcessedOnce' /\ DueIsKept'
  BY DEF ProcessedOnce, DueIsKept, table
<1>7. ReturnedMeansDrained'
  BY <1>2, <1>3 DEF ReturnedMeansDrained, table
<1> QED
  BY <1>1, <1>4, <1>5, <1>6, <1>7

(* A COMMIT marks the job its live transaction still owns. *)
LEMMA CommitJobKeepsClaims ==
  ASSUME ClaimsInv, NEW w \in Workers, at[w] = "commit", live[w],
         MarkDone(w), EndJob(w), NEW step \in {"claim", "failed"}, JobGoto(w, step),
         credited' \in [Workers -> SUBSET Jobs],
         UNCHANGED <<scope, due, runs>>, faults' \in 0..MaxFaults
  PROVE  ClaimsInv'
<1> USE DEF ClaimsInv
<1>1. JobTypeOK'
  BY EndTransactionType, GotoType, MarkDoneType DEF JobTypeOK, Steps
<1>2. \A v \in Workers \ {w} : at'[v] = at[v] /\ live'[v] = live[v] /\ job'[v] = job[v]
  BY DEF JobTypeOK, JobGoto, EndJob
<1>3. at'[w] = step /\ live'[w] /\ job'[w] = {}
  BY DEF JobTypeOK, JobGoto, EndJob
<1>4. \A j \in job[w] : j \in Jobs /\ holder[j] = w /\ status[j] = "pending" /\ runs[j] >= 1
  BY DEF ClaimIsExclusive, ClaimShape, JobTypeOK
<1>5. ClaimShape'
  BY <1>2, <1>3 DEF ClaimShape, InJob
<1>6. ClaimIsExclusive'
  <2>1. ASSUME NEW v \in Workers, live'[v], NEW j \in job'[v]
        PROVE  holder'[j] = v /\ status'[j] = "pending"
    <3>1. v # w /\ j \in Jobs /\ live[v] /\ j \in job[v]
      BY <1>2, <1>3, <2>1 DEF JobTypeOK
    <3>2. holder[j] = v /\ status[j] = "pending"
      BY <3>1 DEF ClaimIsExclusive
    <3>3. j \notin job[w]
      BY <1>4, <3>1, <3>2
    <3> QED
      BY <3>1, <3>2, <3>3 DEF MarkDone, EndJob, Released
  <2> QED
    BY <2>1 DEF ClaimIsExclusive
<1>7. ProcessedOnce'
  <2>1. ASSUME NEW j \in Jobs
        PROVE  /\ processed'[j] = (IF status'[j] = "done" THEN 1 ELSE 0)
               /\ runs'[j] >= processed'[j]
    <3>1. processed[j] = (IF status[j] = "done" THEN 1 ELSE 0) /\ runs[j] >= processed[j]
      BY DEF ProcessedOnce
    <3>2. CASE j \in job[w]
      BY <1>4, <3>1, <3>2 DEF MarkDone
    <3>3. CASE j \notin job[w]
      BY <3>1, <3>3 DEF MarkDone, JobTypeOK
    <3> QED
      BY <3>2, <3>3
  <2> QED
    BY <2>1 DEF ProcessedOnce
<1>8. DueIsKept' /\ ReturnedMeansDrained'
  BY <1>2, <1>3 DEF DueIsKept, ReturnedMeansDrained, MarkDone, JobTypeOK
<1> QED
  BY <1>1, <1>5, <1>6, <1>7, <1>8

(* A step of a call that leaves the table, the locks and the sessions alone. *)
LEMMA MoveKeepsClaims ==
  ASSUME ClaimsInv, NEW w \in Workers, NEW step \in Steps, JobGoto(w, step),
         UNCHANGED <<table, holder, live, job, scope, credited, due>>,
         runs' \in [Jobs -> Nat], \A j \in Jobs : runs'[j] >= runs[j],
         faults' = faults,
         step \in InJob \/ (job[w] = {} /\ live[w]),
         step \in {"update", "commit"} => \A j \in job[w] : runs'[j] >= 1,
         step = "returned" => InScope(w) = {}
  PROVE  ClaimsInv'
<1> USE DEF ClaimsInv
<1>1. JobTypeOK'
  BY GotoType DEF JobTypeOK, table
<1>2. (\A v \in Workers \ {w} : at'[v] = at[v]) /\ at'[w] = step
  BY DEF JobTypeOK, JobGoto
<1>3. ClaimIsExclusive' /\ ProcessedOnce' /\ DueIsKept'
  BY DEF ClaimIsExclusive, ProcessedOnce, DueIsKept, table, JobTypeOK
<1>5. ClaimShape'
  <2>1. ASSUME NEW v \in Workers, v # w, at'[v] \in {"update", "commit"}, NEW j \in job'[v]
        PROVE  runs'[j] >= 1
    <3>1. j \in Jobs /\ runs[j] >= 1
      BY <1>2, <2>1 DEF ClaimShape, JobTypeOK
    <3>2. runs'[j] >= runs[j] /\ runs[j] \in Nat /\ runs'[j] \in Nat
      BY <3>1 DEF JobTypeOK
    <3> QED
      BY <3>1, <3>2
  <2> QED
    BY <1>2, <2>1 DEF ClaimShape
<1>4. ReturnedMeansDrained'
  <2>1. step = "returned" => \A j \in due[w] : status[j] = "done"
    BY DEF InScope, DueIsKept, JobTypeOK
  <2> QED
    BY <1>2, <2>1 DEF ReturnedMeansDrained, table
<1> QED
  BY <1>1, <1>3, <1>4, <1>5

(* Every step keeps the invariant: one case per action of JobNext. *)
LEMMA ClaimsStep == ClaimsInv /\ [JobNext]_jobVars => ClaimsInv'
<1> SUFFICES ASSUME ClaimsInv, [JobNext]_jobVars PROVE ClaimsInv'
  OBVIOUS
<1> USE DEF ClaimsInv
<1>1. ASSUME NEW j \in Jobs, Enqueue(j) PROVE ClaimsInv'
  <2>1. JobTypeOK'
    BY <1>1 DEF JobTypeOK, Enqueue, callVars
  <2>2. ClaimShape' /\ ClaimIsExclusive'
    BY <1>1 DEF ClaimShape, ClaimIsExclusive, Enqueue, callVars, JobTypeOK
  <2>3. ProcessedOnce'
    BY <1>1 DEF ProcessedOnce, Enqueue, callVars, JobTypeOK
  <2>4. DueIsKept' /\ ReturnedMeansDrained'
    BY <1>1 DEF DueIsKept, ReturnedMeansDrained, Enqueue, callVars, JobTypeOK
  <2> QED
    BY <2>1, <2>2, <2>3, <2>4
<1>2. ASSUME NEW w \in Workers, NEW S \in SUBSET Jobs, Start(w, S) PROVE ClaimsInv'
  <2>1. JobTypeOK'
    BY <1>2 DEF JobTypeOK, Start, JobGoto, Steps, table
  <2>2. ClaimShape' /\ ClaimIsExclusive'
    BY <1>2 DEF ClaimShape, ClaimIsExclusive, Start, JobGoto, InJob, JobTypeOK, table
  <2>3. ProcessedOnce'
    BY <1>2 DEF ProcessedOnce, Start, table
  <2>4. DueIsKept' /\ ReturnedMeansDrained'
    BY <1>2 DEF DueIsKept, ReturnedMeansDrained, Start, JobGoto, JobTypeOK, table
  <2> QED
    BY <2>1, <2>2, <2>3, <2>4
<1>3. ASSUME NEW w \in Workers, Claim(w) PROVE ClaimsInv'
  <2>1. PICK j \in Jobs : /\ status[j] = "pending" /\ holder[j] = NoWorker
                          /\ holder' = [holder EXCEPT ![j] = w]
                          /\ job' = [job EXCEPT ![w] = {j}]
    BY <1>3 DEF Claim, InScope, JobTypeOK
  <2> HIDE DEF ClaimsInv
  <2>2. JobTypeOK'
    <3>1. JobTypeOK /\ {j} \subseteq Jobs
      BY DEF ClaimsInv
    <3>2. /\ at' = [at EXCEPT ![w] = "process"]
          /\ UNCHANGED <<status, processed, workerId, live, scope, credited, due, runs, faults>>
      BY <1>3 DEF Claim, JobGoto, table
    <3> QED
      BY <2>1, <3>1, <3>2 DEF JobTypeOK, Steps
  <2> USE DEF ClaimsInv
  <2>3. ClaimShape'
    BY <1>3, <2>1 DEF Claim, ClaimShape, JobGoto, InJob, JobTypeOK
  <2>4. ClaimIsExclusive'
    BY <1>3, <2>1, WorkersAssumption DEF Claim, ClaimIsExclusive, JobTypeOK, table
  <2>5. ProcessedOnce' /\ DueIsKept'
    BY <1>3 DEF Claim, ProcessedOnce, DueIsKept, table
  <2>6. ReturnedMeansDrained'
    BY <1>3 DEF Claim, ReturnedMeansDrained, JobGoto, JobTypeOK, table
  <2> QED
    BY <2>2, <2>3, <2>4, <2>5, <2>6
<1>4. ASSUME NEW w \in Workers, ClaimNothing(w) PROVE ClaimsInv'
  BY <1>4, MoveKeepsClaims DEF ClaimNothing, ClaimShape, InJob, Steps, JobTypeOK
<1>5. ASSUME NEW w \in Workers, Poll(w) PROVE ClaimsInv'
  <2>1. job[w] = {} /\ live[w]
    BY <1>5 DEF Poll, ClaimShape, InJob
  <2>2. PICK step \in {"returned", "claim"} :
          JobGoto(w, step) /\ (step = "returned" => InScope(w) = {})
    BY <1>5 DEF Poll
  <2> QED
    BY <1>5, <2>1, <2>2, MoveKeepsClaims DEF Poll, Steps, JobTypeOK
<1>6. ASSUME NEW w \in Workers, Process(w) PROVE ClaimsInv'
  <2>1. /\ runs' \in [Jobs -> Nat]
        /\ \A j \in Jobs : runs'[j] >= runs[j]
        /\ \A j \in job[w] : runs'[j] >= 1
    BY <1>6 DEF Process, JobTypeOK
  <2> QED
    BY <1>6, <2>1, MoveKeepsClaims DEF Process, InJob, Steps
<1>7. ASSUME NEW w \in Workers, Update(w) PROVE ClaimsInv'
  <2>1. \A j \in job[w] : runs[j] >= 1
    BY <1>7 DEF Update, ClaimShape
  <2>2. runs \in [Jobs -> Nat] /\ \A j \in Jobs : runs[j] >= runs[j]
    BY DEF JobTypeOK
  <2> QED
    BY <1>7, <2>1, <2>2, MoveKeepsClaims DEF Update, InJob, Steps
<1>8. ASSUME NEW w \in Workers, CommitJob(w) PROVE ClaimsInv'
  <2>1. credited' \in [Workers -> SUBSET Jobs]
    BY <1>8 DEF CommitJob, JobTypeOK
  <2> QED
    BY <1>8, <2>1, CommitJobKeepsClaims DEF CommitJob, JobTypeOK
<1>9. ASSUME NEW w \in Workers, CommitJobUnanswered(w) PROVE ClaimsInv'
  BY <1>9, CommitJobKeepsClaims, OneFaultType DEF CommitJobUnanswered, JobTypeOK
<1>10. ASSUME NEW w \in Workers, RejectJob(w) \/ Fail(w) PROVE ClaimsInv'
  BY <1>10, EndKeepsClaims, OneFaultType DEF RejectJob, Fail, JobTypeOK
<1>11. ASSUME NEW w \in Workers, SessionLost(w) PROVE ClaimsInv'
  <2>1. JobTypeOK'
    BY <1>11, OneFaultType DEF SessionLost, JobTypeOK, Released, table
  <2>2. ClaimShape'
    BY <1>11 DEF SessionLost, ClaimShape, JobTypeOK
  <2>3. ClaimIsExclusive'
    BY <1>11 DEF SessionLost, ClaimIsExclusive, Released, JobTypeOK, table
  <2>4. ProcessedOnce' /\ DueIsKept' /\ ReturnedMeansDrained'
    BY <1>11 DEF SessionLost, ProcessedOnce, DueIsKept, ReturnedMeansDrained, table
  <2> QED
    BY <2>1, <2>2, <2>3, <2>4
<1>12. CASE UNCHANGED jobVars
  BY <1>12 DEF JobTypeOK, ClaimShape, ClaimIsExclusive, ProcessedOnce, DueIsKept,
               ReturnedMeansDrained, jobVars, table, callVars
<1> QED
  BY <1>1, <1>2, <1>3, <1>4, <1>5, <1>6, <1>7, <1>8, <1>9, <1>10, <1>11, <1>12
  DEF JobNext, Work

(* Only a COMMIT writes the worker's id, and it writes the status with it. *)
LEMMA WorkerIdStep ==
  ASSUME ClaimsInv, DoneHasItsWorker, [JobNext]_jobVars PROVE DoneHasItsWorker'
<1>1. ASSUME NEW j \in Jobs, Enqueue(j) PROVE DoneHasItsWorker'
  BY <1>1 DEF DoneHasItsWorker, Enqueue, ClaimsInv, JobTypeOK
<1>2. ASSUME NEW w \in Workers, MarkDone(w) PROVE DoneHasItsWorker'
  BY <1>2 DEF DoneHasItsWorker, MarkDone
<1>3. CASE UNCHANGED table
  BY <1>3 DEF DoneHasItsWorker, table
<1> QED
  BY <1>1, <1>2, <1>3
  DEF JobNext, Work, Start, Claim, ClaimNothing, Poll, Process, Update, CommitJob,
      CommitJobUnanswered, RejectJob, Fail, SessionLost, jobVars

-----------------------------------------------------------------------------
(* A step of one call changes the late runs of a job by at most its own. *)
LEMMA LateRunsMove ==
  ASSUME NEW w \in Workers, NEW j \in Jobs,
         \A v \in Workers \ {w} : at'[v] = at[v] /\ live'[v] = live[v] /\ job'[v] = job[v]
  PROVE  /\ Cardinality(LateRuns(j)) \in Nat /\ Cardinality(LateRuns(j)') \in Nat
         /\ w \in LateRuns(j) /\ w \notin LateRuns(j)' =>
              Cardinality(LateRuns(j)') = Cardinality(LateRuns(j)) - 1
         /\ w \notin LateRuns(j) /\ w \in LateRuns(j)' =>
              Cardinality(LateRuns(j)') = Cardinality(LateRuns(j)) + 1
         /\ (w \in LateRuns(j) <=> w \in LateRuns(j)') =>
              Cardinality(LateRuns(j)') = Cardinality(LateRuns(j))
<1>1. IsFiniteSet(LateRuns(j)) /\ IsFiniteSet(LateRuns(j)')
  BY WorkersAssumption, FS_Subset DEF LateRuns
<1>2. LateRuns(j)' \ {w} = LateRuns(j) \ {w}
  BY DEF LateRuns
<1>3. CASE w \in LateRuns(j) /\ w \notin LateRuns(j)'
  <2>1. LateRuns(j)' = LateRuns(j) \ {w}
    BY <1>2, <1>3
  <2> QED
    BY <1>1, <1>3, <2>1, FS_CardinalityType, FS_RemoveElement
<1>4. CASE w \notin LateRuns(j) /\ w \in LateRuns(j)'
  <2>1. LateRuns(j)' = LateRuns(j) \cup {w}
    BY <1>2, <1>4
  <2> QED
    BY <1>1, <1>4, <2>1, FS_CardinalityType, FS_AddElement
<1>5. CASE w \in LateRuns(j) <=> w \in LateRuns(j)'
  <2>1. LateRuns(j)' = LateRuns(j)
    BY <1>2, <1>5
  <2> QED
    BY <1>1, <1>5, <2>1, FS_CardinalityType
<1> QED
  BY <1>3, <1>4, <1>5

(* The balance of a job after a step of call w: a run or a late run it adds,  *)
(* and an accounted one it drops, must come with a fault.                      *)
LEMMA RunBalance ==
  ASSUME JobTypeOK, RunsArePaidFor, NEW w \in Workers, NEW j \in Jobs,
         \A v \in Workers \ {w} : at'[v] = at[v] /\ live'[v] = live[v] /\ job'[v] = job[v],
         runs'[j] \in Nat, faults' \in Nat,
         (runs'[j] - runs[j]) + (IF w \in LateRuns(j)' /\ w \notin LateRuns(j) THEN 1 ELSE 0)
             + (IF RunAccounted(j) /\ ~RunAccounted(j)' THEN 1 ELSE 0)
           <= (faults' - faults) + (IF w \in LateRuns(j) /\ w \notin LateRuns(j)' THEN 1 ELSE 0)
             + (IF ~RunAccounted(j) /\ RunAccounted(j)' THEN 1 ELSE 0)
  PROVE  runs'[j] + Cardinality(LateRuns(j)') <= faults' + (IF RunAccounted(j)' THEN 1 ELSE 0)
<1> DEFINE A == IF RunAccounted(j) THEN 1 ELSE 0
           B == IF RunAccounted(j)' THEN 1 ELSE 0
           late == IF w \in LateRuns(j)' /\ w \notin LateRuns(j) THEN 1 ELSE 0
           done == IF w \in LateRuns(j) /\ w \notin LateRuns(j)' THEN 1 ELSE 0
           gone == IF RunAccounted(j) /\ ~RunAccounted(j)' THEN 1 ELSE 0
           new == IF ~RunAccounted(j) /\ RunAccounted(j)' THEN 1 ELSE 0
<1>1. Cardinality(LateRuns(j)) \in Nat /\ Cardinality(LateRuns(j)') \in Nat
      /\ Cardinality(LateRuns(j)') = Cardinality(LateRuns(j)) + late - done
  BY LateRunsMove
<1>2. A \in 0..1 /\ B \in 0..1 /\ B = A - gone + new
      /\ late \in 0..1 /\ done \in 0..1 /\ gone \in 0..1 /\ new \in 0..1
  OBVIOUS
<1>3. runs[j] + Cardinality(LateRuns(j)) <= faults + A
  BY DEF RunsArePaidFor
<1>4. runs[j] \in Nat /\ faults \in Nat
  BY WorkersAssumption DEF JobTypeOK
<1>5. (runs'[j] - runs[j]) + late + gone <= (faults' - faults) + done + new
  OBVIOUS
<1> HIDE DEF A, B, late, done, gone, new
<1>6. runs'[j] + Cardinality(LateRuns(j)') <= faults' + B
  BY <1>1, <1>2, <1>3, <1>4, <1>5
<1> QED
  BY <1>6 DEF B

(* What is accounted for stays so, unless call w drops it. *)
LEMMA RunAccountedKept ==
  ASSUME NEW w \in Workers, NEW j \in Jobs, RunAccounted(j), ~RunAccounted(j)',
         \A v \in Workers \ {w} : at'[v] = at[v] /\ live'[v] = live[v] /\ job'[v] = job[v],
         status[j] = "done" => status'[j] = "done"
  PROVE  /\ live[w] /\ at[w] \in {"update", "commit"} /\ j \in job[w]
         /\ ~(live'[w] /\ at'[w] \in {"update", "commit"} /\ j \in job'[w])
         /\ status'[j] # "done"
  BY DEF RunAccounted

(* Every run of a job beyond the accounted one is paid for by a fault. *)
LEMMA RunsStep ==
  ASSUME ClaimsInv, RunsArePaidFor, [JobNext]_jobVars PROVE RunsArePaidFor'
<1> DEFINE Others(w) == \A v \in Workers \ {w} :
                          at'[v] = at[v] /\ live'[v] = live[v] /\ job'[v] = job[v]
           Goal(j) == runs'[j] + Cardinality(LateRuns(j)') <= faults' + (IF RunAccounted(j)' THEN 1 ELSE 0)
<1> USE DEF ClaimsInv
<1>1. ASSUME UNCHANGED <<at, live, job, runs, faults>>,
             \A j \in Jobs : status[j] = "done" => status'[j] = "done"
      PROVE  RunsArePaidFor'
  <2>1. ASSUME NEW j \in Jobs PROVE Goal(j)
    <3>1. LateRuns(j)' = LateRuns(j) /\ (RunAccounted(j) => RunAccounted(j)')
      BY <1>1 DEF LateRuns, RunAccounted
    <3>2. runs[j] + Cardinality(LateRuns(j)) <= faults + (IF RunAccounted(j) THEN 1 ELSE 0)
      BY DEF RunsArePaidFor
    <3>3. runs[j] \in Nat /\ faults \in Nat /\ Cardinality(LateRuns(j)) \in Nat
      BY WorkersAssumption, FS_Subset, FS_CardinalityType DEF JobTypeOK, LateRuns
    <3> QED
      BY <1>1, <3>1, <3>2, <3>3
  <2> QED
    BY <2>1 DEF RunsArePaidFor
<1>2. ASSUME NEW w \in Workers, Others(w), UNCHANGED <<status, runs, faults>>,
             live[w], live'[w], at[w] \in {"update", "commit"} => FALSE
      PROVE  RunsArePaidFor'
  <2>1. ASSUME NEW j \in Jobs PROVE Goal(j)
    <3>1. w \notin LateRuns(j) /\ w \notin LateRuns(j)'
      BY <1>2 DEF LateRuns
    <3>2. ~(RunAccounted(j) /\ ~RunAccounted(j)')
      BY <1>2, RunAccountedKept
    <3>3. runs[j] \in Nat /\ faults \in Nat
      BY WorkersAssumption DEF JobTypeOK
    <3> QED
      BY <1>2, <3>1, <3>2, <3>3, RunBalance
  <2> QED
    BY <2>1 DEF RunsArePaidFor
<1>3. ASSUME NEW j \in Jobs, Enqueue(j) PROVE RunsArePaidFor'
  BY <1>1, <1>3 DEF Enqueue, callVars, JobTypeOK
<1>4. ASSUME NEW w \in Workers,
             \/ \E S \in SUBSET Jobs : Start(w, S)
             \/ Claim(w) \/ ClaimNothing(w) \/ Poll(w)
      PROVE  RunsArePaidFor'
  <2>1. /\ Others(w) /\ UNCHANGED <<status, runs, faults>>
        /\ live' = live /\ at[w] \in {"idle", "claim", "poll"}
    BY <1>4 DEF Start, Claim, ClaimNothing, Poll, JobGoto, JobTypeOK, table
  <2>2. live[w]
    BY <2>1 DEF ClaimShape, InJob
  <2> QED
    BY <1>2, <2>1, <2>2
<1>5. ASSUME NEW w \in Workers, Process(w) PROVE RunsArePaidFor'
  <2>1. /\ Others(w) /\ at[w] = "process" /\ at'[w] = "update"
        /\ UNCHANGED <<status, live, job, faults>>
        /\ \A j \in Jobs : runs'[j] = runs[j] + (IF j \in job[w] THEN 1 ELSE 0)
    BY <1>5 DEF Process, JobGoto, JobTypeOK, table, Steps
  <2>2. ASSUME NEW j \in Jobs PROVE Goal(j)
    <3>1. w \notin LateRuns(j)' /\ runs[j] \in Nat /\ faults \in Nat
      BY <2>1, WorkersAssumption DEF LateRuns, JobTypeOK
    <3>2. ~(RunAccounted(j) /\ ~RunAccounted(j)')
      BY <2>1, RunAccountedKept
    <3>3. CASE j \notin job[w]
      BY <2>1, <3>1, <3>2, <3>3, RunBalance
    <3>4. CASE j \in job[w] /\ ~live[w]
      <4>1. w \in LateRuns(j)
        BY <2>1, <3>4 DEF LateRuns
      <4> QED
        BY <2>1, <3>1, <3>2, <3>4, <4>1, RunBalance
    <3>5. CASE j \in job[w] /\ live[w]
      <4>1. holder[j] = w /\ status[j] = "pending"
        BY <3>5 DEF ClaimIsExclusive
      <4>2. ASSUME NEW v \in Workers, live[v], at[v] \in {"update", "commit"}, j \in job[v]
            PROVE  FALSE
        BY <2>1, <4>1, <4>2 DEF ClaimIsExclusive
      <4>3. ~RunAccounted(j) /\ RunAccounted(j)'
        BY <2>1, <3>5, <4>1, <4>2 DEF RunAccounted
      <4> QED
        BY <2>1, <3>1, <3>5, <4>3, RunBalance
    <3> QED
      BY <3>3, <3>4, <3>5
  <2> QED
    BY <2>2 DEF RunsArePaidFor
<1>6. ASSUME NEW w \in Workers, Update(w) PROVE RunsArePaidFor'
  <2>1. /\ Others(w) /\ live[w] /\ at[w] = "update" /\ at'[w] = "commit"
        /\ UNCHANGED <<status, live, job, runs, faults>>
    BY <1>6 DEF Update, JobGoto, JobTypeOK, table, Steps
  <2>2. ASSUME NEW j \in Jobs PROVE Goal(j)
    <3>1. /\ w \notin LateRuns(j) /\ w \notin LateRuns(j)' /\ runs[j] \in Nat /\ faults \in Nat
          /\ ~(RunAccounted(j) /\ ~RunAccounted(j)')
      BY <2>1, WorkersAssumption, RunAccountedKept DEF LateRuns, JobTypeOK
    <3> QED
      BY <2>1, <3>1, RunBalance
  <2> QED
    BY <2>2 DEF RunsArePaidFor
<1>7. ASSUME NEW w \in Workers, EndJob(w), Others(w), runs' = runs, at[w] # at'[w],
             at'[w] \in {"claim", "failed"}, NEW paid \in 0..1, faults' = faults + paid,
             \A j \in Jobs : status[j] = "done" => status'[j] = "done",
             paid = 0 /\ live[w] => \A j \in job[w] : status'[j] = "done"
      PROVE  RunsArePaidFor'
  <2>1. ASSUME NEW j \in Jobs PROVE Goal(j)
    <3>1. w \notin LateRuns(j)' /\ runs[j] \in Nat /\ faults \in Nat
      BY <1>7, WorkersAssumption DEF LateRuns, JobTypeOK, EndJob
    <3>2. RunAccounted(j) /\ ~RunAccounted(j)' => paid = 1
      BY <1>7, RunAccountedKept
    <3> QED
      BY <1>7, <3>1, <3>2, RunBalance
  <2> QED
    BY <2>1 DEF RunsArePaidFor
<1>8. ASSUME NEW w \in Workers, CommitJob(w) \/ CommitJobUnanswered(w) \/ RejectJob(w) \/ Fail(w)
      PROVE  RunsArePaidFor'
  <2>1. /\ EndJob(w) /\ Others(w) /\ runs' = runs /\ at'[w] \in {"claim", "failed"}
    BY <1>8 DEF CommitJob, CommitJobUnanswered, RejectJob, Fail, JobGoto, EndJob, JobTypeOK
  <2>2. \A j \in Jobs : status[j] = "done" => status'[j] = "done"
    BY <1>8 DEF CommitJob, CommitJobUnanswered, RejectJob, Fail, MarkDone, table
  <2>3. CASE CommitJob(w)
    <3>1. /\ at[w] = "commit" /\ at'[w] = "claim" /\ faults' = faults + 0
          /\ \A j \in job[w] : status'[j] = "done"
      BY <2>3, WorkersAssumption DEF CommitJob, MarkDone, JobTypeOK, JobGoto
    <3> QED
      BY <1>7, <2>1, <2>2, <3>1
  <2>4. CASE RejectJob(w)
    <3>1. at[w] # "failed" /\ at'[w] = "failed" /\ faults' = faults + 0 /\ ~live[w]
      BY <2>4, WorkersAssumption DEF RejectJob, JobTypeOK, JobGoto
    <3> QED
      BY <1>7, <2>1, <2>2, <3>1
  <2>5. CASE CommitJobUnanswered(w) \/ Fail(w)
    <3>1. at[w] # "failed" /\ at'[w] = "failed" /\ faults' = faults + 1
      BY <2>5 DEF CommitJobUnanswered, Fail, OneFault, JobTypeOK, JobGoto, InJob
    <3> QED
      BY <1>7, <2>1, <2>2, <3>1
  <2> QED
    BY <1>8, <2>3, <2>4, <2>5
<1>9. ASSUME NEW w \in Workers, SessionLost(w) PROVE RunsArePaidFor'
  <2>1. /\ Others(w) /\ live[w] /\ ~live'[w] /\ UNCHANGED <<status, at, job, runs>>
        /\ faults' = faults + 1
    BY <1>9 DEF SessionLost, JobTypeOK, OneFault, table
  <2>2. ASSUME NEW j \in Jobs PROVE Goal(j)
    <3>1. w \notin LateRuns(j) /\ runs[j] \in Nat /\ faults \in Nat
      BY <2>1, WorkersAssumption DEF LateRuns, JobTypeOK
    <3>2. CASE at[w] = "process"
      <4>1. ~(RunAccounted(j) /\ ~RunAccounted(j)')
        BY <2>1, <3>2, RunAccountedKept
      <4> QED
        BY <2>1, <3>1, <4>1, RunBalance
    <3>3. CASE at[w] # "process"
      <4>1. w \notin LateRuns(j)'
        BY <2>1, <3>3 DEF LateRuns
      <4> QED
        BY <2>1, <3>1, <4>1, RunBalance
    <3> QED
      BY <3>2, <3>3
  <2> QED
    BY <2>2 DEF RunsArePaidFor
<1>10. CASE UNCHANGED jobVars
  BY <1>1, <1>10 DEF jobVars, callVars, table
<1> QED
  BY <1>3, <1>4, <1>5, <1>6, <1>8, <1>9, <1>10 DEF JobNext, Work

(* JobInv holds in every reachable state. *)
THEOREM JobInvariant == JobSpec => []JobInv
<1>1. JobInit => JobInv
  <2> SUFFICES ASSUME JobInit PROVE JobInv
    OBVIOUS
  <2>1. ClaimsInv /\ DoneHasItsWorker
    BY WorkersAssumption
    DEF JobInit, ClaimsInv, JobTypeOK, Steps, ClaimShape, ClaimIsExclusive, ProcessedOnce,
        DueIsKept, ReturnedMeansDrained, InJob, DoneHasItsWorker
  <2>2. \A j \in Jobs : LateRuns(j) = {} /\ runs[j] = 0 /\ faults = 0
    BY DEF JobInit, LateRuns
  <2> QED
    BY <2>1, <2>2, FS_EmptySet DEF JobInv, RunsArePaidFor
<1>2. JobInv /\ [JobNext]_jobVars => JobInv'
  BY ClaimsStep, WorkerIdStep, RunsStep DEF JobInv
<1> QED
  BY <1>1, <1>2, PTL DEF JobSpec

(* A finished job was processed by one committed transaction, exactly once. *)
THEOREM OnceEach == JobSpec => []ProcessedOnce
  BY JobInvariant, PTL DEF JobInv, ClaimsInv

(* runWorker() returns only when every job that was due when it started is   *)
(* done, by itself or by another worker.                                       *)
THEOREM DrainedOnReturn == JobSpec => []ReturnedMeansDrained
  BY JobInvariant, PTL DEF JobInv, ClaimsInv

(* What a call reports is what carries its id. *)
LEMMA CreditStep ==
  ASSUME JobInv, CreditMatchesWork, [JobNext]_jobVars PROVE CreditMatchesWork'
<1> DEFINE Mine(w) == {j \in Jobs : workerId[j] = w}
<1> USE DEF JobInv, ClaimsInv
<1>1. ASSUME UNCHANGED <<credited, workerId>>,
             \A w \in Workers : at'[w] # "failed" => at[w] # "failed"
      PROVE  CreditMatchesWork'
  BY <1>1 DEF CreditMatchesWork
<1>2. ASSUME NEW w \in Workers, at[w] = "commit", live[w], MarkDone(w),
             \A v \in Workers \ {w} : at'[v] = at[v] /\ credited'[v] = credited[v],
             \/ credited'[w] = credited[w] \cup job[w]
             \/ credited'[w] = credited[w] /\ at'[w] = "failed"
      PROVE  CreditMatchesWork'
  <2>1. \A j \in job[w] : j \in Jobs /\ workerId[j] = NoWorker
    BY <1>2 DEF ClaimIsExclusive, DoneHasItsWorker, JobTypeOK
  <2>2. ASSUME NEW v \in Workers \ {w} PROVE Mine(v)' = Mine(v)
    BY <1>2, <2>1, <2>2, WorkersAssumption DEF MarkDone
  <2>3. Mine(w)' = Mine(w) \cup job[w]
    BY <1>2, <2>1 DEF MarkDone
  <2>4. credited[w] = Mine(w) /\ \A v \in Workers : credited[v] \subseteq Mine(v)
                              /\ (at[v] # "failed" => credited[v] = Mine(v))
    BY <1>2 DEF CreditMatchesWork
  <2> QED
    BY <1>2, <2>2, <2>3, <2>4 DEF CreditMatchesWork
<1>3. ASSUME NEW w \in Workers, CommitJob(w) \/ CommitJobUnanswered(w) PROVE CreditMatchesWork'
  BY <1>2, <1>3 DEF CommitJob, CommitJobUnanswered, JobGoto, JobTypeOK
<1>4. ASSUME NEW w \in Workers,
             \/ \E S \in SUBSET Jobs : Start(w, S)
             \/ Claim(w) \/ ClaimNothing(w) \/ Poll(w) \/ Process(w) \/ Update(w)
             \/ RejectJob(w) \/ Fail(w) \/ SessionLost(w)
      PROVE  CreditMatchesWork'
  <2>1. UNCHANGED <<credited, workerId>>
    BY <1>4 DEF Start, Claim, ClaimNothing, Poll, Process, Update, RejectJob, Fail,
                SessionLost, table
  <2>2. /\ at[w] # "failed" \/ at' = at
        /\ \A v \in Workers \ {w} : at'[v] = at[v]
    BY <1>4 DEF Start, Claim, ClaimNothing, Poll, Process, Update, RejectJob, Fail,
                SessionLost, JobGoto, JobTypeOK, InJob
  <2> QED
    BY <1>1, <2>1, <2>2
<1>5. CASE (\E j \in Jobs : Enqueue(j)) \/ UNCHANGED jobVars
  BY <1>1, <1>5 DEF Enqueue, callVars, table, jobVars
<1> QED
  BY <1>3, <1>4, <1>5 DEF JobNext, Work

(* A job runs once more per fault at most, and the number a call returns is   *)
(* the number of jobs that carry its id.                                       *)
THEOREM DrainIsAccounted == JobSpec => []WorkIsAccounted
<1>1. JobInv => RunsNeedFaults
  <2> SUFFICES ASSUME JobInv, NEW j \in Jobs PROVE runs[j] <= 1 + faults
    BY DEF RunsNeedFaults
  <2>1. IsFiniteSet(LateRuns(j))
    BY WorkersAssumption, FS_Subset DEF LateRuns
  <2>2. Cardinality(LateRuns(j)) \in Nat /\ runs[j] \in Nat /\ faults \in Nat
    BY <2>1, WorkersAssumption, FS_CardinalityType DEF JobInv, ClaimsInv, JobTypeOK
  <2> QED
    BY <2>2 DEF JobInv, RunsArePaidFor
<1>2. JobInit => CreditMatchesWork
  BY WorkersAssumption DEF JobInit, CreditMatchesWork
<1> QED
  BY <1>1, <1>2, CreditStep, JobInvariant, PTL DEF JobSpec, WorkIsAccounted
=============================================================================
