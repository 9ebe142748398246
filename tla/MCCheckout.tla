----------------------------- MODULE MCCheckout -----------------------------
(* Three calls over two products and two buyers: single and double purchases *)
(* of a cheap product, a dear one that its double purchase takes beyond the    *)
(* order limit, a buyer who can pay for some and one who can pay for all.      *)
EXTENDS Checkout, TLC

MCPrice == "cheap" :> 1 @@ "dear" :> 3
MCStock == "cheap" :> 2 @@ "dear" :> 2
MCBalance == "ann" :> 3 @@ "bob" :> 9
MCWish(p, b, n) == [product |-> p, buyer |-> b, quantity |-> n]
MCWishes == {MCWish("cheap", "ann", 1), MCWish("cheap", "bob", 2), MCWish("dear", "ann", 1),
             MCWish("dear", "bob", 1), MCWish("dear", "bob", 2)}
=============================================================================
