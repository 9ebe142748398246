SPECIFICATION FairSpec
CONSTANTS
  Calls = {c1, c2, c3}
  Products = {"cheap", "dear"}
  Buyers = {"ann", "bob"}
  Price <- MCPrice
  Stock <- MCStock
  Balance <- MCBalance
  Wishes <- MCWishes
  MaxTotal = 5
  Nobody = Nobody
INVARIANTS
  CheckoutInv
  Ledgers
PROPERTY
  EveryCallEnds
