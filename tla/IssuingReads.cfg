\* Reading the card is answered 400 or 422 after the limit was accepted.
CONSTANTS
  o1 = o1
  o2 = o2
  t1 = t1
  t2 = t2
  Orders = {o1}
  CardOrder <- OneCard
  Fee <- FeeOfFirst
  Funding <- Equal
  Opening = 4
  Steadfast = TRUE
  ReadsRefused = TRUE
SPECIFICATION Spec
INVARIANTS
  LimitIsFunded
