\* Two orders for which the wallet is too small, and a top-up of each card:
\* either the second order or the second top-up appears.
\* Environment assumed: a limit the provider refused stays refused, and
\* reading a card is never answered 400 or 422.
CONSTANTS
  o1 = o1
  o2 = o2
  t1 = t1
  t2 = t2
  Orders = {o1, o2, t1, t2}
  CardOrder <- WithTopups
  Fee <- FeeOfFirst
  Funding <- Equal
  Opening = 5
  Steadfast = TRUE
  ReadsRefused = FALSE
SPECIFICATION Spec
CONSTRAINT OrderOrTopup
INVARIANTS
  TypeOK
  SettledByTheTerms
  SpendingIsFunded
  FollowsTheCard
