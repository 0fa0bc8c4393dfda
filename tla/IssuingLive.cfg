\* One card and one top-up under fairness.
\* Environment assumed: a limit the provider refused stays refused, and
\* reading a card is never answered 400 or 422.
CONSTANTS
  o1 = o1
  o2 = o2
  t1 = t1
  t2 = t2
  Orders = {o1, t1}
  CardOrder <- OneCard
  Fee <- FeeOfFirst
  Funding <- Equal
  Opening = 6
  Steadfast = TRUE
  ReadsRefused = FALSE
SPECIFICATION FairSpec
PROPERTIES
  LedgerStatesPass
