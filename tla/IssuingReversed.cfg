\* The provider accepts a limit it refused before: the funding was already
\* returned when the process stopped, and nothing in the order says so.
CONSTANTS
  o1 = o1
  o2 = o2
  t1 = t1
  t2 = t2
  Orders = {o1}
  CardOrder <- OneCard
  Fee <- FeeOfFirst
  Funding <- Equal
  Opening = 4
  Steadfast = FALSE
  ReadsRefused = FALSE
SPECIFICATION Spec
INVARIANTS
  ActiveIsFunded
