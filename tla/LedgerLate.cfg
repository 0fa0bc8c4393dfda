\* A credit and a transfer to the card it pays, when Blnk may execute one
\* request after the client stopped waiting for it (MaxLate = 1).
CONSTANTS
  w1 = w1
  w2 = w2
  Nobody = Nobody
  Workers <- MCWorkers
  Keys <- LateKeys
  Accounts <- MCAccounts
  Commands <- LateCommands
  KindOf <- MCKindOf
  CardOf <- MCCardOf
  Driven = {}
  Preexisting = {}
  MaxLate = 1
SPECIFICATION Spec
INVARIANTS
  RejectedMovesNothing
CHECK_DEADLOCK FALSE
