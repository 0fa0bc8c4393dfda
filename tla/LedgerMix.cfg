\* Operations that workers drive next to some that nobody has to drive, under the
\* assumption that Blnk executes no request after the client stopped waiting for
\* it (MaxLate = 0).
CONSTANTS
  w1 = w1
  w2 = w2
  Nobody = Nobody
  Workers <- MCWorkers
  Keys <- MixKeys
  Accounts <- MCAccounts
  Commands <- MixCommands
  KindOf <- MCKindOf
  CardOf <- MCCardOf
  Driven <- MixDriven
  Preexisting <- MixPreexisting
  MaxLate = 0
SPECIFICATION FairSpec
INVARIANTS
  OverIsSettled
PROPERTIES
  KeepsPromise
  DueWorkCompletes
CHECK_DEADLOCK FALSE
