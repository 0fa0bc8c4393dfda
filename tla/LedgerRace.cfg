\* Two processes, a credit and two transfers that compete for it; requests
\* may be lost, answered too late, or executed after they were abandoned.
CONSTANTS
  w1 = w1
  w2 = w2
  Nobody = Nobody
  Workers <- MCWorkers
  Keys <- RaceKeys
  Accounts <- MCAccounts
  Commands <- RaceCommands
  KindOf <- MCKindOf
  CardOf <- MCCardOf
  Driven = {}
  Preexisting = {}
  MaxLate = 1
SPECIFICATION Spec
SYMMETRY WorkerSymmetry
INVARIANTS
  TypeOK
  ClaimsAreBacked
  OneOutcome
  TransitHoldsOpenReservations
  NeverOverdrawn
PROPERTIES
  DecisionIsFinal
CHECK_DEADLOCK FALSE
