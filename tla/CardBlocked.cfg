SPECIFICATION CardsOnly
CONSTANTS
  Actors = {"ann", "bob", "cat"}
  May <- MCMay
  Withdrawals = {"w1", "w2"}
  Trades = {"t1"}
  Amounts <- MCAmounts
  SmallUpTo = 2
  WithdrawalFee = 1
  Outcome <- MCOutcome
  Offers <- MCOffers
  Opening <- MCOpening
  Inventory <- MCInventory
  MaxRevision <- MCMaxRevision
  MaxPrice = 2
  CardOps = {1, 2, 3}
  CardAmounts = {2}
  CardOpening <- MCCardOpening
  MaxCardRevision = 3
  Groups = {"g1", "g2"}
  Users = {"u1", "u2"}
  MaxResets = 2
  MaxCredential = 2
  Channels = {"c1"}
  Sources = {"s1"}
  Products = {"p1"}
  Prefixes = {"990001", "990002"}
  Limits = {1, 2}
  MaxProductRevision = 1
  WalletIds = {1, 2, 3}
  WalletCards = {"c1"}
  MoveAmounts = {2}
  PayoutFee = 1
  Receives <- MCReceives
  WalletOpening <- MCWalletOpening
  CardBudget <- MCBudget
  Pages = {"p"}
  MaxPortalRevision = 2
  MaxPolls = 1
  SecretCards = {"s1", "s2"}
  MaxViews = 2
  MaxSequence = 3
  ShopProducts = {"p", "q"}
  Fundings = {1, 2}
  Minimum = 1
  MaxTerms = 2
  MaxKeys = 2
  MaxMounts = 2
  MaxQuotes = 2
  Buys = {"buy", "other"}
  Followups = {"refund"}
  FxSays <- MCFxSays
  FxReads <- MCFxReads
  FxEvents <- MCFxEvents
  FxKinds = {"refund", "fee"}
  MaxRelations = 2
  Payouts = {"out"}
  Conversions = {"swap"}
  Incoming = {"in"}
  CryptoTerms <- MCCryptoTerms
  CryptoOpening <- MCCryptoOpening
  MaxReadings = 2
  MaxWorld = 1
  OurInputs = {"name"}
  TheirInputs = {"name", "note"}
  MaxEdits = 2
  MaxShown = 2
  MaxNotes = 2
  PerPage = 1
  MaxNoteRevision = 2
  DeskCards = {"k1", "k2"}
  Adopted = {"k1"}
  DeskQueries <- MCDeskQueries
  MaxDeskRevision = 2
  MaxHeldRevision = 1
PROPERTY FreezeStopsUnsent
CHECK_DEADLOCK FALSE
