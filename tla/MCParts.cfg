\* Netting lines, split_fillers, the auction loop, quotes, offers, the promo market maker
\* and the indexer.
SPECIFICATION Spec
CONSTANTS
  None = None
  b1 = b1
  b2 = b2
  home = home
  total = total
  owner = owner
  c1 = c1
  k1 = k1
  k2 = k2
  a1 = a1
  a2 = a2
  Scale = 2
  Headers = {0}
  Lines = {1, 2, 3}
  Others = {}
  MaxLines = 3
  Profits = {1}
  CreateSlots = 1
  MaxOpen = 1
  Fillers = {1, 2, 3, 4}
  MaxSlotStake = 3
  SlotOdds = {3}
  Spare = {0, 1}
  LegMarkets = {home, total}
  EventOf <- OneEvent
  Bets = {b1, b2}
  Cashouts = {}
  Prices = {3, 4}
  Amounts = {1, 2, 3}
  MinFill = 2
  MMFunds = 3
  UserFunds = 5
  Requests = {3}
  Wanted = {0}
  MMs = {a1, a2}
  Askers = {a1, a2}
  Slips <- Asked
  OracleOdds = {0, 3, 4}
  QuoteAmounts = {4}
  Floors = {0, 3}
  MaxStake = 2
  Updates = 2
  RfqMMs = {a1, a2}
  Users = {owner}
  Keys = {k1, k2}
  FirstKey = k1
  Ids = {b1}
  CashIds = {c1}
  Stakes = {1, 2}
  OfferedOdds = {3}
  Payments = {1}
  MinStake = 1
  Validity = 0
  Signatures = 2
  LastSecond = 1
  Bettors = {a1, a2, owner}
  AllowLists <- Listed
  MaxBettors = 2
  Limits = {0, 3}
  PromoOdds = {0, 3}
  PromoStakes = {2}
  PromoFloors = {3}
  PromoUpdates = 1
  Runs = {a1, a2}
  Stake = 2
  MaxTx = 3
  Mishaps = 1
SYMMETRY Interchangeable
INVARIANT ComputesShares
INVARIANT TakesTheBest
INVARIANT PaidAtMarket
INVARIANT NewestOddsWin
INVARIANT OffersHonoured
INVARIANT PromoQuotesStand
INVARIANT NothingSkipped
PROPERTY ImplementsBook
PROPERTY IsFillBet
PROPERTY AmountsFreeze
CHECK_DEADLOCK FALSE
