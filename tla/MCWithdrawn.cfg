\* One user and one parlay of two events, one of them with two legs, whose markets
\* may be withdrawn (odds 0) before it is cashed out.
SPECIFICATION QuotingSpec
CONSTANTS
  Scale = 2
  LegMarkets = {home, total, away}
  EventOf <- OnEvents
  Askers = {u1}
  Slips <- Linked
  OracleOdds = {0, 3}
  QuoteAmounts = {4}
  Floors = {0, 3}
  MaxStake = 2
  Updates = 3
  home = home
  total = total
  away = away
  u1 = u1
INVARIANT EveryGroupPriced
CHECK_DEADLOCK FALSE
