\* One parlay on two events, filled by one of two MMs, sold in part or in full to
\* either, while a single bet with the same bet id is cashed out as well.  The
\* money can run out.
SPECIFICATION Spec
CONSTANTS
  Scale = 2
  MMs = {m1, m2}
  Bets = {b1}
  Cashouts = {c1, c2}
  None = None
  LegMarkets = {home, total, away}
  EventOf <- Events
  LiveMarkets = {total}
  Kickoffs = {1}
  Slips <- Uneven
  MaxLegs = 2
  MaxRfqLegs = 3
  Prices = {3}
  Amounts = {2}
  Payments = {1}
  Transfers = {1}
  Delay = 1
  Grades = {"Won", "RolledBack"}
  MMFunds <- Funds
  UserFunds = 2
  MaxFills = 1
  SinglePieces = 1
  MayPause = TRUE
  m1 = m1
  m2 = m2
  b1 = b1
  c1 = c1
  c2 = c2
  home = home
  total = total
  away = away
INVARIANT ReservesExact
INVARIANT PiecesKeepProfit
INVARIANT PayableWhenGraded
INVARIANT EscrowResolvable
SYMMETRY Alike
CHECK_DEADLOCK FALSE
