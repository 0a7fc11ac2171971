\* Two MMs and two bets on a header market and a line, graded truthfully: fills,
\* netting and settlement in every order.  The users' money can run out.
SPECIFICATION TrustedSpec
CONSTANTS
  MMs = {m1, m2}
  Bets = {b1, b2}
  Cashouts = {}
  Headers = {Win}
  Lines = {Total1}
  Others = {}
  MaxLines = 1
  Scale = 2
  Amounts = {2}
  Prices = {3}
  MinFill = 1
  Grades = {"Won", "Lost"}
  Payments = {}
  Delay = 1
  MMFunds = 2
  UserFunds = 4
  Admins = {}
  Transfers = {1}
  Ready = {}
  MayPause = FALSE
  EventGroups = {}
  Dust = 0
  Winner <- SideZeroWins
  None = None
  m1 = m1
  m2 = m2
  b1 = b1
  b2 = b2
  c1 = c1
  c2 = c2
  Win = Win
  Total1 = Total1
  Special = Special
SYMMETRY BetSymmetry
INVARIANT EncumbranceExact
INVARIANT BookExact
INVARIANT Solvent
INVARIANT PayableWhenFinal
CHECK_DEADLOCK FALSE
