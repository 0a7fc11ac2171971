\* A cashout that leaves a slice with stake and no reservation, and an MM that
\* closes its vault then: the graded bet cannot be settled.
SPECIFICATION TrustedSpec
CONSTANTS
  MMs = {m1}
  Bets = {b1}
  Cashouts = {c1}
  Headers = {Win}
  Lines = {}
  Others = {}
  MaxLines = 1
  Scale = 2
  Amounts = {2}
  Prices = {3}
  MinFill = 1
  Grades = {"Push"}
  Payments = {1}
  Delay = 1
  MMFunds = 2
  UserFunds = 2
  Admins = {m1}
  Transfers = {1}
  Ready = {m1}
  MayPause = FALSE
  EventGroups = {}
  Dust = 0
  Winner <- SideZeroWins
  None = None
  m1 = m1
  m2 = m2
  b1 = b1
  b2 = b2
  c1 = c1
  c2 = c2
  Win = Win
  Total1 = Total1
  Special = Special
INVARIANT GradedIsSettleable
CHECK_DEADLOCK FALSE
