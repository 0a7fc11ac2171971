\* Two MMs whose event states do not leave pregame together: an immediate
\* cashout of the rest of a bet closes it under a live escrow.
SPECIFICATION Spec
CONSTANTS
  MMs = {m1, m2}
  Bets = {b1}
  Cashouts = {c1, c2}
  Headers = {Win}
  Lines = {}
  Others = {}
  MaxLines = 1
  Scale = 2
  Amounts = {2}
  Prices = {3}
  MinFill = 1
  Grades = {"RolledBack"}
  Payments = {1}
  Delay = 1
  MMFunds = 2
  UserFunds = 3
  Admins = {}
  Transfers = {1}
  Ready = {m1, m2}
  MayPause = FALSE
  EventGroups = {{m1}, {m2}}
  Dust = 0
  Winner <- SideZeroWins
  None = None
  m1 = m1
  m2 = m2
  b1 = b1
  b2 = b2
  c1 = c1
  c2 = c2
  Win = Win
  Total1 = Total1
  Special = Special
SYMMETRY CashoutSymmetry
INVARIANT EscrowResolvable
CHECK_DEADLOCK FALSE
