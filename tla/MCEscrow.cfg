\* One bet of one MM on a header market, a line or an unnetted market, cashed
\* out before and after the event starts, graded, regraded, claimed, reverted and
\* settled, while the MM's admin creates, closes and reopens vault and book,
\* edits lines, deposits and withdraws.  The users' money can run out.
SPECIFICATION FairSpec
CONSTANTS
  MMs = {m1}
  Bets = {b1}
  Cashouts = {c1}
  Headers = {Win}
  Lines = {Total1}
  Others = {}
  MaxLines = 1
  Scale = 2
  Amounts = {2}
  Prices = {4}
  MinFill = 1
  Grades = {"Won", "RolledBack"}
  Payments = {1}
  Delay = 1
  MMFunds = 3
  UserFunds = 2
  Admins = {m1}
  Transfers = {1}
  Ready = {}
  MayPause = TRUE
  EventGroups = {{m1}}
  Dust = 1
  Winner <- SideZeroWins
  None = None
  m1 = m1
  m2 = m2
  b1 = b1
  b2 = b2
  c1 = c1
  c2 = c2
  Win = Win
  Total1 = Total1
  Special = Special
INVARIANT TypeOK
INVARIANT CashoutsCounted
INVARIANT CashedOutWaits
INVARIANT EscrowResolvable
INVARIANT ReservedAccountsExist
INVARIANT Conserved
PROPERTY NoRaces
PROPERTY EscrowResolves
PROPERTY GradedSettles
CHECK_DEADLOCK FALSE
