\* A boost is used though the issuer never made a token account.
SPECIFICATION Spec
CONSTANTS
  Scale = 2
  Freebets = {free}
  Boosts = {boost}
  Bets = {single, multi}
  Parlays = {multi}
  None = None
  Amounts = {1, 2}
  Prices = {4}
  BoostShare = 1
  Life = 1
  ReinstateLife = 1
  Grades = {"Won", "Lost", "Push", "HalfLost", "HalfWon", "ModifiedWin"}
  Returns = {1}
  IssuerFunds = 2
  UserFunds = 2
  MMFunds = 2
  MayPause = FALSE
  free = free
  boost = boost
  single = single
  multi = multi
INVARIANT BoostsCanBeToppedUp
CHECK_DEADLOCK FALSE
