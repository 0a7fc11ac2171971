\* One freebet and one boost of an issuer, used on a single bet or a parlay.
SPECIFICATION FairSpec
CONSTANTS
  Scale = 2
  Freebets = {free}
  Boosts = {boost}
  Bets = {single, multi}
  Parlays = {multi}
  None = None
  Amounts = {1, 2}
  Prices = {4}
  BoostShare = 1
  Life = 1
  ReinstateLife = 1
  Grades = {"Won", "Lost", "Push", "HalfLost", "HalfWon", "ModifiedWin"}
  Returns = {1}
  IssuerFunds = 2
  UserFunds = 2
  MMFunds = 2
  MayPause = TRUE
  free = free
  boost = boost
  single = single
  multi = multi
INVARIANT OpenCountExact
INVARIANT UsedByOne
INVARIANT PayableWhenGraded
PROPERTY GradedPromoSettles
CHECK_DEADLOCK FALSE
