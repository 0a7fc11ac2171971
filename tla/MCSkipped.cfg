\* One run at a time, and one call of the RPC node that fails.
SPECIFICATION IndexerSpec
CONSTANTS
  Runs = {r1}
  Stake = 1
  MaxTx = 2
  Mishaps = 1
  r1 = r1
INVARIANT MissedIsRetried
CHECK_DEADLOCK FALSE
