SPECIFICATION FairSpec
CONSTANTS
  None = None
  Rows = {r1}
  Workers = {w1, w2}
  Tokens = {k1, k2, k3}
  MaxAttempts = 2
  MaxExpiries = 1
  MaxLost = 1
  MaxReuse = 1
  MaxCrashes = 1
PROPERTIES ExpiredClaimEnds
CHECK_DEADLOCK FALSE
