SPECIFICATION FairSpec
CONSTANTS
  n1 = n1
  short = short
  t1 = t1
  t2 = t2
  Nonce = {n1, short}
  Nonce16 = {n1}
  Thread = {t1, t2}
  MaxTime = 7
  Timestamp <- MCTimestamp
  TIMESTAMP_WINDOW_SECONDS = 1
  NONCE_RETENTION_SECONDS = 4
  MaxStepBack = 1
  MaxStall = 1
INVARIANTS TypeOK AcceptOnce StillGuarded OnlyAcceptedBurns
PROPERTIES OldRowsPurged
