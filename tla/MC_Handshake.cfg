CONSTANTS
  ck = ck
  sk = sk
  k2 = k2
  ca1 = ca1
  ca2 = ca2
  alice = alice
  srv = srv
  Key = {ck, sk, k2, ca1, ca2}
  Subject = {alice, srv}
  Nonce = {n1, n2}
  Secret = {s1, s2}
  ClientAssets <- MCClientAssets
  ServerAssets <- MCServerAssets
  None = None
  MaxTime = 2
SPECIFICATION FairSpec
INVARIANTS TypeOK Agreement PossessionProved SecretOnlyToVerified NoStandoff RefusalIsAuthError
PROPERTIES BothEnd
CHECK_DEADLOCK FALSE
