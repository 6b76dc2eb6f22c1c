SPECIFICATION Spec
CONSTANTS
  o1 = o1
  o2 = o2
  alice = alice
  bob = bob
  CA = CA
  None = None
  Operator = {o1, o2}
  User = {alice, bob}
  Key = {k1, k2, k3}
  Runs <- MCRuns
INVARIANTS TypeOK IssuedWhole CopiesAgree
PROPERTIES IssuedForGood
SYMMETRY Symmetry
