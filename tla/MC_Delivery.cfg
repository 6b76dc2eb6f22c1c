SPECIFICATION Spec
CONSTANTS
  alice = alice
  bob = bob
  f1 = f1
  w1 = w1
  w2 = w2
  None = None
  User = {alice, bob}
  File = {f1}
  Worker = {w1, w2}
  Sender <- MCSender
  Recipient <- MCRecipient
  Expiration <- MCExpiration
  CertUntil <- MCCertUntil
  Enrolled = {alice, bob}
  MaxTime = 1
INVARIANTS TypeOK ConfirmedUploadIsKept RefusedUploadHasNoRow EveryRequestIsAnswered AckMeansDecrypted NoFileAfterClosing
SYMMETRY Symmetry
