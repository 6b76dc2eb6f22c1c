SPECIFICATION FairSpec
CONSTANTS
  alice = alice
  bob = bob
  carol = carol
  f1 = f1
  w1 = w1
  w2 = w2
  p1 = p1
  None = None
  User = {alice, bob, carol}
  File = {f1}
  Worker = {w1, w2}
  Package = {p1}
  Sender <- MCSender
  Recipient <- MCRecipient
  Expiration <- MCExpiration
  CertUntil <- MCCertUntil
  Enrolled = {alice, bob}
  MaxUploads = 2
  MaxTime = 2
INVARIANTS
  TypeOK UploadIsDurable DownloadedHasAck ConfirmedIsClosed
  NotServedAfterClosing ExpiredIsPast ListedIsServed
PROPERTIES NeverReopened KeepsPromise ExpiredIsSwept
