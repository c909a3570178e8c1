\* What the code says of the attempt after an unconfirmed mint.
SPECIFICATION Spec
CONSTANTS
  Burns = {b1}
  Calls = {r1, r2}
  Clients = {i1, i2}
  None = None
  SharedStore = FALSE
  PostMintMayFail = FALSE
  PrepareErrors = {"Other"}
  EarlyExpiry = FALSE
  KvMayFail = FALSE
PROPERTIES
  RetryReconciles
