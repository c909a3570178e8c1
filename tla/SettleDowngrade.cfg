\* What the code says of the settled receipt, when locks expire under running holders.
SPECIFICATION Spec
CONSTANTS
  Burns = {b1}
  Calls = {r1, r2}
  Clients = {i1, i2}
  None = None
  SharedStore = FALSE
  PostMintMayFail = FALSE
  PrepareErrors = {"Other"}
  EarlyExpiry = TRUE
  KvMayFail = FALSE
PROPERTIES
  SettledIsPermanent
