\* What docs and comments say of a crash between sending a mint and marking it.
SPECIFICATION ReceiveSpec
CONSTANTS
  Burns = {b1}
  Calls = {c1, c2}
  Clients = {p1, p2}
  None = None
  SharedStore = TRUE
  PostMintMayFail = FALSE
  PrepareErrors = {"Other"}
PROPERTIES
  CrashedMintSeenOnRetry
