\* Three settle requests of one burn on two instances: a holder finishes within the
\* lock's TTL, and Redis requests may fail.
SPECIFICATION Spec
CONSTANTS
  Burns = {b1}
  Calls = {r1, r2, r3}
  Clients = {i1, i2}
  None = None
  SharedStore = FALSE
  PostMintMayFail = FALSE
  PrepareErrors = {"AttestationTimeout", "Invalid", "Other"}
  EarlyExpiry = FALSE
  KvMayFail = TRUE
SYMMETRY Symmetry
INVARIANTS
  TypeOK
  SingleFlight
PROPERTIES
  SettledIsPermanent
  SettleImplementsSettlement
