\* Two settle requests of one burn on two instances: locks expire under running holders
\* and Redis requests fail, while every await of a handler ends.
SPECIFICATION FairSpec
CONSTANTS
  Burns = {b1}
  Calls = {r1, r2}
  Clients = {i1, i2}
  None = None
  SharedStore = FALSE
  PostMintMayFail = FALSE
  PrepareErrors = {"AttestationTimeout"}
  EarlyExpiry = TRUE
  KvMayFail = TRUE
INVARIANTS
  RecordsAreTrue
  ReceiptsAgree
  LocksAreReleased
PROPERTIES
  UnconfirmedStopsRetries
  RequestsAnswered
