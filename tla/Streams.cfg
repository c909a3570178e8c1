\* Streams of two burns on one server, one place for two, the settle route beside them.
SPECIFICATION StreamsFairSpec
CONSTANTS
  Burns = {b1, b2}
  Calls = {c1, c2}
  Clients = {server}
  Server = server
  Streams = {s1, s2}
  Variants = {v1}
  MaxReceives = 1
  None = None
  SharedStore = FALSE
  PostMintMayFail = FALSE
  PrepareErrors = {"Other"}
INVARIANTS
  StreamsTypeOK
  CountIsExact
  OneFlightPerKey
  OwnSettlementHeard
  FileRecordsAreTrue
  OnlyLeaversExceedCap
PROPERTIES
  StreamsEnd
