\* Streams whose clients leave, one place, two burns.
SPECIFICATION StreamsSpec
CONSTANTS
  Burns = {b1, b2}
  Calls = {c1, c2}
  Clients = {server}
  Server = server
  Streams = {s1, s2}
  Variants = {v1}
  MaxReceives = 1
  None = None
  SharedStore = FALSE
  PostMintMayFail = FALSE
  PrepareErrors = {"Other"}
INVARIANTS
  ReceivesWithinCap
