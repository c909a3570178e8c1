\* Three calls of receive() over two burns in two processes that share a durable
\* replay store.
SPECIFICATION ReceiveSpec
CONSTANTS
  Burns = {b1, b2}
  Calls = {c1, c2, c3}
  Clients = {p1, p2}
  None = None
  SharedStore = TRUE
  PostMintMayFail = TRUE
  PrepareErrors = {"Other"}
SYMMETRY Symmetry
INVARIANTS
  ReceiveTypeOK
  AtMostOneSettlement
  RecordsNameMints
  RefusedIsCredited
PROPERTIES
  ReceiveImplementsSettlement
