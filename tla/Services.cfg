\* Two requests on one deposit, two fee requests, two runs of the script, one instance,
\* two calls that prepare a mint with two reads of Iris each.
SPECIFICATION ServicesFairSpec
CONSTANTS
  Requests = {r1, r2}
  Deposits = {d1}
  NoId = NoId
  Lifetime = 3
  FastWindow = 1
  Window = 1
  Limit = 1
  Asks = {q1, q2}
  FeeLife = 2
  Runs = {p1, p2}
  Hashes = {h1, h2}
  NoRun = NoRun
  NoHash = NoHash
  NoQuote = NoQuote
  Amounts = {7693}
  Quotes = {130}
  OperatorFees = {7693}
  Payments = {20}
  MaxPaid = 20
  Preps = {x1, x2}
  MaxRetries = 2
  Sequence = 7
INVARIANTS
  ServicesTypeOK
  OneHolder
  NothingForgotten
  ProvenIsOwnMint
  QuotedFeeSuffices
  StartRulesOut
PROPERTIES
  ListKeepsReceipts
  FirstClaimWins
  RegisteredIntentsExist
  SettledIsAnswered
  WindowsEnd
  MissingTierIsForgotten
  MintsArePrepared
  PollingEnds
CHECK_DEADLOCK FALSE
