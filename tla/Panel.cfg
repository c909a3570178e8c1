\* Two transfers, each with at most two requests under way.
SPECIFICATION FairSpec
CONSTANTS
  Burns = {b1}
  None = None
  Runs = {t1, t2}
  MaxCalls = 2
INVARIANTS
  TypeOK
PROPERTIES
  WaitsStayDriven
  NoSettleWhileCancelled
  FastNeedsQuote
  WaitsEnd
