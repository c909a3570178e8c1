\* What the code says of a cancelled wait.
SPECIFICATION Spec
CONSTANTS
  Burns = {b1}
  None = None
  Runs = {t1}
  MaxCalls = 1
PROPERTIES
  CancelledIsAbsorbing
