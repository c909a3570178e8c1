\* What the code says of Execute after a quote that failed.
SPECIFICATION Spec
CONSTANTS
  Burns = {b1}
  None = None
  Runs = {t1}
  MaxCalls = 1
INVARIANTS
  RetryCanRequote
