SPECIFICATION Spec
CONSTANTS
  r1 = r1  r2 = r2
  Request = {r1, r2}
  Cases <- AllCases
  MaxRetries = 10
  BackoffFunctions = {"", "linear", "arithmetic", "geometric", "exponential", "unknown"}
  HalfWord = 128
  Second = 4
  Precision = 16
CHECK_DEADLOCK FALSE
INVARIANTS RoundTrip DelaysOrdered RetryCount EffectiveIsCurrent
