SPECIFICATION Spec
CONSTANTS
  n1 = n1  n2 = n2  t1 = t1  t2 = t2
  JobID = {n1, n2}
  TopicOf <- Topics
  Notification = {n1, n2}
  Redriven = {n1}
  Delays <- ShortPolicies
  Limit = 2
  StoreKind = "memory"
  MaxFaults = 0
  MaxCrashes = 0
  MaxInstalls = 3
CHECK_DEADLOCK FALSE
INVARIANT NeverAbandoned
