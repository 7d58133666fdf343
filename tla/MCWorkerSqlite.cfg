SPECIFICATION Spec
CONSTANTS
  n1 = n1  n2 = n2  t1 = t1  t2 = t2
  JobID = {n1, n2}
  TopicOf <- Topics
  Notification = {n1}
  Redriven = {n1, n2}
  Delays <- Policies
  Limit = 1
  StoreKind = "sqlite"
  MaxFaults = 2
  MaxCrashes = 1
  MaxInstalls = 0
CHECK_DEADLOCK FALSE
INVARIANTS TypeOK AttemptsBounded NeverAbandoned DeadLettered DeadLetterOnce WithdrawnStaysGone
PROPERTY Drained
