SPECIFICATION Spec
CONSTANTS
  Request = {r1, r2}
  TopicARN = {t1}
  Endpoint = {h1, q1}
  SQSEndpoint = {q1}
  MaxID = 4
  MaxTopics = 2
  MaxCrashes = 1
CHECK_DEADLOCK FALSE
SYMMETRY Requests
INVARIANT SubscriptionHasTopic
