SPECIFICATION Spec
CONSTANTS
  q1 = q1  q2 = q2  dlq = dlq
  Queue = {q1, q2, dlq}
  NoQueue = NoQueue
  ID = {1, 2, 3}
  Related <- Relations
  CIDR <- Networks
  ParseFloat <- Numbers
  FormatFloat <- Printed
  ParseArray <- Arrays
  Tolerance = 2
  JSON <- AllJSON
  Depth <- Depths
  Cases <- Unconfigured
CHECK_DEADLOCK FALSE
INVARIANT ProcessSurvives
