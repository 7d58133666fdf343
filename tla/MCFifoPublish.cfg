SPECIFICATION Spec
CONSTANTS
  Publisher = {p1, p2}
  g1 = g1  g2 = g2  d1 = d1  d2 = d2  m1 = m1
  Cases <- AllCases
  Queue = {q1}
  NoID = NoID
  NoTopic = NoTopic
  Window = 2
  SequenceSpan = 10
CHECK_DEADLOCK FALSE
SYMMETRY Publishers
INVARIANTS TypeOK NoDuplicateInWindow SequenceOrder DuplicateNamesOriginal SentAtMostOnce QueueInSequenceOrder AcceptedIsSent
