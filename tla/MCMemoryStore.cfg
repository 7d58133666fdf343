CONSTANTS
  Client = {c1, c2}
  TopicName = {n1}
  UUID = {u1}
  Token = {k1}
  JobID = {j1}
  TopicData = {1}
  SubData = {1}
  JobData = {1}
  NoState = NoState
SPECIFICATION Spec
SYMMETRY Clients
INVARIANTS TypeOK NoDanglingIndex
PROPERTY AllOrNothing
