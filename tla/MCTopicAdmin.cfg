SPECIFICATION Spec
CONSTANTS
  owner = owner  other = other  l1 = l1  l2 = l2
  k1 = k1  k2 = k2  k3 = k3  k4 = k4  k5 = k5  k6 = k6  k7 = k7
  Request = {r1, r2}
  Account = {owner, other}
  Owner = owner
  Label = {l1, l2}
  Grants <- GrantSets
  Document <- Documents
  TagKey = {k1, k2, k3, k4, k5, k6, k7}
  TagSets <- ManyTags
  TagLimit = 2
  MaxTopics = 2
CHECK_DEADLOCK FALSE
SYMMETRY Interchangeable
INVARIANTS TypeOK DenyOverrides LabelsUnique RevokedStaysRevoked TagsBounded
