SPECIFICATION Spec
CONSTANTS
  i1 = i1
  i2 = i2
  v4 = v4
  v6 = v6
  Unspecified = Unspecified
  Ids = {i1, i2}
  Families = {v4, v6}
  FamilyOf <- MCFamilyOf
  Workers = {w1, w2}
  Streams = {s1}
INVARIANTS
  TypeOK
  OwedNotLost
  BroadcastOnce
  ViewExact
PROPERTIES
  FeedSpec
SYMMETRY Symmetry
CHECK_DEADLOCK FALSE
