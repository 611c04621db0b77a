SPECIFICATION Spec
CONSTANTS
  i1 = i1
  i2 = i2
  v4 = v4
  v6 = v6
  Ids = {i1}
  Families = {v4}
  Unspecified = unspecified
  FamilyOf <- MCFamilyOf
  Workers = {w1}
  Streams = {s1}
INVARIANTS
  NoDanglingObserver
CHECK_DEADLOCK FALSE
