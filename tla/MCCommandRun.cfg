SPECIFICATION CommandSpec
CONSTANTS
  Nothing = Nothing
  Refs = {x}
  t1 = t1
  t2 = t2
  u1 = u1
  u2 = u2
  Urls <- MCUrls
  TabIds <- MCTabIds
  MaxSteps = 2
  MaxSnapshots = 3
  CacheSize = 1
  DescriptorCap = 1
INVARIANTS RunInv DeltaIsTrue ActsWhereRead
CONSTRAINT Small
SYMMETRY Symmetric
CHECK_DEADLOCK FALSE
