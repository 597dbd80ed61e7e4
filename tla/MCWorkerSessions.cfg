CONSTANTS None = None  Sessions = {s1}  Requests = {r1, r2}
SPECIFICATION FairSpec
INVARIANTS StoreMatchesBridge DrainedBeforeClosing
PROPERTIES DeathReachesStore
CHECK_DEADLOCK FALSE
