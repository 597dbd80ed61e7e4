CONSTANTS Calls = {c1, c2}  Commands = {c1}  RecoveryStreak = 2  MaxGen = 2
SPECIFICATION FairSpec
INVARIANTS ClientInv DoneTwiceOnlyIfLost UnavailableIsTrue
PROPERTIES DegradedIsLeftByStreak EveryCallEnds
CHECK_DEADLOCK FALSE
