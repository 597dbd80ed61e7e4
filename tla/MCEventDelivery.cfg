CONSTANTS Sessions = {s1}  Clients = {c1}  Sinces <- AnySince  MaxBuffer = 2  MaxSeq = 4
SPECIFICATION FairDelivery
INVARIANTS NothingMissed NumbersGrow
PROPERTIES DeathIsHeard
CHECK_DEADLOCK FALSE
