CONSTANTS None = None  headed = headed  MayReject = TRUE
  Sessions = {s1, s2}  Modes = {headed}  Browsers = {b1, b2}  Contexts = {x1, x2}  Calls = {c1, c2}
  ModeOf <- OneMode
SPECIFICATION Spec
SYMMETRY Symm
INVARIANTS NoUnnoticedDeath PoolHandsOutLive
CHECK_DEADLOCK FALSE
