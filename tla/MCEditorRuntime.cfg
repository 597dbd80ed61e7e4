SPECIFICATION Spec
CONSTANTS
  a = a
  b = b
  p1 = p1
  p2 = p2
  p3 = p3
  f1 = f1
  f2 = f2
  r1 = r1
  r2 = r2
  None = None
  Stale = Stale
  Editors <- MCEditors
  Pids <- MCPids
  Flows <- MCFlows
  Folders <- MCFolders
SYMMETRY Symmetric
INVARIANTS RuntimeInv NothingLost RunningIsTrue
CONSTRAINT Orderly
CHECK_DEADLOCK FALSE
