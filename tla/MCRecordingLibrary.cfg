SPECIFICATION Spec
CONSTANTS
  lower = lower
  upper = upper
  other = other
  Names <- MCNames
  Slug <- MCSlug
  e0 = e0
  e1 = e1
  e2 = e2
  Edits <- MCEdits
  Slots = {o1, o2}
  None = None
  Torn = Torn
INVARIANTS LibraryInv
PROPERTIES OthersKeepTheirEntry
SYMMETRY Symmetric
CHECK_DEADLOCK FALSE
