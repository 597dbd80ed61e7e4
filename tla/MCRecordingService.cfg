SPECIFICATION Spec
CONSTANTS
  Main = main
  Popup = popup
  Targets = {t1}
  u1 = u1
  u2 = u2
  Urls <- MCUrls
  Starters = {"human","agent"}
  None = None
  MaxSteps = 3
  MaxFramed = 1
  MaxShots = 2
INVARIANTS RecordingInv PageChangesAreSaid ListIsTold
CHECK_DEADLOCK FALSE
SYMMETRY Symmetric
CONSTRAINT FewWaits
