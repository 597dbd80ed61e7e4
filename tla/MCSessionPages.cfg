SPECIFICATION MCSpec
CONSTANTS
  Main = main
  Popup = popup
  MaxReports = 1
  MaxMessages = 2
  MaxStarts = 2
  None = None
  Candidates <- MCCandidates
  GeneratedIds = {"g1"}
  Instrumented = 2
  Uninstrumented = 3
  Flood = 3
  MaxNodes = 4
  CaptureOf <- Capture
  Frames = {f1, f2, f3}
  Top = top
  Documents <- MCDocuments
  Framed <- MCFramed
  Reads <- MCReads
  MaxDepth = 2
  MaxFrames = 3
INVARIANTS PausedAgrees RunsEverywhere FramesInv FitForUse
CONSTRAINT FewMessages
CHECK_DEADLOCK FALSE
