SPECIFICATION FilesSpec
CONSTANTS
  None = None
  c1 = c1
  c2 = c2
  Callers = {c1, c2}
  LowerFirst <- MCLowerFirst
  StepNames <- MCStepNames
  VerifyNames <- MCVerifyNames
  CredentialRefs <- MCCredentialRefs
  CamelOf <- MCCamelOf
  DashCamelOf <- MCDashCamelOf
  SaidInside <- MCSaidInside
  Inputs <- MCInputs
  MaxCalls = 3
  LastAlone = 1
  MaxFaults = 1
SYMMETRY MCSymmetry
CHECK_DEADLOCK FALSE
INVARIANT CodegenInv
PROPERTIES EndsResolved OthersStand
