SPECIFICATION Spec
CONSTANTS
  None = None
  Requirement <- MCRequirement
  MaxInt = 400
  MaxTaken = 4
INVARIANTS CheckFits
CHECK_DEADLOCK FALSE
