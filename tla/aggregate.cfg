SPECIFICATION Spec
CONSTANTS
  None = None
  Requirement <- MCRequirement
  MaxInt = 100
  MaxTaken = 5
INVARIANTS AggregateInvariant TotalsExact LinesCombine NothingDropped LinesStorable OnlyOverflowFails
CHECK_DEADLOCK FALSE
