SPECIFICATION FairSpec
CONSTANTS
  MaxInt = 8
  Units = {"cup"}
  Holds <- MCHolds
  Checkouts <- MCCheckouts
  Pod = "pod"
  Commands = {"ingest"}
  Latest = 2
  MaxStops = 1
INVARIANTS CorpusWhole ServesCorpus ItemsAgree ImportInvariant AuditInvariant
PROPERTIES LoadsOnce AuditSuffices PodServes
CHECK_DEADLOCK FALSE
