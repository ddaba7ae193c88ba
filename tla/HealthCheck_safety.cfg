SPECIFICATION FairSpec
CONSTANTS
  N = 2
  Nodes = {n1}
  Owner <- MCOwner
  MaxErrors = 2
  MaxErr = 2
  MaxKills = 2
  MaxFaults = 3
INVARIANTS TypeOK AlarmIsDeserved HealthInvariant
PROPERTY AllComeBack
CHECK_DEADLOCK FALSE
