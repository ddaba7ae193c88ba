SPECIFICATION FairSpec
CONSTANTS
  Clients = {"A", "B"}
  Simple = {"q1"}
  Accumulating = {"q4"}
  Feed <- MCFeed
  MaxCrashes = 2
CHECK_DEADLOCK FALSE
INVARIANTS TypeOK ResultsAreWhole AckRecordIsTrue RecordedOnce ResultsInvariant
PROPERTY ClientsAreServed
