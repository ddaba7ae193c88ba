SPECIFICATION FairSpec
CONSTANTS
  Clients = {"A", "B"}
  Simple = {"q1"}
  Accumulating = {"q4"}
  Feed <- MCFeed
  MaxCrashes = 1
CHECK_DEADLOCK FALSE
PROPERTY QueueIsHandled
