SPECIFICATION Spec
CONSTANTS
  Clients = {"A"}
  Asked = {4}
  Uploads <- FirstReview
  Catalog <- MCCatalog
  Shard <- MCShard
  FirstYear = 2010
  LastYear = 2019
  Joiners = 2
  Expected = 2
  Texts = 3
  Target = 2
  N = 1
  PlaytimeN = 2
  JoinBatch = 1
  CounterBatch = 2
  Percent = 50
  PercentBatch = 1
  MaxRestarts = 0
CHECK_DEADLOCK FALSE
INVARIANT TargetReachedIsPublished
