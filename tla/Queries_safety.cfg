SPECIFICATION FairSpec
CONSTANTS
  Clients = {"A", "B"}
  Asked = {1, 2, 3, 4, 5}
  Uploads <- AllUploads
  Catalog <- MCCatalog
  Shard <- MCShard
  FirstYear = 2010
  LastYear = 2019
  Joiners = 2
  Expected = 2
  Texts = 3
  Target = 2
  N = 1
  PlaytimeN = 2
  JoinBatch = 1
  CounterBatch = 2
  Percent = 50
  PercentBatch = 1
  MaxRestarts = 1
CHECK_DEADLOCK FALSE
INVARIANTS TypeOK NetworkInvariant EofBehindData NothingAfterResult ClientForgotten CountsInvariant PlatformsCounted LongestPlayed MostVoted AbovePercentile OnlyPopular AllPopular
PROPERTY ResultsArrive
