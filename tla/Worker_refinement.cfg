SPECIFICATION FairSpec
CONSTANTS
  Queues = {"q"}
  Sources <- MCSources
  Keys <- MCKeys
  Bodies <- MCBodies
  Inputs <- MCInputs
  QueueOf <- OneQueue
  Outs <- StatefulOuts
  MaxFeed = 3
  MaxCrashes = 1
CHECK_DEADLOCK FALSE
PROPERTIES ImplementsExactlyOnce EventuallyAcked
