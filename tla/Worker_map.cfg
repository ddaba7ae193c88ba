SPECIFICATION Spec
CONSTANTS
  Queues = {"q"}
  Sources <- MCSources
  Keys <- MCKeys
  Bodies <- MCBodies
  Inputs <- MCInputs
  QueueOf <- OneQueue
  Outs <- MapOuts
  MaxFeed = 3
  MaxCrashes = 1
CHECK_DEADLOCK FALSE
INVARIANT AcceptedOnceInOrder
