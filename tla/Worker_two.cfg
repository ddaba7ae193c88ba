SPECIFICATION Spec
CONSTANTS
  Queues = {"reviews","games"}
  Sources <- MCSources
  Keys <- MCKeys
  Bodies <- MCBodies
  Inputs <- MCInputs
  QueueOf <- TwoQueues
  Outs <- ForwardOuts
  MaxFeed = 3
  MaxCrashes = 1
CHECK_DEADLOCK FALSE
INVARIANT AcceptedOnceInOrder
