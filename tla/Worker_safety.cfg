SPECIFICATION Spec
CONSTANTS
  Queues = {"q"}
  Sources <- MCSources
  Keys <- MCKeys
  Bodies <- MCBodies
  Inputs <- MCInputs
  QueueOf <- OneQueue
  Outs <- StatefulOuts
  MaxFeed = 4
  MaxCrashes = 2
CHECK_DEADLOCK FALSE
INVARIANTS TypeOK SequenceIdNamesContent AcceptedOnceInOrder AckedIsLogged LoggedOnce GeneratorResumes InductiveInvariant
PROPERTY ImplementsSteps
