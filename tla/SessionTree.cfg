SPECIFICATION FairSpec
CONSTANTS
  process = process
  worker = worker
  Root = Root
  Targets <- ProcessAndWorker
  Parent <- Nested
  Stoppable <- Processes
  AttachFails = TRUE
INVARIANTS
  TypeOK
PROPERTIES
  InOrder
  EverySessionEnds
  DisconnectIsAnswered
CHECK_DEADLOCK FALSE
