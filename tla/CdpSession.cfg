SPECIFICATION FairSpec
CONSTANTS
  Root = Root
  page = page
  Attached <- Pages
  MaxRequests = 2
  MaxEvents = 2
INVARIANTS
  TypeOK
  AllSettled
  QueueIsDrained
PROPERTIES
  InOrder
  RequestsAreSettled
  EventsAreHeard
CHECK_DEADLOCK FALSE
