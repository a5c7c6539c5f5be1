SPECIFICATION Spec
CONSTANTS
  Code <- Programs
  Start <- Starts
  MaxPid = 5
  PipeBuf = 3
INVARIANTS
  
  OwnAnswer
  ServerSurvives
  EventsOnce
  Guarded

 
CHECK_DEADLOCK FALSE
