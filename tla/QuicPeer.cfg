SPECIFICATION FairSpec
CONSTANT
  NClients = 2
INVARIANTS
  MainExitsLast
PROPERTIES
  ClientsEnd
  ServerTasksEnd
  AnsweredUnlessCutOff
CHECK_DEADLOCK FALSE
