SPECIFICATION DeliverySpec
CONSTANTS
  r1 = r1
  r2 = r2
  i1 = i1
  None = None
  Requests <- MCRequests
  Ids <- MCIds
  MaxBody = 1
  Stages = 1
  MaxEvents = 3
  MaxOperations = 2
INVARIANTS EventsNameTheirRequest ResponsesAreTrue AlarmsStayInside
PROPERTY EveryRequestEnds
CHECK_DEADLOCK FALSE
