SPECIFICATION PageSpec
CONSTANTS
  Chat = {"a", "b"}
  None = "none"
  Time <- TimeOf
  Older <- Short
  Regrouping = {"b"}
  PageSize = 2
  Window = 1
  MaxEntries = 2
  MaxMerged = 1
  MaxOpens = 2
  MaxFails = 1
  Send = {"s1", "s2"}
  Path = {"p", "q"}
  Hold = 1
  Remember = 1
  MaxQueue = 2
CHECK_DEADLOCK FALSE
INVARIANTS TypesOK InOrderOnce ArrivalsShown 
PROPERTIES PageSettles
