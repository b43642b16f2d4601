SPECIFICATION Spec
CONSTANTS
  Chat = {"a"}
  None = "none"
  Time <- TimeOf
  Older <- Long
  Regrouping = {}
  PageSize = 2
  Window = 2
  MaxEntries = 2
  MaxMerged = 0
  MaxOpens = 1
  MaxFails = 0
CHECK_DEADLOCK FALSE
INVARIANTS NoGap
