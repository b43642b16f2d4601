SPECIFICATION FilesSpec
CONSTANTS
  i1 = i1
  i2 = i2
  bob = bob
  a1 = a1
  a2 = a2
  h1 = h1
  Id = {i1, i2}
  NoId = NoId
  Name = {bob}
  Folded = {bob}
  Fold <- SameName
  IP = {a1, a2}
  Nobody = Nobody
  OfflineAfter = 0
  Handler = {h1}
  Discovery = Discovery
  Ticker = Ticker
  Sightings <- Both
  MaxTime = 1
  m2 = "m2"
  Message = {"m1", "m2"}
  Upload = {"f"}
  Command = {"c"}
  None = None
  MaxCuts = 1
  Process = {"p1", "p2", "p3"}
  Missing = Missing
  Corrupt = Corrupt
INVARIANTS
  NoMissedChange
  FileKeepsUp
  DownIsFinal
  EntriesSavedOnce
  PrintedAsSaved
  CallersShareOneId
CHECK_DEADLOCK FALSE
