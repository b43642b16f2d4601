SPECIFICATION NodeSpec
CONSTANTS
  u1 = u1
  u2 = u2
  Upload = {u1, u2}
  Folder = {u1}
  Hollow = {}
  Want <- MeetAtOne
  Stored <- InUse
  MaxTry = 1
  i1 = i1
  bob = bob
  a1 = a1
  Id = {i1}
  NoId = NoId
  Name = {bob}
  Folded = {bob}
  Fold <- SameFold
  IP = {a1}
  Nobody = Nobody
  OfflineAfter = 0
  Handler = {}
  Discovery = "discovery"
  Ticker = "ticker"
  MaxTime = 1
INVARIANTS
  FilesStay
  NothingLeftBehind
  WaitCoversUploads
  
PROPERTIES
  NodeEnds
