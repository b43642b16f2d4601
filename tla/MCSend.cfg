SPECIFICATION SendSpec
CONSTANTS
  IdOf <- OneHasId
  NameOf <- SameName
  b1 = b1
  t1 = t1
  c1 = c1
  c2 = c2
  Batch = {b1}
  BatchLen <- SingleLen
  Text = {t1}
  Closer = {c1, c2}
  Size = 1
  Wire = 2
  Planned = 3
  Dirs = {2}
  None = None
  m1 = m1
  m2 = m2
  Machine = {m1, m2}
  Addr = {1, 2}
  Name = {"bob"}
  Id = {"i1"}
  NoId = "noId"
  All = 0
  MaxSockets = 2
  MaxMoves = 1
CHECK_DEADLOCK FALSE
INVARIANTS
  NoPhantomCancel
  FolderHonest
  RightMachine
PROPERTIES
  ImplementsOutbox
  SendsAndLookupsEnd
