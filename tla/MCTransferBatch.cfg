CONSTANTS
  b1 = b1
  t1 = t1
  c1 = c1
  c2 = c2
  Batch = {b1}
  BatchLen <- OneBatchLen
  Text = {}
  Closer = {c1}
  Size = 2
  Wire = 3
SPECIFICATION Spec
CHECK_DEADLOCK FALSE
INVARIANTS
  TypeOK
  RecordedOnceBeforeDone
  CancelStaysWithItem
PROPERTIES
  NothingAfterDone
  BarNeverShrinks
  CancelsAndClosesEnd
