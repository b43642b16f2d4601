SPECIFICATION Spec
CONSTANTS
  Startup = "startup"
  Saver = {"save"}
  Retrier = {"retry"}
  Stopper = "stop"
  Sent = {"s"}
  Received = {}
  None = "none"
  Quits = TRUE
  MaxQueue = 2
  MaxGiveUps = 1
CHECK_DEADLOCK FALSE
INVARIANTS TypeOK EntriesShown PageKeepsUp CleanQuit
