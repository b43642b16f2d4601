SPECIFICATION Spec
CONSTANTS
  Startup = "startup"
  Saver = {}
  Retrier = {"retry"}
  Stopper = "stop"
  Sent = {"s"}
  Received = {}
  None = "none"
  Quits = FALSE
  MaxQueue = 2
  MaxGiveUps = 0
CHECK_DEADLOCK FALSE
INVARIANT RecordedIsShown
