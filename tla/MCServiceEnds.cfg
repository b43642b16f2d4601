SPECIFICATION Spec
CONSTANTS
  Startup = "startup"
  Saver = {"save"}
  Retrier = {"retry"}
  Stopper = "stop"
  Sent = {}
  Received = {"r"}
  None = "none"
  Quits = TRUE
  MaxQueue = 1
  MaxGiveUps = 0
CHECK_DEADLOCK FALSE
PROPERTY CallsEnd
