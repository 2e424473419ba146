SPECIFICATION FairSpec
CONSTANTS
  Mode <- Modes
  Length = {4, 7}
  Variable = {7}
  MinLen = 4
  MaxLen = 7
  Capacity = 7
  MaxMessages = 3
  MaxEarly = 1
PROPERTIES ImplementsChannel CanaryRealigns Delivered CloseNoticed
\* The receiver waits for good when nothing more is sent.
CHECK_DEADLOCK FALSE
