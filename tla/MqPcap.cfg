SPECIFICATION FairSpec
CONSTANTS
  node = node
  ctrl = ctrl
  Writer = {node, ctrl}
  Depth = 2
  Wrap = 4
  MaxMessages = 2
INVARIANTS TypeOK OnePlacePerBlock NoLostWakeup
PROPERTIES ImplementsFifo AllRead
\* When all messages are read, the reader sleeps for good.
CHECK_DEADLOCK FALSE
