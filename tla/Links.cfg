SPECIFICATION FairSpec
CONSTANTS
  P = 2
  RxCapacity = 4
  TxCapacity = 1
  MaxPackets <- Uneven
  MaxOut <- ToFirst
  MaxInject = 1
  MaxChanges = 1
INVARIANTS PeekHolds OffMeansSilent NoPortServedTwice
PROPERTIES Served SendReturns
\* A node and a neighbour that send to each other may block each other for good.
CHECK_DEADLOCK FALSE
