\* A set without files and one of two files and three reads; two faults of the host.
SPECIFICATION FairTransferSpec
CONSTANTS
  Inventories <- SomeInventories
  MaxFaults = 2
INVARIANT
  TransferInv
PROPERTIES
  KeepsDelivery
  GivesBack
  RunEnds
CHECK_DEADLOCK FALSE
