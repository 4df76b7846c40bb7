SPECIFICATION LoadSpec
CONSTANTS
  d1 = d1  d2 = d2  january = january
  Days <- MCDays
  Partitions <- MCPartitions
  PartitionOf <- MCPartitionOf
  Batches <- MCBatches
  MaxPart = 1
  RollDays = 1
  Overwrite = FALSE
  Faults = {"kill"}
  Wanted <- MCWanted
  Entries <- LocalThenApi
  KeySet = TRUE
  VendorDays <- MCDays
  LocalFiles <- MCLocalFiles
  LoadFaults = {"fetch", "payload", "cache", "kill"}
  MaxLoads = 2
INVARIANTS
  StoredDayWhole
  MissExplained
  PaidOnce
CHECK_DEADLOCK FALSE
