SPECIFICATION Spec
CONSTANTS
  d1 = d1  d2 = d2  d3 = d3  january = january  february = february
  Days <- MCDays
  Partitions <- MCPartitions
  PartitionOf <- MCPartitionOf
  Batches <- MCBatches
  MaxPart = 3
  RollDays = 2
  Overwrite = FALSE
  Faults = {"write", "close", "commit", "kill"}
INVARIANTS
  ManifestBacked
  UnreadableOnlyOpen
  PartsAgreeWithManifest
PROPERTIES
  LedgerSpec
