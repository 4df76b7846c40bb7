SPECIFICATION DownloadSpec
CONSTANTS
  d1 = d1  d2 = d2  d3 = d3  january = january
  Days = {d1, d2, d3}
  Partitions <- MCPartitions
  PartitionOf <- MCPartitionOf
  Batches = {}
  MaxPart = 6
  RollDays = 2
  Overwrite = FALSE
  Faults = {"write", "kill", "late"}
  JobList <- ThreeJobs
  Concurrency = 2
  QueueCap = 1
  Answers <- MCAnswers
  RunFaults = {"interrupt", "drain"}
INVARIANTS
  SummaryAgrees
  OneFetchAfterStop
PROPERTIES
  RunEnds
  StoreUsedAsAllowed
