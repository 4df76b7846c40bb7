CONSTANTS
  Window <- MCHours
  Archives <- MCArchives
  Procs = {1, 2}
  MaxSize = 2
  RawFaults = {"error", "broken", "kill", "silent", "short"}
  Overwrite = FALSE
SPECIFICATION RawSpec
INVARIANTS
  StoredWhole
  OwnTmpKept
  ReportTells
CHECK_DEADLOCK FALSE
