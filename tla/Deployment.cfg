SPECIFICATION FairSpec
CONSTANTS
  old = old
  new = new
  fork = fork
  Releases = {old, new, fork}
  Manifest <- MCManifest
  Jobs = {j1, j2}
  Processes = {p1}
  MaxRequests = 1
  BatchSize = 1
  MaxBatches = 2
  MaxExpired = 2
  None = None
INVARIANTS OneHistory ProcessesAreSound
PROPERTIES GarbageIsCollected ShutdownEnds
CHECK_DEADLOCK FALSE
