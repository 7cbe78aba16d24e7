SPECIFICATION Spec
CONSTANTS
  t1 = t1
  t2 = t2
  t3 = t3
  p1 = p1
  p2 = p2
  None = None
  Threads <- MCThreads
  Processes <- MCProcesses
  ProcessOf <- MCProcessOf
  Edits <- MCEdits
  EditsBetweenLaunches = TRUE
  MaxLaunches = 2
  MaxEdits = 1
INVARIANTS
  TypeOK
  ReadyIsReady
PROPERTIES
  ValidConfigKept
  GetsReady
