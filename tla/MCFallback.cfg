SPECIFICATION Spec
CONSTANTS
  t1 = t1
  t2 = t2
  t3 = t3
  p1 = p1
  p2 = p2
  None = None
  Threads <- MCThreads
  Processes <- MCProcesses
  ProcessOf <- MCProcessOf
  Edits <- MCTypo
  EditsBetweenLaunches = TRUE
  MaxLaunches = 1
  MaxEdits = 0
INVARIANTS
  FallsBack
