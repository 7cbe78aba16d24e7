SPECIFICATION Spec
CONSTANTS
  t1 = t1
  t2 = t2
  Threads <- MCThreads
  UserIndexes <- MCUserIndexes
  DeviceCount = 1
  Packets = 3
  MaxReports = 3
INVARIANTS
  TypeOK
PROPERTIES
  Fresh
