CONSTANTS
  DeviceCount = 2
  Indexes <- MCIndexes
  MaxHeld = 2
  None = None
SPECIFICATION Spec
INVARIANT CountsExact
INVARIANT ShownCanBeCreated
