SPECIFICATION Spec
CONSTANTS
  Scale = 8
  Formats <- MCFormats
  Identifiers <- MCFewIdentifiers
  Offsets <- MCFewOffsets
  DWords <- MCFewDWords
  Ranges <- MCRanges
  Inputs <- MCInputs
  Lossy <- MCLossy
  MaxSets = 2
  None = None
  AnyInstance = AnyInstance
INVARIANTS
  ChecksHold
