SPECIFICATION Spec
CONSTANTS
  Scale = 8
  Formats <- MCFormats
  Identifiers <- MCIdentifiers
  Offsets <- MCOffsets
  DWords <- MCDWords
  Ranges <- MCRanges
  Inputs <- MCInputs
  Lossy <- MCLossy
  MaxSets = 2
  None = None
  AnyInstance = AnyInstance
INVARIANTS
  TypeOK
  NothingLeftOut
  MissingHatsCentred
  WritesFit
  PropertiesAddress
  FullDeflection
  NeverBackwards
