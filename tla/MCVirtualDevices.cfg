CONSTANTS
  d1 = d1
  d2 = d2
  d3 = d3
  d4 = d4
  b1 = b1
  b2 = b2
  neutral = neutral
  pressed = pressed
  None = None
  DeviceCount = 2
  DeviceIds <- MCDeviceIds
  Buffers <- MCBuffers
  Inputs <- MCInputs
  DefaultInputs = neutral
SPECIFICATION Spec
INVARIANTS
  TypeOK
  BindingsAgree
  NoIdlePair
  UnboundNeutral
  LoopBinds
PROPERTIES
  KeepsItsPlayer
  NewestFirst
  ImplementsTable
