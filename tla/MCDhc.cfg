CONSTANTS
  pad = pad
  xpad = xpad
  neutral = neutral
  pressed = pressed
  None = None
  DeviceCount = 1
  Handles <- MCMixed
  XInputHandles <- MCXInputHandles
  Slots <- MCOneSlot
  Buffers <- MCBuffers
  Inputs <- MCInputs
  DefaultInputs = neutral
  mangle_inputs <- MCMangle
  SlotsFirst = TRUE
  OpenFailures = FALSE
  MaxBacklog = 2
SPECIFICATION Spec
INVARIANTS
  TypeOK
  EventsFit
  InStep
PROPERTIES
  ImplementsTables
  ImplementsInput
  Released
  InputsArrive
