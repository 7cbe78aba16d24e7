CONSTANTS
  pad = pad
  xpad = xpad
  neutral = neutral
  None = None
  Handles <- MCHandles
  XInputHandles <- MCXInputHandles
  Slots <- MCSlots
  Buffers <- MCBuffers
  Inputs <- MCOneInput
  DefaultInputs = neutral
  mangle_inputs <- MCMangleOne
  SlotsFirst = FALSE
  OpenFailures = TRUE
  MaxBacklog = 3
SPECIFICATION Spec
INVARIANT
  NeverAborts
