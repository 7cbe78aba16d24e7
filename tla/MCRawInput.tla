------------------------------ MODULE MCRawInput ------------------------------
(* RawInput on a few controllers, some of them XInput devices.             *)
EXTENDS RawInput

CONSTANTS pad, xpad, neutral

MCHandles       == {pad, xpad}
MCXInputHandles == {xpad}
MCSlots         == {0, 1}
MCBuffers       == 11..16
MCOneInput      == {neutral}
MCMangleOne     == [i \in {neutral} |-> i]
===============================================================================
