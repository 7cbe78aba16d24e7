-------------------------------- MODULE MCDhc ---------------------------------
(* Dhc with one player that two controllers share.                         *)
EXTENDS Dhc

CONSTANTS pad, xpad, neutral, pressed

MCMixed         == {pad, xpad}
MCXInputHandles == {xpad}
MCOneSlot       == {0}
MCBuffers       == 11..14
MCInputs        == {neutral, pressed}
MCMangle        == [i \in {neutral, pressed} |-> i]
===============================================================================
