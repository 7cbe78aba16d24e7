--------------------------- MODULE MCVirtualDevices ---------------------------
(* VirtualDevices on four controllers and two or three players.            *)
EXTENDS BindLoop

CONSTANTS d1, d2, d3, d4, b1, b2, neutral, pressed

MCDeviceIds == {d1, d2, d3, d4}
MCBuffers   == {b1, b2}
MCInputs    == {neutral, pressed}
===============================================================================
