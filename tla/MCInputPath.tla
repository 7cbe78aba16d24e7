----------------------------- MODULE MCInputPath -----------------------------
(* A few HID controllers and the states of an XInput pad.                  *)
EXTENDS InputPath

Cap(usage, min, max, bits) ==
  [Usage |-> usage, LogicalMin |-> min, LogicalMax |-> max, BitSize |-> bits]

(* Sticks and hats of different ranges: the byte of most pads, some that   *)
(* do not begin at 0 or have no middle, a dial the parser ignores, and an  *)
(* axis that has negative values.                                          *)
MCCapabilities ==
  { << Cap("X", 0, 255, 8), Cap("Y", 1, 3, 8) >>,
    << Cap("X", 0, 2, 8), Cap("HAT", 0, 7, 4) >>,
    << Cap("Z", 2, 4, 8), Cap("RX", 0, 255, 8) >>,
    << Cap("Y", 0, 2, 2), Cap("RZ", 0, 2, 8), Cap("DIAL", 0, 1, 8) >>,
    << Cap("X", -2, 3, 8) >> }

(* A byte's ends, what lies on both sides of the threshold Centre, and all *)
(* of the other ranges.                                                    *)
MCReported == -2..7 \cup {63, 64, 191, 192, 255}

(* Three buttons at once are one more than MaxButtons; 15 has no name.       *)
MCPressed == {{2, 15}, {1, 2, 3}}

MCConfigs ==
  {[dpad_override |-> o, deadzone |-> d] : o \in BOOLEAN, d \in {None, Centre}}

(* Sticks at rest, just within and just beyond the dead zones of the       *)
(* library (7849 of the left stick, 8689 of the right one), pushed to an   *)
(* edge and to a corner.                                                   *)
MCPositions ==
  {<<0, 0>>, <<7000, 0>>, <<8000, 0>>, <<-32768, 0>>, <<0, 32767>>, <<32767, -32767>>}

(* Nothing within the dead zone, and what is beyond it stretched to [-1,   *)
(* 1]: 1 is the part of 255 that (8000 - 7849) / (32767 - 7849) comes to.  *)
Stretched(deadzone) ==
  [p \in MCPositions |->
     CASE p[1] > 0 /\ p[2] = 0 -> <<((p[1] - deadzone) * Centre) \div (32767 - deadzone), 0>>
       [] p[1] < 0 -> <<-Centre, 0>>
       [] p[1] > 0 /\ p[2] < 0 -> <<180, -180>>
       [] p[2] > 0 -> <<0, Centre>>
       [] OTHER -> <<0, 0>>]

MCNormalized(deadzone) ==
  [p \in MCPositions |-> IF p[2] = 0 /\ p[1] \in 0..deadzone THEN <<0, 0>>
                         ELSE Stretched(deadzone)[p]]

MCLeftNormalized  == MCNormalized(7849)
MCRightNormalized == MCNormalized(8689)

(* Both sticks in one position, or the right one in its corner.            *)
MCSticks == {<<l, r>> \in MCPositions \X MCPositions : r \in {l, <<32767, -32767>>}}

MCPads ==
  {[buttons |-> b, arrows |-> a, left |-> s[1], right |-> s[2]] :
     b \in {{"R2"}, {"L2", "South", "Start"}},
     a \in SUBSET {"up", "right", "down", "left"}, s \in MCSticks}
===============================================================================
