-------------------------- MODULE MCDirectInputDevice --------------------------
(* A DirectInput device and a game with a few layouts of its state.        *)
EXTENDS DirectInputDevice

AnyOf(types) == [types |-> types, instance |-> AnyInstance, optional |-> TRUE,
                 leftover |-> FALSE]
Required(type, n) == [types |-> {type}, instance |-> n, optional |-> FALSE,
                      leftover |-> FALSE]
At(offset, guid, type) == [offset |-> offset, guid |-> guid, type |-> type]

DIDFT_AXIS   == {"RELAXIS", "ABSAXIS"}
DIDFT_BUTTON == {"PSHBUTTON", "TGLBUTTON"}
DIDFT_POV    == {"POV"}

(* c_dfDIJoystick cut short: two of its axes, two hats, and buttons in one *)
(* byte after the other.                                                   *)
Joystick ==
  [size |-> 20,
   objs |-> << At(0, "XAxis", AnyOf(DIDFT_AXIS)), At(4, "RzAxis", AnyOf(DIDFT_AXIS)),
               At(8, "POV", AnyOf(DIDFT_POV)), At(12, "POV", AnyOf(DIDFT_POV)),
               At(16, None, AnyOf(DIDFT_BUTTON)), At(17, None, AnyOf(DIDFT_BUTTON)),
               At(18, None, AnyOf(DIDFT_BUTTON)), At(19, None, AnyOf(DIDFT_BUTTON)) >>]

(* A layout of a game's own: a button it insists on, any axis, in another  *)
(* order and a smaller buffer.                                             *)
Pad ==
  [size |-> 12,
   objs |-> << At(4, None, AnyOf(DIDFT_AXIS)), At(0, None, Required("PSHBUTTON", 0)),
               At(8, "POV", AnyOf(DIDFT_POV)) >>]

(* A layout no device can serve.                                           *)
Wheel ==
  [size |-> 28,
   objs |-> << At(20, "YAxis", AnyOf(DIDFT_AXIS)), At(0, None, Required("RELAXIS", 0)) >>]

(* Two hats, the second of which no object feeds.                          *)
Hats == [size |-> 16, objs |-> << At(8, "POV", AnyOf(DIDFT_POV)), At(12, "POV", AnyOf(DIDFT_POV)) >>]

Empty == [size |-> 4, objs |-> <<>>]

MCFormats == {Joystick, Pad, Wheel, Hats, Empty}

MCIdentifiers == {Required("ABSAXIS", 0), Required("PSHBUTTON", 20)}
MCOffsets == {4, 16}
MCFewOffsets == {4}
MCFewIdentifiers == {Required("ABSAXIS", 0)}
MCDWords == {1284, 10000, 10001}
MCFewDWords == {10000}
MCRanges == {<<-1000, 1000>>}
MCLossy == {1284}

MCInputs ==
  { NeutralInputs,
    [NeutralInputs EXCEPT !.axis["LeftStickX"] = 1, !.axis["RightStickY"] = Scale,
                          !.hat = "East", !.pressed = {"West"}] }
===============================================================================
