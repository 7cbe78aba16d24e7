------------------------------- MODULE InputPath -------------------------------
(***************************************************************************)
(* What happens to the inputs of one controller on their way to the game:  *)
(* a HID report is parsed (input/hid.rs) and mangled (lib.rs), an XInput   *)
(* state is read (input/xinput.rs), both end in the controller's buffer,   *)
(* and XInputGetState (xinput1_3.cpp) shows the player who is bound to the *)
(* controller as an XINPUT_GAMEPAD.  (DirectInputDevice shows the same     *)
(* inputs to a DirectInput game; RawInput and Dhc have the threads.)       *)
(***************************************************************************)
EXTENDS InputTypes, SequencesExt

CONSTANTS
  Capabilities, \* the value_caps a HID controller may come with
  Reported,     \* bound on the values it may report
  Pressed,      \* the sets of button usages it may report
  MaxReports,   \* bound on the reports in one WM_INPUT
  MaxButtons,   \* MAX_BUTTONS
  Pads,         \* the states XInput may report
  Positions,    \* of a pad's stick, as XINPUT_GAMEPAD has them
  left_stick_normalized,  \* what rusty_xinput makes of a position, in
  right_stick_normalized, \* parts of 1/Centre from -1 to 1 (external)
  Configs,      \* [dpad_override, deadzone: None or the threshold]
  None

SticksAndTriggers == {"X", "Y", "Z", "RX", "RY", "RZ"}

(* The value_caps of a controller: no usage twice, values that fit their   *)
(* bits, and directions of a hat that are not negative and leave a value   *)
(* for a centred one.  The positions of a stick or a trigger are whole     *)
(* parts of 1/Scale, which excludes no range: Scale is only the resolution *)
(* of the grid, and can be any common multiple of the ranges' lengths (510 *)
(* does for the 0..255 of most pads).                                      *)
ValueCaps(caps) ==
  /\ Len(caps) \in Nat /\ DOMAIN caps = 1..Len(caps)
  /\ \A i, j \in DOMAIN caps : caps[i].Usage = caps[j].Usage => i = j
  /\ \A i \in DOMAIN caps :
       LET c == caps[i]
       IN  /\ c.LogicalMin \in Int /\ c.LogicalMax \in Int /\ c.BitSize \in Nat
           /\ c.LogicalMin < c.LogicalMax
           /\ c.LogicalMin >= 0 => c.LogicalMax < 2^c.BitSize
           /\ c.LogicalMin < 0 => /\ 2 * (c.LogicalMax + 1) <= 2^c.BitSize
                                  /\ 2 * (-c.LogicalMin) <= 2^c.BitSize
           /\ c.Usage = "HAT" => c.LogicalMin >= 0 /\ c.LogicalMax + 1 < 2^c.BitSize
           /\ c.Usage \in SticksAndTriggers => Scale % (c.LogicalMax - c.LogicalMin) = 0

Arrows == {"up", "right", "down", "left"}

PadButtons ==
  {"North", "East", "South", "West", "Start", "Select", "L1", "R1", "L2", "R2", "L3", "R3"}

(* A state of a pad, its sticks where they really are.                     *)
PadStates ==
  [buttons : SUBSET PadButtons, arrows : SUBSET Arrows, left : Positions, right : Positions]

(* "These values are in the range [-1, 1]" (xinput.rs line 46).            *)
Normalized == (-Centre)..Centre

ASSUME InputPathAssumption ==
  /\ left_stick_normalized \in [Positions -> Normalized \X Normalized]
  /\ right_stick_normalized \in [Positions -> Normalized \X Normalized]
  /\ \A caps \in Capabilities : ValueCaps(caps)
  /\ Pads \subseteq PadStates
  /\ MaxReports \in Nat
  \* "from 0 to 1" (config.rs line 33); nothing checks it.
  /\ \A c \in Configs : c.deadzone = None \/ c.deadzone \in Axis
  /\ None \notin DeviceInputs \cup Int

VARIABLES
  config,     \* CONFIG
  value_caps, \* of the HID controller; <<>> for an XInput controller
  physical,   \* what the controller told the parser last: a report, or a
              \* pad's state; None if it could not be read
  buffer,     \* what reading its triple buffer returns
  gamepad,    \* what the game was shown since, None if it has not looked
  aborted     \* a panic ended the process

vars == <<config, value_caps, physical, buffer, gamepad, aborted>>

IsXInput == value_caps = <<>>

Init ==
  /\ config \in Configs
  /\ value_caps \in Capabilities \cup {<<>>}
  /\ physical = None /\ buffer = NeutralInputs /\ gamepad = None
  /\ aborted = FALSE

(* Axis::set_value; a panic is the value None of the whole DeviceInputs.   *)
set_value(inputs, axis, value) ==
  IF inputs = None \/ value \notin Axis THEN None
  ELSE [inputs EXCEPT !.axis[axis] = value]

-----------------------------------------------------------------------------
(* The reports of a controller: its buttons, and per capability a value in *)
(* the logical range, for a hat also one that means it is centred.  A      *)
(* report with another ID has nothing of what the parser asks for.         *)
LogicalValues(cap) ==
  ((cap.LogicalMin .. cap.LogicalMax) \cap Reported)
    \cup (IF cap.Usage = "HAT" THEN {cap.LogicalMax + 1} ELSE {})

AnotherReport == [id |-> "other"]

Reports(caps) ==
  {AnotherReport} \cup
  {[id |-> "input", buttons |-> b, values |-> v] :
     b \in Pressed,
     v \in {w \in [DOMAIN caps -> UNION {LogicalValues(caps[i]) : i \in DOMAIN caps}] :
              \A i \in DOMAIN caps : w[i] \in LogicalValues(caps[i])}}

Messages(caps) == UNION {[1..n -> Reports(caps)] : n \in 1..MaxReports}

(* HidP_GetUsageValue: the bits of the value, as an unsigned number.       *)
get_usage_value(cap, logical) == logical % 2^cap.BitSize

ButtonOfUsage ==
  <<"West", "South", "East", "North", "L1", "R1", "L2", "R2",
    "Select", "Start", "L3", "R3", "Home", "Trackpad">>

(* The right stick's vertical axis included: it sets the left stick.       *)
AxisOfUsage ==
  [X |-> "LeftStickX", Y |-> "LeftStickY", Z |-> "RightStickX",
   RZ |-> "LeftStickY", RX |-> "LeftTrigger", RY |-> "RightTrigger"]

(* Mutant: a range of n + 1 values is n + 1 steps long.                    *)
unlerpByCount(x, min, max) == ((x - min) * Scale) \div (max - min + 1)

unlerp(x, min, max) == (x - min) * (Scale \div (max - min))

(* Mutant: the directions are counted from one.                            *)
HatOfFromOne(value) == IF value \in 1..8 THEN Clockwise[value] ELSE "Neutral"

HatOf(value) == IF value \in 0..7 THEN Clockwise[value + 1] ELSE "Neutral"

ParseValue(inputs, cap, value) ==
  CASE cap.Usage \in SticksAndTriggers ->
         set_value(inputs, AxisOfUsage[cap.Usage],
                   unlerp(value, cap.LogicalMin, cap.LogicalMax))
    [] cap.Usage = "HAT" ->
         IF inputs = None THEN None ELSE [inputs EXCEPT !.hat = HatOf(value)]
    [] OTHER -> inputs

Parsable(report) ==
  report.id = "input" /\ Cardinality(report.buttons) <= MaxButtons

(* What has been parsed after each turn of the loop over the capabilities. *)
Parsed(report) ==
  LET buttons == {ButtonOfUsage[u] : u \in report.buttons \cap DOMAIN ButtonOfUsage}
      parsed[i \in 0..Len(value_caps)] ==
        IF i = 0 THEN [NeutralInputs EXCEPT !.pressed = buttons]
        ELSE ParseValue(parsed[i - 1], value_caps[i],
                        get_usage_value(value_caps[i], report.values[i]))
  IN  parsed

parse_ps4(report) == Parsed(report)[Len(value_caps)]

-----------------------------------------------------------------------------
(* Mutant: the distance from the centre is not scaled up.                  *)
BeyondHalf(value, threshold) ==
  (IF value > Centre THEN value - Centre ELSE Centre - value) > threshold

Beyond(value, threshold) ==
  2 * (IF value > Centre THEN value - Centre ELSE Centre - value) > threshold

Snapped(value, threshold) ==
  IF ~Beyond(value, threshold) THEN Centre
  ELSE IF value > Centre THEN Scale ELSE 0

LeftStick == {"LeftStickX", "LeftStickY"}

mangle_inputs(inputs) ==
  LET stick(a) == IF config.dpad_override /\ inputs.hat # "Neutral"
                  THEN Centre ELSE inputs.axis[a]
      snap(value) == IF config.deadzone = None THEN value
                     ELSE Snapped(value, config.deadzone)
  IN  [inputs EXCEPT !.axis = [a \in AxisType |-> IF a \in LeftStick
                                                  THEN snap(stick(a)) ELSE @[a]]]

LastParsable(message) ==
  LET parsable == {i \in DOMAIN message : Parsable(message[i])}
  IN  IF parsable = {} THEN None ELSE message[Max(parsable)]

(* The last report that parses counts; none, and the controller is at rest.*)
WhatCounts(message) ==
  IF LastParsable(message) = None THEN NeutralInputs
  ELSE parse_ps4(LastParsable(message))

Panics(message) ==
  \E i \in DOMAIN message : Parsable(message[i]) /\ parse_ps4(message[i]) = None

handle_input(message) ==
  /\ ~IsXInput
  /\ physical' = LastParsable(message)
  /\ gamepad' = None
  /\ IF Panics(message)
     THEN aborted' = TRUE /\ UNCHANGED buffer
     ELSE buffer' = mangle_inputs(WhatCounts(message)) /\ UNCHANGED aborted
  /\ UNCHANGED <<config, value_caps>>

-----------------------------------------------------------------------------
(* Mutant: the Y axis is not turned upside down.                           *)
FromNormalizedUpright(stick) == <<stick[1] + Centre, stick[2] + Centre>>

(* From parts of 1/Centre in [-1, 1], up positive, to ours.                *)
FromNormalized(stick) == <<stick[1] + Centre, Centre - stick[2]>>

Towards(arrows, plus, minus) ==
  (IF plus \in arrows THEN 1 ELSE 0) - (IF minus \in arrows THEN 1 ELSE 0)

HatOfArrows(arrows) ==
  CASE Towards(arrows, "right", "left") = -1 ->
         <<"NorthWest", "West", "SouthWest">>[2 + Towards(arrows, "down", "up")]
    [] Towards(arrows, "right", "left") = 0 ->
         <<"North", "Neutral", "South">>[2 + Towards(arrows, "down", "up")]
    [] Towards(arrows, "right", "left") = 1 ->
         <<"NorthEast", "East", "SouthEast">>[2 + Towards(arrows, "down", "up")]

(* L2 and R2 of a pad are its triggers, pulled far enough.  A stick is not *)
(* where the pad has it, but where the library puts it.                    *)
InputsOfPad(pad) ==
  LET left  == FromNormalized(left_stick_normalized[pad.left])
      right == FromNormalized(right_stick_normalized[pad.right])
      read  == [NeutralInputs EXCEPT !.pressed = pad.buttons \cap PadButtons,
                                     !.hat = HatOfArrows(pad.arrows)]
  IN  set_value(set_value(set_value(set_value(read,
        "LeftStickX", left[1]), "LeftStickY", left[2]),
        "RightStickX", right[1]), "RightStickY", right[2])

read_xinput(pad) ==
  /\ IsXInput
  /\ physical' = pad
  /\ gamepad' = None
  /\ LET inputs == InputsOfPad(pad)
     IN  IF inputs = None THEN aborted' = TRUE /\ UNCHANGED buffer
         ELSE buffer' = inputs /\ UNCHANGED aborted
  /\ UNCHANGED <<config, value_caps>>

-----------------------------------------------------------------------------
(* static_cast<int> of n / Scale, which rounds towards zero.               *)
Truncated(n) == IF n >= 0 THEN n \div Scale ELSE -((-n) \div Scale)

(* Mutant: the upper end is one too far for a SHORT.                       *)
ClampTooHigh(n) ==
  IF n > 32768 * Scale THEN 32768
  ELSE IF n < -32768 * Scale THEN -32768 ELSE Truncated(n)

(* n / Scale within the range of a SHORT.                                  *)
Clamp(n) ==
  IF n > 32767 * Scale THEN 32767
  ELSE IF n < -32768 * Scale THEN -32768 ELSE Truncated(n)

ArrowsOfHat(hat) ==
  {"up" : h \in {hat} \cap {"NorthWest", "North", "NorthEast"}}
    \cup {"right" : h \in {hat} \cap {"NorthEast", "East", "SouthEast"}}
    \cup {"down" : h \in {hat} \cap {"SouthEast", "South", "SouthWest"}}
    \cup {"left" : h \in {hat} \cap {"SouthWest", "West", "NorthWest"}}

GamepadButtons ==
  {"Start", "Select", "L3", "R3", "L1", "R1", "South", "East", "West", "North"}

(* XInputGetState after dhc_update, for the player of this controller.     *)
GamepadOf(inputs) ==
  LET across(a) == Clamp(65536 * inputs.axis[a] - 32768 * Scale)
      upward(a) == Clamp(32768 * Scale - 65536 * inputs.axis[a])
      trigger(a) == (inputs.axis[a] * 255) \div Scale
  IN  [wButtons |-> inputs.pressed \cap GamepadButtons,
       arrows   |-> ArrowsOfHat(inputs.hat),
       bLeftTrigger  |-> trigger("LeftTrigger"),
       bRightTrigger |-> trigger("RightTrigger"),
       sThumbLX |-> across("LeftStickX"),  sThumbLY |-> upward("LeftStickY"),
       sThumbRX |-> across("RightStickX"), sThumbRY |-> upward("RightStickY")]

GetState ==
  /\ gamepad' = GamepadOf(buffer)
  /\ UNCHANGED <<config, value_caps, physical, buffer, aborted>>

Stopped == aborted /\ UNCHANGED vars

Next ==
  \/ /\ ~aborted
     /\ \/ ~IsXInput /\ \E message \in Messages(value_caps) : handle_input(message)
        \/ \E pad \in Pads : read_xinput(pad)
        \/ GetState
  \/ Stopped

Spec == Init /\ [][Next]_vars

-----------------------------------------------------------------------------
Shorts == -32768..32767
Bytes  == 0..255

(* Buffers hold DeviceInputs, and what the game is shown fits the fields   *)
(* of XINPUT_GAMEPAD: no conversion to BYTE or SHORT wraps around.         *)
TypeOK ==
  /\ config \in Configs
  /\ buffer \in DeviceInputs
  /\ gamepad # None =>
       /\ {gamepad.sThumbLX, gamepad.sThumbLY, gamepad.sThumbRX, gamepad.sThumbRY}
            \subseteq Shorts
       /\ {gamepad.bLeftTrigger, gamepad.bRightTrigger} \subseteq Bytes
  /\ aborted \in BOOLEAN

(* The game was shown what the controller said last.                       *)
Shown    == gamepad # None /\ physical # None /\ ~aborted
HidShown == Shown /\ ~IsXInput
Logical(usage) ==
  LET caps == {i \in DOMAIN value_caps : value_caps[i].Usage = usage}
  IN  IF caps = {} THEN None
      ELSE physical.values[CHOOSE i \in caps : TRUE]
CapOf(usage) == value_caps[CHOOSE i \in DOMAIN value_caps : value_caps[i].Usage = usage]

(* The configuration means what dhc.toml says (config.rs lines 27 to 35):  *)
(* the dpad overrides the left stick, and with a deadzone the stick's      *)
(* values are in the centre below the threshold, outside above it, where   *)
(* the threshold is a part of the way from the centre to the end.          *)
StickAsConfigured ==
  HidShown /\ Logical("X") # None =>
    LET cap    == CapOf("X")
        hat    == Logical("HAT")
        \* twice the distance from the centre, in parts of the whole range
        twice  == 2 * Logical("X") - cap.LogicalMin - cap.LogicalMax
        away   == IF twice >= 0 THEN twice ELSE -twice
        inside == away * Scale <= config.deadzone * (cap.LogicalMax - cap.LogicalMin)
        overridden == config.dpad_override /\ hat # None /\ hat \in 0..7
    IN  /\ overridden => gamepad.sThumbLX = 0
        /\ ~overridden /\ config.deadzone # None =>
             gamepad.sThumbLX = IF inside THEN 0
                                ELSE IF twice > 0 THEN 32767 ELSE -32768

(* A HID stick or trigger pushed all the way arrives as the end of the     *)
(* game's range, whatever logical range the controller uses, and is never  *)
(* taken for a value beyond it (Axis::set_value, types.rs line 13, ends    *)
(* the process for one) unless the range has negative values.  A threshold *)
(* of 1.0 is the one deadzone from which no position escapes.              *)
EndsReachGame ==
  LET ends(usage, shown, low, high) ==
        Logical(usage) # None =>
          /\ Logical(usage) = CapOf(usage).LogicalMin => shown = low
          /\ Logical(usage) = CapOf(usage).LogicalMax => shown = high
  IN  /\ aborted => \E cap \in Range(value_caps) : cap.LogicalMin < 0
      /\ HidShown /\ ~(config.dpad_override /\ gamepad.arrows # {})
                  /\ (config.deadzone = None \/ config.deadzone < Scale) =>
           /\ ends("X", gamepad.sThumbLX, -32768, 32767)
           /\ ends("Z", gamepad.sThumbRX, -32768, 32767)
           /\ ends("RX", gamepad.bLeftTrigger, 0, 255)

(* A hat that points 45 * n degrees from north presses the arrows within   *)
(* 45 degrees of it, and a centred one none.  (A hat that counts from      *)
(* zero: parse_ps4 does not look at the logical range of a hat.)           *)
ArrowsForwarded ==
  HidShown /\ Logical("HAT") # None =>
    LET n == Logical("HAT")
    IN  /\ "up" \in gamepad.arrows    <=> n \in {7, 0, 1}
        /\ "right" \in gamepad.arrows <=> n \in 1..3
        /\ "down" \in gamepad.arrows  <=> n \in 3..5
        /\ "left" \in gamepad.arrows  <=> n \in 5..7

(* What a pad says arrives: the same buttons, the same arrows but for      *)
(* opposite ones, and each stick, neither turned nor mirrored, within a    *)
(* step of where rusty_xinput puts it on the scale of a SHORT.  (That is   *)
(* not where the pad has it: the library cuts out a dead zone of its own.  *)
(* The triggers are left out, see TriggersForwarded.)                      *)
XInputForwarded ==
  Shown /\ IsXInput =>
    LET left  == left_stick_normalized[physical.left]
        right == right_stick_normalized[physical.right]
        near(thumb, part) == thumb * Scale - 65536 * part \in (-Scale)..Scale
        lone(a, b) == a \in physical.arrows /\ b \notin physical.arrows
    IN  /\ gamepad.wButtons = physical.buttons \ {"L2", "R2"}
        /\ \A p \in {<<"up", "down">>, <<"down", "up">>,
                     <<"left", "right">>, <<"right", "left">>} :
             p[1] \in gamepad.arrows <=> lone(p[1], p[2])
        /\ near(gamepad.sThumbLX, left[1])  /\ near(gamepad.sThumbLY, left[2])
        /\ near(gamepad.sThumbRX, right[1]) /\ near(gamepad.sThumbRY, right[2])

(* "XInput controllers only get their triggers forwarded as digital        *)
(* buttons, not analog values" (README.md line 70): of two triggers of a   *)
(* pad, an XInput game sees the one that is pulled further down than the   *)
(* one that is not.                                                        *)
TriggersForwarded ==
  Shown /\ IsXInput =>
    /\ "L2" \in physical.buttons /\ "R2" \notin physical.buttons =>
         gamepad.bLeftTrigger > gamepad.bRightTrigger
    /\ "R2" \in physical.buttons /\ "L2" \notin physical.buttons =>
         gamepad.bRightTrigger > gamepad.bLeftTrigger
===============================================================================
