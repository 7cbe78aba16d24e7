------------------------------ MODULE InputTypes ------------------------------
(***************************************************************************)
(* dhc/src/input/types.rs: what one controller, real or virtual, reports.  *)
(*                                                                         *)
(* An axis is an f32 between 0 and 1; here it is a whole number of parts   *)
(* of 1/Scale, so that the conversions at both ends of the library are     *)
(* exact on the positions a run looks at.  The rounding of floats is not   *)
(* modelled.                                                               *)
(***************************************************************************)
EXTENDS Integers

CONSTANT Scale  \* the axis value 1.0

ASSUME ScaleAssumption == Scale \in Nat \ {0} /\ Scale % 2 = 0

Centre == Scale \div 2

AxisType ==
  {"LeftStickX", "LeftStickY", "RightStickX", "RightStickY",
   "LeftTrigger", "RightTrigger"}

ButtonType ==
  {"Start", "Select", "Home", "North", "East", "South", "West",
   "L1", "L2", "L3", "R1", "R2", "R3", "Trackpad"}

(* The directions of the hat, clockwise from north.                        *)
Clockwise ==
  <<"North", "NorthEast", "East", "SouthEast",
    "South", "SouthWest", "West", "NorthWest">>

Hat == {"Neutral"} \cup {Clockwise[i] : i \in 1..8}

(* The values Axis::set_value accepts; for any other it panics.            *)
Axis == 0..Scale

(* pressed is the set of the buttons that are true.                        *)
DeviceInputs ==
  [axis : [AxisType -> Axis], hat : Hat, pressed : SUBSET ButtonType]

(* DeviceInputs::default(): every axis centred, the triggers too.          *)
NeutralInputs ==
  [axis |-> [a \in AxisType |-> Centre], hat |-> "Neutral", pressed |-> {}]
===============================================================================
