------------------------ MODULE DirectInputDeviceProofs ------------------------
(***************************************************************************)
(* Proofs about the DirectInput device: its axes, for any resolution of an *)
(* axis and any deadzone, saturation and range a game may set, and its     *)
(* layout, for any data formats a game may set one after the other.        *)
(*                                                                         *)
(* The loop of SetDataFormat is what the second half is about: TurnInv is  *)
(* its loop invariant, LayoutInv what its calls preserve of the device.    *)
(***************************************************************************)
EXTENDS DirectInputDevice, FiniteSetTheorems, SequenceTheorems,
        WellFoundedInduction, TLAPS

(* The settings of every object are of their types, all the time.          *)
SettingsTyped == settings \in [Objects -> Settings]

LEMMA AxisTyped ==
  /\ Scale \in Nat /\ Scale > 0 /\ Centre \in Nat /\ 2 * Centre = Scale
  /\ Axis = 0..Scale
  BY ScaleAssumption DEF Axis, Centre

LEMMA SettingsAreNumbers ==
  ASSUME NEW s \in Settings
  PROVE  /\ s.range_min \in Int /\ s.range_max \in Int
         /\ s.deadzone \in Int /\ 0 <= s.deadzone /\ s.deadzone <= 10000
         /\ s.saturation \in Int /\ 0 <= s.saturation /\ s.saturation <= 10000
  <1>1. /\ s.range_min \in Int /\ s.range_max \in Int
        /\ s.deadzone \in Share /\ s.saturation \in Share
    BY DEF Settings
  <1>2. ASSUME NEW n \in Share PROVE n \in Int /\ 0 <= n /\ n <= 10000
    BY DEF Share
  <1>3. QED
    BY <1>1, <1>2

(* A setting replaced by one of its type leaves the settings of a type.    *)
LEMMA DeadzoneReplaced ==
  ASSUME NEW s \in Settings, NEW n \in Share
  PROVE  [s EXCEPT !.deadzone = n] \in Settings
  BY DEF Settings

LEMMA SaturationReplaced ==
  ASSUME NEW s \in Settings, NEW n \in Share
  PROVE  [s EXCEPT !.saturation = n] \in Settings
  BY DEF Settings

LEMMA RangeReplaced ==
  ASSUME NEW s \in Settings, NEW n \in Int, NEW m \in Int
  PROVE  [[s EXCEPT !.range_min = n] EXCEPT !.range_max = m] \in Settings
  <1>1. \A t \in Settings : [t EXCEPT !.range_max = m] \in Settings
    BY DEF Settings
  <1>2. [s EXCEPT !.range_min = n] \in Settings
    BY DEF Settings
  <1>3. QED
    BY <1>1, <1>2, Zenon

(* Products keep an order.                                                 *)
LEMMA Times ==
  ASSUME NEW a \in Int, NEW b \in Int, a <= b, NEW c \in Nat
  PROVE  a * c \in Int /\ b * c \in Int /\ a * c <= b * c
  OBVIOUS

LEMMA DistanceTyped ==
  ASSUME NEW v \in Axis
  PROVE  Distance(v) \in Nat /\ Distance(v) <= Centre /\ v \in Nat
  BY AxisTyped DEF Distance

LEMMA SnapTyped ==
  ASSUME NEW s \in Settings, NEW v \in Axis
  PROVE  Snap(s, v) \in 0..Scale
  BY AxisTyped DEF Snap

(* A stick pushed further is never snapped further back.                   *)
LEMMA SnapMonotone ==
  ASSUME NEW s \in Settings, NEW v \in Axis, NEW w \in Axis, v <= w
  PROVE  Snap(s, v) <= Snap(s, w)
  <1> DEFINE sat == s.saturation * Scale
             dead == s.deadzone * Scale
  <1>1. sat \in Int /\ dead \in Int
    <2>1. s.saturation \in Int /\ s.deadzone \in Int
      BY SettingsAreNumbers
    <2>2. \A n \in Int : n * Scale \in Int
      BY AxisTyped
    <2>3. QED
      BY <2>1, <2>2
  <1>2. /\ Saturated(s, v) <=> 20000 * Distance(v) >= sat
        /\ Saturated(s, w) <=> 20000 * Distance(w) >= sat
        /\ Dead(s, v) <=> 20000 * Distance(v) <= dead
        /\ Dead(s, w) <=> 20000 * Distance(w) <= dead
    BY DistanceTyped DEF Saturated, Dead
  <1>3. v \in Nat /\ w \in Nat /\ v <= Scale /\ w <= Scale
    BY AxisTyped
  <1> HIDE DEF sat, dead
  <1>4. QED
    BY <1>1, <1>2, <1>3, AxisTyped DEF Distance, Snap

(* What Truncate does is division, rounded towards zero.                   *)
LEMMA TruncateMonotone ==
  ASSUME NEW x \in Int, NEW y \in Int, x <= y, NEW d \in Nat, d > 0
  PROVE  Truncate(x, d) <= Truncate(y, d)
  <1>1. \A a, b \in Int : a <= b => a \div d <= b \div d
    OBVIOUS
  <1>2. \A a \in Int : a >= 0 => a \div d >= 0
    OBVIOUS
  <1>3. QED
    BY <1>1, <1>2 DEF Truncate

(* A quotient is the one number that leaves a remainder below the divisor. *)
LEMMA Quotient ==
  ASSUME NEW d \in Nat, d > 0, NEW q \in Int, NEW r \in 0..(d - 1)
  PROVE  (d * q + r) \div d = q
  OBVIOUS

LEMMA TruncateExact ==
  ASSUME NEW d \in Nat, d > 0, NEW q \in Int
  PROVE  Truncate(q * d, d) = q
  <1>1. (d * q + 0) \div d = q /\ (d * (-q) + 0) \div d = -q
    BY Quotient
  <1>2. d * q + 0 = q * d /\ d * (-q) + 0 = -(q * d) /\ q * d \in Int
    OBVIOUS
  <1>3. QED
    BY <1>1, <1>2 DEF Truncate

(* Numerator and denominator may be divided by the same number.            *)
LEMMA TruncateReduced ==
  ASSUME NEW c \in Nat, c > 0, NEW a \in Int
  PROVE  Truncate(c * a, 2 * c) = Truncate(a, 2)
  <1>1. ASSUME NEW n \in Int PROVE (c * n) \div (2 * c) = n \div 2
    <2>1. PICK q \in Int, r \in 0..1 : n = 2 * q + r
      <3>1. n = 2 * (n \div 2) \/ n = 2 * (n \div 2) + 1
        OBVIOUS
      <3>2. n \div 2 \in Int
        OBVIOUS
      <3>3. CASE n = 2 * (n \div 2)
        BY <3>2, <3>3
      <3>4. CASE n = 2 * (n \div 2) + 1
        BY <3>2, <3>4
      <3>5. QED
        BY <3>1, <3>3, <3>4
    <2>2. n \div 2 = q
      BY <2>1, Quotient
    <2>3. c * r \in 0..(2 * c - 1)
      <3>1. CASE r = 0
        BY <3>1
      <3>2. CASE r = 1
        BY <3>2
      <3>3. QED
        BY <2>1, <3>1, <3>2
    <2>4. c * n = (2 * c) * q + c * r
      <3>1. CASE r = 0
        <4>1. c * (2 * q + 0) = (2 * c) * q + c * 0
          OBVIOUS
        <4>2. QED
          BY <2>1, <3>1, <4>1
      <3>2. CASE r = 1
        <4>1. c * (2 * q + 1) = (2 * c) * q + c * 1
          <5>1. \A e \in Int : c * (e + 1) = c * e + c
            OBVIOUS
          <5>2. c * (2 * q) = (2 * c) * q /\ 2 * q \in Int /\ c * 1 = c
            OBVIOUS
          <5>3. QED
            BY <5>1, <5>2
        <4>2. QED
          BY <2>1, <3>2, <4>1
      <3>3. QED
        BY <2>1, <3>1, <3>2
    <2>5. ((2 * c) * q + c * r) \div (2 * c) = q
      <3> DEFINE d == 2 * c
                 e == c * r
      <3>1. d \in Nat /\ d > 0 /\ e \in 0..(d - 1)
        BY <2>3
      <3> HIDE DEF d, e
      <3>2. (d * q + e) \div d = q
        BY <3>1, Quotient
      <3>3. QED
        BY <3>2 DEF d, e
    <2>6. QED
      BY <2>2, <2>4, <2>5
  <1>2. (c * a) \div (2 * c) = a \div 2 /\ (c * (-a)) \div (2 * c) = (-a) \div 2
    BY <1>1
  <1>3. c * (-a) = -(c * a) /\ c * a \in Int /\ (c * a >= 0 <=> a >= 0)
    OBVIOUS
  <1>4. QED
    BY <1>2, <1>3 DEF Truncate

-----------------------------------------------------------------------------
LEMMA ReadingMonotone ==
  ASSUME NEW s \in Settings, s.range_min <= s.range_max,
         NEW v \in Axis, NEW w \in Axis, v <= w
  PROVE  AxisReading(s, v) <= AxisReading(s, w)
  <1> DEFINE a == Snap(s, v)
             b == Snap(s, w)
             span == s.range_max - s.range_min
             base == s.range_min * Scale
  <1>1. a \in Int /\ b \in Int /\ a <= b
    BY SnapTyped, SnapMonotone, AxisTyped
  <1>2. span \in Int /\ span >= 0
    BY SettingsAreNumbers
  <1>3. base \in Int
    BY SettingsAreNumbers, AxisTyped
  <1>4. AxisReading(s, v) = Truncate(base + a * span, Scale)
        /\ AxisReading(s, w) = Truncate(base + b * span, Scale)
    BY DEF AxisReading
  <1> HIDE DEF a, b, span, base
  <1>5. a * span \in Int /\ b * span \in Int /\ a * span <= b * span
    BY <1>1, <1>2
  <1>6. base + a * span \in Int /\ base + b * span \in Int
        /\ base + a * span <= base + b * span
    BY <1>3, <1>5
  <1>7. QED
    BY <1>4, <1>6, TruncateMonotone, AxisTyped

LEMMA ReadingAtEnds ==
  ASSUME NEW s \in Settings
  PROVE  /\ AxisReading(s, 0) = s.range_min
         /\ AxisReading(s, Scale) = s.range_max
         /\ s.saturation > 0 =>
              AxisReading(s, Centre) = Truncate(s.range_min + s.range_max, 2)
  <1> DEFINE min == s.range_min
             max == s.range_max
  <1>1. /\ 0 \in Axis /\ Scale \in Axis /\ Centre \in Axis
        /\ Distance(0) = Centre /\ Distance(Scale) = Centre /\ Distance(Centre) = 0
        /\ ~(0 > Centre) /\ Scale > Centre
    BY AxisTyped DEF Distance
  <1>2. min \in Int /\ max \in Int
    BY SettingsAreNumbers
  <1>3. Saturated(s, 0) /\ Saturated(s, Scale)
    <2>1. s.saturation * Scale \in Int /\ s.saturation * Scale <= 10000 * Scale
      <3>1. s.saturation \in Int /\ s.saturation <= 10000
        BY SettingsAreNumbers
      <3>2. QED
        BY <3>1, Times, AxisTyped
    <2>2. 2 * Centre * 10000 = 10000 * Scale
      BY AxisTyped
    <2>3. QED
      BY <1>1, <2>1, <2>2, AxisTyped DEF Saturated
  <1>4. Snap(s, 0) = 0 /\ Snap(s, Scale) = Scale
    BY <1>1, <1>3 DEF Snap
  <1>5. AxisReading(s, 0) = min
    <2>1. min * Scale + 0 * (max - min) = min * Scale
      BY <1>2, AxisTyped
    <2>2. QED
      BY <1>2, <1>4, <2>1, TruncateExact, AxisTyped DEF AxisReading
  <1>6. AxisReading(s, Scale) = max
    <2>1. min * Scale + Scale * (max - min) = max * Scale
      BY <1>2, AxisTyped
    <2>2. QED
      BY <1>2, <1>4, <2>1, TruncateExact, AxisTyped DEF AxisReading
  <1>7. ASSUME s.saturation > 0
        PROVE  AxisReading(s, Centre) = Truncate(min + max, 2)
    <2>1. /\ s.saturation * Scale \in Int /\ s.saturation * Scale > 0
          /\ s.deadzone * Scale \in Int /\ s.deadzone * Scale >= 0
      <3>1. s.saturation \in Int /\ 1 <= s.saturation /\ s.deadzone \in Int /\ 0 <= s.deadzone
        BY <1>7, SettingsAreNumbers
      <3>2. 1 * Scale <= s.saturation * Scale /\ 0 * Scale <= s.deadzone * Scale
            /\ s.saturation * Scale \in Int /\ s.deadzone * Scale \in Int
        BY <3>1, Times, AxisTyped
      <3>3. 1 * Scale = Scale /\ 0 * Scale = 0
        BY AxisTyped
      <3>4. QED
        BY <3>2, <3>3, AxisTyped
    <2>2. ~Saturated(s, Centre) /\ Dead(s, Centre)
      <3> DEFINE sat == s.saturation * Scale
                 dead == s.deadzone * Scale
      <3>1. /\ Saturated(s, Centre) <=> 2 * Distance(Centre) * 10000 >= sat
            /\ Dead(s, Centre) <=> 2 * Distance(Centre) * 10000 <= dead
        BY DEF Saturated, Dead
      <3>2. sat \in Int /\ sat > 0 /\ dead \in Int /\ dead >= 0
        BY <2>1
      <3> HIDE DEF sat, dead
      <3>3. QED
        BY <1>1, <3>1, <3>2
    <2>3. Snap(s, Centre) = Centre
      BY <2>2 DEF Snap
    <2>4. min * Scale + Centre * (max - min) = Centre * (min + max)
      <3>1. min * (2 * Centre) + Centre * (max - min) = Centre * (min + max)
        BY <1>2, AxisTyped
      <3>2. QED
        BY <3>1, AxisTyped
    <2>5. Centre \in Nat /\ Centre > 0 /\ min + max \in Int
      BY <1>2, AxisTyped
    <2>6. Truncate(Centre * (min + max), 2 * Centre) = Truncate(min + max, 2)
      BY <2>5, TruncateReduced
    <2>7. QED
      BY <2>3, <2>4, <2>6, AxisTyped DEF AxisReading
  <1>8. QED
    BY <1>5, <1>6, <1>7

-----------------------------------------------------------------------------
(* No call but a SetProperty that checks its argument changes a setting.   *)
LEMMA NextSettings == SettingsTyped /\ [Next]_vars => SettingsTyped'
  <1> SUFFICES ASSUME SettingsTyped, [Next]_vars PROVE SettingsTyped'
    OBVIOUS
  <1>1. CASE UNCHANGED settings
    BY <1>1 DEF SettingsTyped
  <1>2. ASSUME NEW f \in Formats, SetDataFormat(f) PROVE SettingsTyped'
    BY <1>1, <1>2 DEF SetDataFormat
  <1>3. ASSUME NEW guid, NEW how, NEW obj, NEW dword \in DWords, NEW range \in Ranges,
               SetProperty(guid, how, obj, dword, range)
        PROVE  SettingsTyped'
    <2> DEFINE object == FindPropertyObject(how, obj)
    <2>1. dword \in Nat /\ range[1] \in Int /\ range[2] \in Int
      BY DirectInputDeviceAssumption, SMTT(40)
    <2>2. Settable(dword) => dword \in Share
      BY <2>1, SMTT(40) DEF Settable, Share
    <2> HIDE DEF object
    <2>7. \A x \in Objects : settings[x] \in Settings
      BY DEF SettingsTyped
    <2>3. CASE settings' = [settings EXCEPT ![object].deadzone = dword] /\ Settable(dword)
      <3>1. ASSUME NEW x \in Objects PROVE [settings[x] EXCEPT !.deadzone = dword] \in Settings
        BY <2>2, <2>3, <2>7, DeadzoneReplaced
      <3>2. settings' = [x \in Objects |-> IF x = object
                                          THEN [settings[x] EXCEPT !.deadzone = dword]
                                          ELSE settings[x]]
        BY <2>3 DEF SettingsTyped
      <3>3. QED
        BY <3>1, <3>2 DEF SettingsTyped
    <2>4. CASE settings' = [settings EXCEPT ![object].saturation = dword] /\ Settable(dword)
      <3>1. ASSUME NEW x \in Objects PROVE [settings[x] EXCEPT !.saturation = dword] \in Settings
        BY <2>2, <2>4, <2>7, SaturationReplaced
      <3>2. settings' = [x \in Objects |-> IF x = object
                                          THEN [settings[x] EXCEPT !.saturation = dword]
                                          ELSE settings[x]]
        BY <2>4 DEF SettingsTyped
      <3>3. QED
        BY <3>1, <3>2 DEF SettingsTyped
    <2>5. CASE settings' = [settings EXCEPT ![object].range_min = range[1],
                                            ![object].range_max = range[2]]
      <3>1. ASSUME NEW x \in Objects
            PROVE  [[settings[x] EXCEPT !.range_min = range[1]] EXCEPT !.range_max = range[2]]
                     \in Settings
        BY <2>1, <2>7, RangeReplaced
      <3>2. settings' =
              [x \in Objects |->
                 IF x = object
                 THEN [[settings[x] EXCEPT !.range_min = range[1]] EXCEPT !.range_max = range[2]]
                 ELSE settings[x]]
        BY <2>5 DEF SettingsTyped
      <3>3. QED
        BY <3>1, <3>2 DEF SettingsTyped
    <2>6. QED
      BY <1>1, <1>3, <2>3, <2>4, <2>5 DEF SetProperty, object
  <1>4. ASSUME NEW guid, NEW how, NEW obj, GetProperty(guid, how, obj) PROVE SettingsTyped'
    BY <1>1, <1>4 DEF GetProperty
  <1>5. CASE Properties
    BY <1>3, <1>4, <1>5 DEF Properties
  <1>6. CASE GetDeviceState \/ Poll \/ Enumeration \/ GetCapabilities \/ OtherCall
             \/ Stopped \/ UNCHANGED vars
    BY <1>1, <1>6 DEF GetDeviceState, Poll, Enumeration, EnumObjects, GetCapabilities,
                      OtherCall, Stopped, vars
  <1>7. QED
    BY <1>2, <1>5, <1>6 DEF Next

LEMMA SettingsStayTyped == Spec => []SettingsTyped
  <1>1. Init => SettingsTyped
    BY DEF Init, SettingsTyped, Settings, Share
  <1>2. QED
    BY <1>1, NextSettings, PTL DEF Spec

(* Whatever deadzones, saturations and ranges a game sets, in any order: a *)
(* stick pushed all the way reads as the end of the range, one that is let *)
(* go as its middle, unless the saturation is zero.                        *)
THEOREM EndsAndCentre == Spec => []FullDeflection
  <1>1. SettingsTyped => FullDeflection
    BY ReadingAtEnds DEF SettingsTyped, AxisSettings, FullDeflection
  <1>2. QED
    BY <1>1, SettingsStayTyped, PTL

(* ... and a stick that is pushed further never reads as less far.         *)
THEOREM Monotone == Spec => []NeverBackwards
  <1>1. SettingsTyped => NeverBackwards
    BY ReadingMonotone DEF SettingsTyped, AxisSettings, NeverBackwards
  <1>2. QED
    BY <1>1, SettingsStayTyped, PTL

-----------------------------------------------------------------------------
(* Tuples, one place after the other.                                      *)
LEMMA FourOf ==
  ASSUME NEW T, NEW a \in T, NEW b \in T, NEW c \in T, NEW d \in T
  PROVE  /\ <<a, b, c, d>> \in Seq(T) /\ Len(<<a, b, c, d>>) = 4
         /\ <<a, b, c, d>>[1] = a /\ <<a, b, c, d>>[2] = b
         /\ <<a, b, c, d>>[3] = c /\ <<a, b, c, d>>[4] = d
  OBVIOUS

LEMMA FourteenButtons == DOMAIN PS4Buttons = 1..14
  BY DEF PS4Buttons

LEMMA OneOf ==
  ASSUME NEW T, NEW a \in T
  PROVE  <<a>> \in Seq(T) /\ Len(<<a>>) = 1 /\ <<a>>[1] = a
  OBVIOUS
LEMMA Mapped ==
  ASSUME NEW T, NEW n \in Nat, NEW f \in [1..n -> T]
  PROVE  f \in Seq(T) /\ Len(f) = n
  OBVIOUS

LEMMA Joined ==
  ASSUME NEW T, NEW s \in Seq(T), NEW t \in Seq(T), NEW u, u = s \o t
  PROVE  /\ u \in Seq(T) /\ Len(u) = Len(s) + Len(t)
         /\ \A i \in 1..Len(s) : u[i] = s[i]
         /\ \A i \in 1..Len(t) : u[i + Len(s)] = t[i]
  BY ConcatProperties

(* The objects, one by one: four axes, fourteen buttons, a hat.            *)
LEMMA ObjectList ==
  /\ Objects = 1..19
  /\ \A i \in 1..4 : Object(i).type = "ABSAXIS"
  /\ Object(1).instance_id = 0 /\ Object(2).instance_id = 1
  /\ Object(3).instance_id = 2 /\ Object(4).instance_id = 5
  /\ \A i \in 5..18 : Object(i).type = "PSHBUTTON" /\ Object(i).instance_id = i - 5
  /\ Object(19).type = "POV" /\ Object(19).instance_id = 0
  <1> DEFINE a == AbsAxis("XAxis", 0, "LeftStickX")
             b == AbsAxis("YAxis", 1, "LeftStickY")
             c == AbsAxis("ZAxis", 2, "RightStickX")
             d == AbsAxis("RzAxis", 5, "RightStickY")
             Button(i) == [type |-> "PSHBUTTON", guid |-> "Button", instance_id |-> i - 1,
                           mapped |-> PS4Buttons[i]]
             hat == [type |-> "POV", guid |-> "POV", instance_id |-> 0, mapped |-> "DPad"]
             T == {a, b, c, d, hat} \cup {Button(i) : i \in 1..14}
             A == <<a, b, c, d>>
             B == [i \in 1..14 |-> Button(i)]
             C == <<hat>>
  <1>1. /\ a.type = "ABSAXIS" /\ b.type = "ABSAXIS" /\ c.type = "ABSAXIS" /\ d.type = "ABSAXIS"
        /\ a.instance_id = 0 /\ b.instance_id = 1 /\ c.instance_id = 2 /\ d.instance_id = 5
        /\ hat.type = "POV" /\ hat.instance_id = 0
    BY DEF AbsAxis
  <1>2. \A i \in 1..14 : Button(i).type = "PSHBUTTON" /\ Button(i).instance_id = i - 1
    OBVIOUS
  <1>3. GeneratePS4EmulatedDeviceObjects = (A \o B) \o C
    BY FourteenButtons DEF GeneratePS4EmulatedDeviceObjects
  <1> HIDE DEF a, b, c, d, hat, Button
  <1>4. B \in [1..14 -> T]
    OBVIOUS
  <1>5. a \in T /\ b \in T /\ c \in T /\ d \in T /\ hat \in T
    OBVIOUS
  <1>6. \A i \in 1..14 : B[i] = Button(i)
    OBVIOUS
  <1> HIDE DEF T, B
  <1>7. A \in Seq(T) /\ Len(A) = 4 /\ A[1] = a /\ A[2] = b /\ A[3] = c /\ A[4] = d
    BY <1>5, FourOf
  <1>8. B \in Seq(T) /\ Len(B) = 14
    BY <1>4, Mapped
  <1>9. C \in Seq(T) /\ Len(C) = 1 /\ C[1] = hat
    BY <1>5, OneOf
  <1> DEFINE AB == A \o B
             L == AB \o C
  <1>21. AB = A \o B
    OBVIOUS
  <1> HIDE DEF A, C, AB
  <1>22. L = AB \o C
    OBVIOUS
  <1> HIDE DEF L
  <1>10. /\ AB \in Seq(T) /\ Len(AB) = 18
         /\ \A i \in 1..4 : AB[i] = A[i]
         /\ \A i \in 1..14 : AB[i + 4] = B[i]
    <2>1. /\ AB \in Seq(T) /\ Len(AB) = Len(A) + Len(B)
          /\ \A i \in 1..Len(A) : AB[i] = A[i]
          /\ \A i \in 1..Len(B) : AB[i + Len(A)] = B[i]
      <3>1. A \in Seq(T) /\ B \in Seq(T)
        BY <1>7, <1>8
      <3>2. QED
        BY <3>1, <1>21, Joined
    <2>2. QED
      BY <1>7, <1>8, <2>1
  <1>11. /\ L \in Seq(T) /\ Len(L) = 19
         /\ \A i \in 1..18 : L[i] = AB[i]
         /\ \A i \in 1..1 : L[i + 18] = C[i]
    <2>1. /\ L \in Seq(T) /\ Len(L) = Len(AB) + Len(C)
          /\ \A i \in 1..Len(AB) : L[i] = AB[i]
          /\ \A i \in 1..Len(C) : L[i + Len(AB)] = C[i]
      <3>1. AB \in Seq(T) /\ C \in Seq(T)
        BY <1>9, <1>10
      <3>2. QED
        BY <3>1, <1>22, Joined
    <2>2. QED
      BY <1>9, <1>10, <2>1
  <1>12. GeneratePS4EmulatedDeviceObjects = L
    BY <1>3 DEF AB, L
  <1>13. Objects = 1..19 /\ \A i \in 1..19 : Object(i) = L[i]
    BY <1>11, <1>12, LenProperties DEF Objects, Object
  <1>14. Object(1) = a /\ Object(2) = b /\ Object(3) = c /\ Object(4) = d /\ Object(19) = hat
    <2>1. Object(19) = L[1 + 18] /\ L[1 + 18] = C[1]
      BY <1>11, <1>13
    <2>2. QED
      BY <1>7, <1>9, <1>10, <1>11, <1>13, <2>1
  <1>20. \A i \in 5..18 : Object(i) = Button(i - 4)
    <2>1. TAKE i \in 5..18
    <2>2. i - 4 \in 1..14 /\ (i - 4) + 4 = i /\ i \in 1..18 /\ i \in 1..19
      OBVIOUS
    <2>3. Object(i) = AB[i] /\ AB[(i - 4) + 4] = B[i - 4]
      BY <1>10, <1>11, <1>13, <2>2
    <2>4. QED
      BY <1>6, <2>2, <2>3
  <1>15. \A i \in 1..4 : i = 1 \/ i = 2 \/ i = 3 \/ i = 4
    OBVIOUS
  <1>16. \A i \in 5..18 : i - 4 \in 1..14 /\ (i - 4) - 1 = i - 5
    OBVIOUS
  <1>17. \A i \in 5..18 : Object(i).type = "PSHBUTTON" /\ Object(i).instance_id = i - 5
    BY <1>2, <1>20, <1>16
  <1>18. \A i \in 1..4 : Object(i).type = "ABSAXIS"
    BY <1>1, <1>14, <1>15
  <1>19. QED
    BY <1>1, <1>13, <1>14, <1>17, <1>18

-----------------------------------------------------------------------------
(* A set of naturals that is not empty has a least element.                *)
LEMMA LeastElement ==
  ASSUME NEW T \in SUBSET Nat, T # {}
  PROVE  \E x \in T : \A y \in T : x <= y
  <1>1. PICK x \in T : \A y \in T : ~ (<<y, x>> \in OpToRel(<, Nat))
    BY NatLessThanWellFounded, WFMin
  <1>2. ASSUME NEW y \in T PROVE x <= y
    <2>1. x \in Nat /\ y \in Nat
      OBVIOUS
    <2>2. ~ (y < x)
      BY <1>1, <2>1 DEF OpToRel
    <2>3. QED
      BY <2>1, <2>2
  <1>3. QED
    BY <1>2

(* The loop does one turn after the other.                                 *)
LEMMA TurnByTurn ==
  ASSUME NEW start, NEW objs, NEW n \in Nat, Len(objs) = n
  PROVE  /\ Turns(start, objs)[0] = start
         /\ \A k \in 1..n :
              Turns(start, objs)[k] = MatchEntry(Turns(start, objs)[k - 1], objs[k])
  <1> DEFINE After(f, k) == IF k = 0 THEN start ELSE MatchEntry(f[k - 1], objs[k])
             Upto(f, m) == f = [k \in 0..m |-> After(f, k)]
             Bad == {m \in Nat : ~\E f : Upto(f, m)}
  <1>1. ASSUME NEW m \in Nat, NEW f, Upto(f, m)
        PROVE  \E g : Upto(g, m + 1)
    <2> DEFINE last == MatchEntry(f[m], objs[m + 1])
               g == [k \in 0..(m + 1) |-> IF k = m + 1 THEN last ELSE f[k]]
    <2>1. ASSUME NEW k \in 0..(m + 1) PROVE g[k] = After(g, k)
      <3>1. CASE k = m + 1
        <4>1. m \in 0..(m + 1) /\ m # m + 1 /\ k # 0 /\ k - 1 = m
          BY <3>1
        <4>2. g[m] = f[m] /\ g[k] = last
          BY <3>1, <4>1
        <4> HIDE DEF g
        <4>3. QED
          BY <3>1, <4>1, <4>2
      <3>2. CASE k = 0
        <4>1. 0 \in 0..m /\ f[0] = After(f, 0)
          BY <1>1
        <4>2. QED
          BY <3>2, <4>1
      <3>3. CASE k # 0 /\ k # m + 1
        <4>1. k \in 0..m /\ k - 1 \in 0..(m + 1) /\ k - 1 # m + 1
          BY <3>3
        <4>2. f[k] = After(f, k)
          BY <1>1, <4>1
        <4>3. g[k] = f[k] /\ g[k - 1] = f[k - 1]
          BY <3>3, <4>1
        <4> HIDE DEF g
        <4>4. QED
          BY <3>3, <4>2, <4>3
      <3>4. QED
        BY <3>1, <3>2, <3>3
    <2>2. g = [k \in 0..(m + 1) |-> g[k]]
      OBVIOUS
    <2> HIDE DEF g, After
    <2>3. Upto(g, m + 1)
      BY <2>1, <2>2
    <2>4. QED
      BY <2>3
  <1>2. Bad = {}
    <2> SUFFICES ASSUME Bad # {} PROVE FALSE
      OBVIOUS
    <2>1. PICK m \in Bad : \A i \in Bad : m <= i
      BY LeastElement
    <2>2. \E f : Upto(f, 0)
      <3> DEFINE f == [k \in 0..0 |-> start]
      <3>1. f = [k \in 0..0 |-> After(f, k)]
        OBVIOUS
      <3>2. QED
        BY <3>1
    <2> HIDE DEF Upto
    <2>3. m \in Nat /\ m # 0
      BY <2>1, <2>2
    <2>4. m - 1 \in Nat /\ (m - 1) + 1 = m /\ ~(m <= m - 1)
      BY <2>3
    <2>5. m - 1 \notin Bad
      BY <2>1, <2>4
    <2>6. \E f : Upto(f, m - 1)
      BY <2>4, <2>5
    <2>7. \E g : Upto(g, m)
      BY <1>1, <2>4, <2>6
    <2>8. QED
      BY <2>1, <2>7
  <1>3. Upto(Turns(start, objs), n)
    <2>1. \E f : Upto(f, n)
      BY <1>2
    <2>2. Turns(start, objs) = CHOOSE f : Upto(f, n)
      BY DEF Turns
    <2> HIDE DEF Upto
    <2>3. QED
      BY <2>1, <2>2
  <1>4. \A k \in 0..n : Turns(start, objs)[k] = After(Turns(start, objs), k)
    <2> DEFINE t == Turns(start, objs)
    <2>1. t = [k \in 0..n |-> After(t, k)]
      BY <1>3
    <2> HIDE DEF t, After
    <2>2. \A k \in 0..n : t[k] = After(t, k)
      BY <2>1
    <2>3. QED
      BY <2>2 DEF t
  <1>5. QED
    BY <1>4

-----------------------------------------------------------------------------
(* What a turn of the loop works on, and what its start left alone.        *)
Written == [object : Objects, offset : Nat]

Work == [matched : SUBSET Objects, formats : Seq(Written), defaults : SUBSET Nat,
         failed : BOOLEAN]

(* An entry is served: an object that fits it is read where it says, or    *)
(* there is no such object left, and a hat gets a default.                 *)
Served(work, entry) ==
  \/ \E i \in DOMAIN work.formats :
       work.formats[i].offset = entry.offset /\ Fits(work.formats[i].object, entry)
  \/ /\ \A o \in Objects : Fits(o, entry) => o \in work.matched
     /\ entry.guid = "POV" => entry.offset \in work.defaults

(* Each object is written once.                                            *)
Counted(work) == Len(work.formats) = Cardinality(work.matched)

(* Later work keeps what earlier work did.                                 *)
Keeps(start, work) ==
  /\ start.matched \subseteq work.matched
  /\ start.defaults \subseteq work.defaults
  /\ Len(start.formats) <= Len(work.formats)
  /\ \A i \in 1..Len(start.formats) : work.formats[i] = start.formats[i]

(* What is new in it comes from the first k entries.                       *)
FromEntries(start, work, objs, k) ==
  /\ \A i \in (Len(start.formats) + 1)..Len(work.formats) :
       \E j \in 1..k : /\ work.formats[i].offset = objs[j].offset
                       /\ Fits(work.formats[i].object, objs[j])
  /\ \A offset \in work.defaults \ start.defaults :
       \E j \in 1..k : objs[j].offset = offset /\ objs[j].guid = "POV"

(* No two objects, and no object and a default, are written to one place.  *)
Apart(work) ==
  /\ \A i, j \in DOMAIN work.formats :
       work.formats[i].offset = work.formats[j].offset => i = j
  /\ \A i \in DOMAIN work.formats : work.formats[i].offset \notin work.defaults

LEMMA FinitelyManyObjects ==
  /\ IsFiniteSet(Objects) /\ Objects \subseteq Nat
  /\ \A S \in SUBSET Objects : IsFiniteSet(S) /\ Cardinality(S) \in Nat
                               /\ Cardinality(S) <= Cardinality(Objects)
  <1>1. IsFiniteSet(Objects) /\ Objects \subseteq Nat
    <2>1. \A n \in Int : \A S : S = 1..n => IsFiniteSet(S)
      BY FS_Interval
    <2>2. Objects = 1..19 /\ 19 \in Int
      BY ObjectList
    <2>3. IsFiniteSet(Objects)
      BY <2>1, <2>2, Zenon
    <2>4. QED
      BY <2>2, <2>3
  <1>2. QED
    BY <1>1, FS_Subset, FS_CardinalityType

(* The first object of those that are free is one of them.                 *)
LEMMA Smallest ==
  ASSUME NEW S, S \subseteq Nat, S # {}
  PROVE  Min(S) \in S
  BY LeastElement DEF Min

LEMMA TwoReplaced ==
  ASSUME NEW w \in Work, NEW m, NEW f
  PROVE  [w EXCEPT !.matched = m, !.formats = f] =
           [matched |-> m, formats |-> f, defaults |-> w.defaults, failed |-> w.failed]
  <1> DEFINE r == [w EXCEPT !.matched = m]
             q == [r EXCEPT !.formats = f]
  <1>1. r = [matched |-> m, formats |-> w.formats, defaults |-> w.defaults,
             failed |-> w.failed]
    BY DEF Work
  <1>2. [w EXCEPT !.matched = m, !.formats = f] = q
    OBVIOUS
  <1> HIDE DEF r
  <1>3. q = [matched |-> m, formats |-> f, defaults |-> w.defaults, failed |-> w.failed]
    BY <1>1
  <1> HIDE DEF q
  <1>4. QED
    BY <1>2, <1>3

(* What consuming an object changes.                                       *)
LEMMA Consumed ==
  ASSUME NEW work \in Work, NEW o \in Objects \ work.matched, NEW entry,
         entry.offset \in Nat, Counted(work)
  PROVE  LET new == Consume(work, o, entry)
         IN  /\ new \in Work /\ Counted(new)
             /\ new.matched = work.matched \cup {o}
             /\ new.defaults = work.defaults /\ new.failed = work.failed
             /\ Len(new.formats) = Len(work.formats) + 1
             /\ \A i \in 1..Len(work.formats) : new.formats[i] = work.formats[i]
             /\ new.formats[Len(work.formats) + 1] = [object |-> o, offset |-> entry.offset]
  <1> DEFINE new == Consume(work, o, entry)
             fmt == [object |-> o, offset |-> entry.offset]
  <1>1. new = [matched |-> work.matched \cup {o}, formats |-> Append(work.formats, fmt),
               defaults |-> work.defaults, failed |-> work.failed]
    <2> DEFINE m == work.matched \cup {o}
               f == Append(work.formats, fmt)
    <2>1. new = [work EXCEPT !.matched = m, !.formats = f]
      BY Zenon DEF Consume
    <2> HIDE DEF m, f
    <2>2. [work EXCEPT !.matched = m, !.formats = f] =
            [matched |-> m, formats |-> f, defaults |-> work.defaults, failed |-> work.failed]
      BY TwoReplaced, Zenon
    <2>3. QED
      BY <2>1, <2>2 DEF m, f
  <1>2. fmt \in Written
    BY DEF Written
  <1>3. work.formats \in Seq(Written) /\ work.matched \in SUBSET Objects
        /\ work.defaults \in SUBSET Nat /\ work.failed \in BOOLEAN
    BY DEF Work
  <1> HIDE DEF new, fmt
  <1>4. /\ Append(work.formats, fmt) \in Seq(Written)
        /\ Len(Append(work.formats, fmt)) = Len(work.formats) + 1
        /\ \A i \in 1..Len(work.formats) : Append(work.formats, fmt)[i] = work.formats[i]
        /\ Append(work.formats, fmt)[Len(work.formats) + 1] = fmt
    BY <1>2, <1>3, AppendProperties
  <1>5. Cardinality(work.matched \cup {o}) = Cardinality(work.matched) + 1
    BY <1>3, FS_AddElement, FinitelyManyObjects
  <1>6. new \in Work
    BY <1>1, <1>3, <1>4 DEF Work
  <1>7. Counted(new)
    BY <1>1, <1>4, <1>5 DEF Counted
  <1>8. QED
    BY <1>1, <1>4, <1>6, <1>7 DEF new, fmt

(* The entries of a layout have places of their own.                       *)
Entries(objs, n) ==
  /\ Len(objs) = n /\ DOMAIN objs = 1..n
  /\ \A j \in 1..n : objs[j].offset \in Nat
  /\ \A i, j \in 1..n : objs[i].offset = objs[j].offset => i = j

(* What holds after k turns.                                               *)
TurnInv(start, work, objs, k) ==
  /\ work \in Work /\ Counted(work)
  /\ Keeps(start, work)
  /\ FromEntries(start, work, objs, k)
  /\ ~work.failed => \A j \in 1..k : Served(work, objs[j])
  /\ start.formats = <<>> /\ start.defaults = {} => Apart(work)

LEMMA WorkTyped ==
  ASSUME NEW work \in Work
  PROVE  /\ work.matched \in SUBSET Objects /\ work.formats \in Seq(Written)
         /\ work.defaults \in SUBSET Nat /\ work.failed \in BOOLEAN
         /\ Len(work.formats) \in Nat /\ DOMAIN work.formats = 1..Len(work.formats)
         /\ \A i \in 1..Len(work.formats) : work.formats[i] \in Written
  <1>1. /\ work.matched \in SUBSET Objects /\ work.formats \in Seq(Written)
        /\ work.defaults \in SUBSET Nat /\ work.failed \in BOOLEAN
    BY DEF Work
  <1>2. QED
    BY <1>1, LenProperties, ElementOfSeq

(* What was served stays served.                                           *)
LEMMA ServedStays ==
  ASSUME NEW work \in Work, NEW new \in Work, Keeps(work, new), NEW entry,
         Served(work, entry)
  PROVE  Served(new, entry)
  <1>1. /\ DOMAIN work.formats = 1..Len(work.formats) /\ Len(work.formats) \in Nat
        /\ DOMAIN new.formats = 1..Len(new.formats) /\ Len(new.formats) \in Nat
    BY WorkTyped
  <1>2. QED
    BY <1>1 DEF Served, Keeps

(* Keeping is transitive.                                                  *)
LEMMA KeepsOn ==
  ASSUME NEW start \in Work, NEW work \in Work, NEW new \in Work,
         Keeps(start, work), Keeps(work, new)
  PROVE  Keeps(start, new)
  BY WorkTyped DEF Keeps

LEMMA MoreEntries ==
  ASSUME NEW start, NEW work, NEW objs, NEW k \in Nat, k > 0,
         FromEntries(start, work, objs, k - 1)
  PROVE  FromEntries(start, work, objs, k)
  <1>1. \A j \in 1..(k - 1) : j \in 1..k
    OBVIOUS
  <1>2. QED
    BY <1>1 DEF FromEntries

(* A turn that writes no object and adds at most the entry's default.      *)
LEMMA NothingConsumed ==
  ASSUME NEW start \in Work, NEW work \in Work, NEW objs, NEW n \in Nat, Entries(objs, n),
         NEW k \in 1..n, TurnInv(start, work, objs, k - 1),
         NEW new \in Work, new.matched = work.matched, new.formats = work.formats,
         \/ new.defaults = work.defaults
         \/ objs[k].guid = "POV" /\ new.defaults = work.defaults \cup {objs[k].offset},
         ~new.failed => ~work.failed /\ Served(new, objs[k])
  PROVE  TurnInv(start, new, objs, k)
  <1>1. FromEntries(start, work, objs, k) /\ Keeps(start, work) /\ Counted(work)
    BY MoreEntries DEF TurnInv
  <1>2. Keeps(work, new)
    BY WorkTyped DEF Keeps
  <1>3. Keeps(start, new) /\ Counted(new)
    BY <1>1, <1>2, KeepsOn DEF Counted
  <1>4. FromEntries(start, new, objs, k)
    <2>1. k \in 1..k
      OBVIOUS
    <2>2. QED
      BY <1>1, <2>1 DEF FromEntries
  <1>5. ASSUME ~new.failed PROVE \A j \in 1..k : Served(new, objs[j])
    <2>1. \A j \in 1..(k - 1) : Served(new, objs[j])
      BY <1>2, <1>5, ServedStays DEF TurnInv
    <2>2. \A j \in 1..k : j \in 1..(k - 1) \/ j = k
      OBVIOUS
    <2>3. QED
      BY <1>5, <2>1, <2>2
  <1>6. ASSUME start.formats = <<>>, start.defaults = {} PROVE Apart(new)
    <2>1. Apart(work)
      BY <1>6 DEF TurnInv
    <2>2. ASSUME NEW i \in DOMAIN work.formats
          PROVE  work.formats[i].offset # objs[k].offset
      <3>1. i \in (Len(start.formats) + 1)..Len(work.formats)
        BY <1>6, WorkTyped
      <3>2. PICK j \in 1..(k - 1) : work.formats[i].offset = objs[j].offset
        BY <3>1 DEF TurnInv, FromEntries
      <3>3. j \in 1..n /\ j # k
        BY <3>2
      <3>4. QED
        BY <3>2, <3>3 DEF Entries
    <2>3. QED
      BY <2>1, <2>2 DEF Apart
  <1>7. QED
    BY <1>1, <1>3, <1>4, <1>5, <1>6 DEF TurnInv

(* A turn that writes an object.                                           *)
LEMMA ObjectConsumed ==
  ASSUME NEW start \in Work, NEW work \in Work, NEW objs, NEW n \in Nat, Entries(objs, n),
         NEW k \in 1..n, TurnInv(start, work, objs, k - 1), ~work.failed,
         NEW o \in Objects \ work.matched, Fits(o, objs[k])
  PROVE  TurnInv(start, Consume(work, o, objs[k]), objs, k)
  <1> DEFINE new == Consume(work, o, objs[k])
             last == Len(work.formats) + 1
  <1>1. /\ new \in Work /\ Counted(new)
        /\ new.matched = work.matched \cup {o}
        /\ new.defaults = work.defaults /\ new.failed = work.failed
        /\ Len(new.formats) = last
        /\ \A i \in 1..Len(work.formats) : new.formats[i] = work.formats[i]
        /\ new.formats[last] = [object |-> o, offset |-> objs[k].offset]
    BY Consumed DEF TurnInv, Entries
  <1> HIDE DEF new
  <1>2. Len(work.formats) \in Nat /\ Len(start.formats) \in Nat
        /\ DOMAIN work.formats = 1..Len(work.formats)
        /\ DOMAIN new.formats = 1..last
    BY <1>1, WorkTyped
  <1>3. Keeps(work, new)
    BY <1>1, <1>2 DEF Keeps
  <1>4. Keeps(start, new)
    BY <1>1, <1>3, KeepsOn DEF TurnInv
  <1>5. new.formats[last].object = o /\ new.formats[last].offset = objs[k].offset
    BY <1>1
  <1>6. FromEntries(start, new, objs, k)
    <2>1. FromEntries(start, work, objs, k)
      BY MoreEntries DEF TurnInv
    <2>2. ASSUME NEW i \in (Len(start.formats) + 1)..last
          PROVE  \E j \in 1..k : /\ new.formats[i].offset = objs[j].offset
                                 /\ Fits(new.formats[i].object, objs[j])
      <3>1. CASE i = last
        <4>1. k \in 1..k
          OBVIOUS
        <4>2. QED
          BY <1>5, <3>1, <4>1
      <3>2. CASE i # last
        <4>1. i \in (Len(start.formats) + 1)..Len(work.formats) /\ i \in 1..Len(work.formats)
          BY <1>2, <3>2
        <4>2. QED
          BY <1>1, <2>1, <4>1 DEF FromEntries
      <3>3. QED
        BY <3>1, <3>2
    <2>3. QED
      BY <1>1, <2>1, <2>2 DEF FromEntries
  <1>7. \A j \in 1..k : Served(new, objs[j])
    <2>1. \A j \in 1..(k - 1) : Served(new, objs[j])
      BY <1>1, <1>3, ServedStays DEF TurnInv
    <2>2. last \in DOMAIN new.formats
      BY <1>2
    <2>3. Served(new, objs[k])
      BY <1>5, <2>2 DEF Served
    <2>4. \A j \in 1..k : j \in 1..(k - 1) \/ j = k
      OBVIOUS
    <2>5. QED
      BY <2>1, <2>3, <2>4
  <1>8. ASSUME start.formats = <<>>, start.defaults = {} PROVE Apart(new)
    <2>1. Apart(work)
      BY <1>8 DEF TurnInv
    <2>2. ASSUME NEW i \in 1..Len(work.formats)
          PROVE  /\ new.formats[i].offset = work.formats[i].offset
                 /\ new.formats[i].offset # objs[k].offset
                 /\ new.formats[i].offset \notin new.defaults
      <3>1. i \in (Len(start.formats) + 1)..Len(work.formats)
        BY <1>2, <1>8
      <3>2. PICK j \in 1..(k - 1) : work.formats[i].offset = objs[j].offset
        BY <3>1 DEF TurnInv, FromEntries
      <3>3. j \in 1..n /\ j # k
        BY <3>2
      <3>4. work.formats[i].offset # objs[k].offset
        BY <3>2, <3>3 DEF Entries
      <3>5. QED
        BY <1>1, <1>2, <2>1, <3>4 DEF Apart
    <2>3. objs[k].offset \notin new.defaults
      <3> SUFFICES ASSUME objs[k].offset \in work.defaults PROVE FALSE
        BY <1>1
      <3>1. PICK j \in 1..(k - 1) : objs[j].offset = objs[k].offset
        BY <1>8 DEF TurnInv, FromEntries
      <3>2. j \in 1..n /\ j # k
        BY <3>1
      <3>3. QED
        BY <3>1, <3>2 DEF Entries
    <2>4. \A i \in 1..last : i \in 1..Len(work.formats) \/ i = last
      BY <1>2
    <2>5. \A i \in 1..last : new.formats[i].offset \notin new.defaults
      BY <1>5, <2>2, <2>3, <2>4
    <2>6. \A i, j \in 1..last : new.formats[i].offset = new.formats[j].offset => i = j
      <3>1. \A i, j \in 1..Len(work.formats) :
              new.formats[i].offset = new.formats[j].offset => i = j
        BY <1>2, <2>1, <2>2 DEF Apart
      <3>2. QED
        BY <1>5, <2>2, <2>4, <3>1
    <2>7. QED
      BY <1>2, <2>5, <2>6 DEF Apart
  <1>9. QED
    BY <1>1, <1>4, <1>6, <1>7, <1>8 DEF TurnInv, new

(* One turn.                                                               *)
LEMMA OneTurn ==
  ASSUME NEW start \in Work, NEW work, NEW objs, NEW n \in Nat, Entries(objs, n),
         NEW k \in 1..n, TurnInv(start, work, objs, k - 1)
  PROVE  TurnInv(start, MatchEntry(work, objs[k]), objs, k)
  <1> DEFINE entry == objs[k]
             free == {i \in Objects \ work.matched : Fits(i, entry)}
  <1>1. work \in Work /\ entry.offset \in Nat
    BY DEF TurnInv, Entries
  <1>2. CASE work.failed
    <2>1. MatchEntry(work, entry) = work
      BY <1>2 DEF MatchEntry
    <2>2. TurnInv(start, work, objs, k)
      BY <1>1, <1>2, NothingConsumed
    <2>3. QED
      BY <2>1, <2>2
  <1>3. CASE ~work.failed /\ free # {}
    <2>1. Min(free) \in free
      BY <1>3, Smallest, FinitelyManyObjects
    <2>2. MatchEntry(work, entry) = Consume(work, Min(free), entry)
      BY <1>3 DEF MatchEntry
    <2>3. TurnInv(start, Consume(work, Min(free), entry), objs, k)
      BY <1>1, <1>3, <2>1, ObjectConsumed
    <2>4. QED
      BY <2>2, <2>3
  <1>4. CASE ~work.failed /\ free = {}
    <2> DEFINE new == NotFound(work, entry)
    <2>1. MatchEntry(work, entry) = new
      BY <1>4 DEF MatchEntry
    <2>2. \A o \in Objects : Fits(o, entry) => o \in work.matched
      BY <1>4
    <2>3. CASE ~entry.type.optional
      <3>1. new = [work EXCEPT !.failed = TRUE]
        BY <2>3 DEF NotFound
      <3>2. /\ new \in Work /\ new.matched = work.matched /\ new.formats = work.formats
            /\ new.defaults = work.defaults /\ new.failed
        BY <1>1, <3>1 DEF Work
      <3> HIDE DEF new
      <3>3. TurnInv(start, new, objs, k)
        BY <1>1, <3>2, NothingConsumed
      <3>4. QED
        BY <2>1, <3>3
    <2>4. CASE entry.type.optional /\ entry.guid = "POV"
      <3> DEFINE defaults == work.defaults \cup {entry.offset}
      <3>1. new = [work EXCEPT !.defaults = defaults]
        BY <2>4 DEF NotFound
      <3>2. defaults \in SUBSET Nat
        BY <1>1, WorkTyped
      <3>3. /\ new \in Work /\ new.matched = work.matched /\ new.formats = work.formats
            /\ new.defaults = defaults /\ new.failed = work.failed
        <4> HIDE DEF defaults, new
        <4>1. QED
          BY <1>1, <3>1, <3>2 DEF Work
      <3> HIDE DEF new
      <3>4. Served(new, entry)
        BY <2>2, <3>3 DEF Served
      <3>5. TurnInv(start, new, objs, k)
        BY <1>1, <1>4, <2>4, <3>3, <3>4, NothingConsumed
      <3>6. QED
        BY <2>1, <3>5
    <2>5. CASE entry.type.optional /\ entry.guid # "POV"
      <3>1. new = work
        BY <2>5 DEF NotFound
      <3>2. Served(work, entry)
        BY <2>2, <2>5 DEF Served
      <3>3. TurnInv(start, work, objs, k)
        BY <1>1, <1>4, <3>2, NothingConsumed
      <3>4. QED
        BY <2>1, <3>1, <3>3
    <2>6. QED
      BY <2>3, <2>4, <2>5
  <1>5. QED
    BY <1>2, <1>3, <1>4

(* All of them.                                                            *)
LEMMA AllTurns ==
  ASSUME NEW start \in Work, Counted(start), ~start.failed,
         NEW objs, NEW n \in Nat, Entries(objs, n)
  PROVE  TurnInv(start, Turns(start, objs)[n], objs, n)
  <1> DEFINE t == Turns(start, objs)
             Holds(k) == TurnInv(start, t[k], objs, k)
             Bad == {k \in 0..n : ~Holds(k)}
  <1>1. t[0] = start /\ \A k \in 1..n : t[k] = MatchEntry(t[k - 1], objs[k])
    BY TurnByTurn DEF Entries
  <1> HIDE DEF t
  <1>2. Holds(0)
    <2>1. TurnInv(start, start, objs, 0)
      <3>1. Keeps(start, start) /\ FromEntries(start, start, objs, 0)
        BY WorkTyped DEF Keeps, FromEntries
      <3>2. ASSUME start.formats = <<>>, start.defaults = {} PROVE Apart(start)
        BY <3>2 DEF Apart
      <3>3. QED
        BY <3>1, <3>2 DEF TurnInv
    <2>2. QED
      BY <1>1, <2>1
  <1>3. ASSUME NEW k \in 1..n, Holds(k - 1) PROVE Holds(k)
    BY <1>1, <1>3, OneTurn
  <1> HIDE DEF Holds
  <1>4. Bad = {}
    <2> SUFFICES ASSUME Bad # {} PROVE FALSE
      OBVIOUS
    <2>1. Bad \in SUBSET Nat
      OBVIOUS
    <2>2. PICK k \in Bad : \A i \in Bad : k <= i
      BY <2>1, LeastElement
    <2>3. k \in 1..n /\ k - 1 \in 0..n /\ ~(k <= k - 1)
      BY <1>2, <2>2
    <2>4. Holds(k - 1)
      BY <2>2, <2>3
    <2>5. QED
      BY <1>3, <2>2, <2>3, <2>4
  <1>5. n \in 0..n
    OBVIOUS
  <1>6. QED
    BY <1>4, <1>5 DEF Holds, t

-----------------------------------------------------------------------------
(* The layout as SetDataFormat finds it.                                   *)
Layout == [matched |-> matched, formats |-> device_formats_,
           defaults |-> device_format_defaults_, failed |-> FALSE]

LayoutTyped ==
  /\ Layout \in Work /\ Counted(Layout)
  /\ format \in Formats \cup {None} /\ largest \in Nat /\ sets \in Nat

(* What is written is within the largest layout the game ever passed.      *)
WithinLargest ==
  /\ \A k \in DOMAIN device_formats_ : Applicable(device_formats_[k], largest)
  /\ \A offset \in device_format_defaults_ : offset + 4 <= largest

(* The layout accepted last is served, whatever others came since.         *)
FormatServed ==
  format # None =>
    /\ format.size <= largest
    /\ \A j \in DOMAIN format.objs : Served(Layout, format.objs[j])

(* One call of SetDataFormat alone writes nothing twice.                   *)
FirstApart ==
  /\ sets = 0 => device_formats_ = <<>> /\ device_format_defaults_ = {}
  /\ sets <= 1 => Apart(Layout)

LayoutInv == LayoutTyped /\ WithinLargest /\ FormatServed /\ FirstApart

LEMMA Larger ==
  ASSUME NEW a \in Nat, NEW b \in Nat
  PROVE  Max({a, b}) \in Nat /\ a <= Max({a, b}) /\ b <= Max({a, b})
  <1>1. \E x \in {a, b} : \A y \in {a, b} : x >= y
    OBVIOUS
  <1>2. QED
    BY <1>1 DEF Max

LEMMA LayoutFields ==
  /\ Layout.matched = matched /\ Layout.formats = device_formats_
  /\ Layout.defaults = device_format_defaults_ /\ Layout.failed = FALSE
  BY DEF Layout

(* A buffer that is larger is large enough.                                *)
LEMMA ApplicableOn ==
  ASSUME NEW fmt \in Written, NEW a \in Nat, NEW b \in Nat, a <= b, Applicable(fmt, a)
  PROVE  Applicable(fmt, b)
  <1>1. fmt.offset \in Nat
    BY DEF Written
  <1>2. QED
    BY <1>1 DEF Applicable

(* An entry within the buffer gets an object that is.                      *)
LEMMA PlacedFits ==
  ASSUME NEW entry, entry.offset \in Nat, NEW size \in Nat, Placed(entry, size)
  PROVE  /\ \A fmt \in Written :
              fmt.offset = entry.offset /\ Fits(fmt.object, entry) => Applicable(fmt, size)
         /\ entry.guid = "POV" => entry.offset + 4 <= size
  <1>1. CASE Width(entry) = 1
    <2>1. entry.guid # "POV"
      BY <1>1 DEF Width
    <2>2. \A i \in Objects : Fits(i, entry) => Object(i).type = "PSHBUTTON"
      BY <1>1 DEF Width
    <2>3. entry.offset + 1 <= size
      BY <1>1 DEF Placed
    <2>4. ASSUME NEW fmt \in Written, fmt.offset = entry.offset, Fits(fmt.object, entry)
          PROVE  Applicable(fmt, size)
      <3>1. fmt.object \in Objects
        BY DEF Written
      <3>2. Object(fmt.object).type = "PSHBUTTON"
        BY <2>2, <2>4, <3>1
      <3>3. QED
        BY <2>3, <2>4, <3>2 DEF Applicable
    <2>5. QED
      BY <2>1, <2>4
  <1>2. CASE Width(entry) = 4
    BY <1>2 DEF Placed, Applicable
  <1>3. Width(entry) \in {1, 4}
    BY DEF Width
  <1>4. QED
    BY <1>1, <1>2, <1>3

(* What the assumption says of a layout of the game.                       *)
LEMMA FormatTyped ==
  ASSUME NEW f \in Formats
  PROVE  /\ f.size \in Nat /\ Len(f.objs) \in Nat /\ Entries(f.objs, Len(f.objs))
         /\ \A j \in 1..Len(f.objs) :
              f.objs[j].offset \in Nat /\ Placed(f.objs[j], f.size)
  <1>1. LaidOut(f)
    BY DirectInputDeviceAssumption
  <1>2. ASSUME NEW i \in DOMAIN f.objs, NEW j \in DOMAIN f.objs, i # j
        PROVE  f.objs[i].offset # f.objs[j].offset
    <2>1. Separate(f.objs[i], f.objs[j])
      BY <1>1, <1>2 DEF LaidOut
    <2>2. f.objs[i].offset \in Nat /\ f.objs[j].offset \in Nat
      BY <1>1 DEF LaidOut
    <2>3. Width(f.objs[i]) \in {1, 4} /\ Width(f.objs[j]) \in {1, 4}
      BY DEF Width
    <2>4. QED
      BY <2>1, <2>2, <2>3 DEF Separate
  <1>3. QED
    BY <1>1, <1>2 DEF LaidOut, Entries

(* A call that changes the settings, the inputs or the answer alone.       *)
LEMMA LayoutKept ==
  ASSUME LayoutInv, UNCHANGED layout
  PROVE  LayoutInv'
  BY DEF LayoutInv, LayoutTyped, WithinLargest, FormatServed, FirstApart, Layout, layout,
         Work, Counted, Served, Apart

LEMMA LayoutChanged ==
  ASSUME LayoutInv, NEW f \in Formats, SetDataFormat(f)
  PROVE  LayoutInv'
  <1> DEFINE n == Len(f.objs)
             done == Turns(Layout, f.objs)[n]
  <1>1. /\ f.size \in Nat /\ n \in Nat /\ Entries(f.objs, n)
        /\ \A j \in 1..n : f.objs[j].offset \in Nat /\ Placed(f.objs[j], f.size)
    BY FormatTyped
  <1>2. /\ largest \in Nat /\ largest' = Max({largest, f.size})
        /\ sets \in Nat /\ sets' = sets + 1
    BY DEF SetDataFormat, LayoutInv, LayoutTyped
  <1>3. largest' \in Nat /\ largest <= largest' /\ f.size <= largest'
    BY <1>1, <1>2, Larger
  <1>4. Layout \in Work /\ Counted(Layout)
    BY DEF LayoutInv, LayoutTyped
  <1>5. \A k \in DOMAIN device_formats_ :
          device_formats_[k] \in Written /\ Applicable(device_formats_[k], largest')
    <2>1. \A k \in DOMAIN device_formats_ : device_formats_[k] \in Written
      BY <1>4, WorkTyped, LayoutFields
    <2>2. QED
      BY <1>2, <1>3, <2>1, ApplicableOn DEF LayoutInv, WithinLargest
  <1>6. \A offset \in device_format_defaults_ : offset \in Nat /\ offset + 4 <= largest'
    <2>1. device_format_defaults_ \in SUBSET Nat
      BY <1>4, WorkTyped, LayoutFields
    <2>2. QED
      BY <1>2, <1>3, <2>1 DEF LayoutInv, WithinLargest
  <1>7. CASE f.objs = <<>>
    <2>1. UNCHANGED <<matched, device_formats_, device_format_defaults_, format>>
      BY <1>7 DEF SetDataFormat
    <2>2. Layout' = Layout
      BY <2>1 DEF Layout
    <2>3. LayoutTyped'
      BY <1>2, <1>3, <2>1, <2>2, <1>4 DEF LayoutInv, LayoutTyped, Work, Counted
    <2>4. WithinLargest'
      BY <1>5, <1>6, <2>1 DEF WithinLargest, Applicable
    <2>5. FormatServed'
      <3>1. format \in Formats /\ format # None => format.size \in Nat
        BY FormatTyped
      <3>2. QED
        BY <1>2, <1>3, <2>1, <2>2, <3>1
           DEF LayoutInv, LayoutTyped, FormatServed, Served
    <2>6. FirstApart'
      BY <1>2, <2>1, <2>2 DEF LayoutInv, FirstApart, Apart
    <2>7. QED
      BY <2>3, <2>4, <2>5, <2>6 DEF LayoutInv
  <1>8. CASE f.objs # <<>>
    <2>1. /\ matched' = done.matched /\ device_formats_' = done.formats
          /\ device_format_defaults_' = done.defaults
          /\ format' = IF done.failed THEN format ELSE f
      BY <1>8 DEF SetDataFormat, Layout
    <2>2. TurnInv(Layout, done, f.objs, n)
      BY <1>1, <1>4, AllTurns, LayoutFields
    <2> HIDE DEF done
    <2>3. done \in Work /\ Counted(done) /\ Keeps(Layout, done)
          /\ FromEntries(Layout, done, f.objs, n)
      BY <2>2 DEF TurnInv
    <2>4. /\ done.matched \in SUBSET Objects /\ done.formats \in Seq(Written)
          /\ done.defaults \in SUBSET Nat /\ Len(done.formats) \in Nat
          /\ DOMAIN done.formats = 1..Len(done.formats)
          /\ \A i \in 1..Len(done.formats) : done.formats[i] \in Written
      BY <2>3, WorkTyped
    <2>5. /\ Layout'.matched = done.matched /\ Layout'.formats = done.formats
          /\ Layout'.defaults = done.defaults
          /\ Layout' \in Work /\ Counted(Layout')
      BY <2>1, <2>3, <2>4 DEF Layout, Work, Counted
    <2>6. LayoutTyped'
      <3>1. format' \in Formats \cup {None}
        BY <2>1 DEF LayoutInv, LayoutTyped
      <3>2. QED
        BY <1>2, <1>3, <2>5, <3>1 DEF LayoutTyped, Work, Counted
    <2>7. WithinLargest'
      <3>1. /\ Len(device_formats_) <= Len(done.formats) /\ Len(device_formats_) \in Nat
            /\ DOMAIN device_formats_ = 1..Len(device_formats_)
            /\ \A i \in 1..Len(device_formats_) : done.formats[i] = device_formats_[i]
        BY <1>4, <2>3, WorkTyped, LayoutFields DEF Keeps
      <3>2. ASSUME NEW k \in 1..Len(done.formats)
            PROVE  Applicable(done.formats[k], largest')
        <4>1. CASE k \in 1..Len(device_formats_)
          BY <1>5, <3>1, <4>1
        <4>2. CASE k \notin 1..Len(device_formats_)
          <5>1. k \in (Len(Layout.formats) + 1)..Len(done.formats)
            BY <2>4, <3>1, <4>2, LayoutFields
          <5>2. PICK j \in 1..n : /\ done.formats[k].offset = f.objs[j].offset
                                  /\ Fits(done.formats[k].object, f.objs[j])
            BY <2>3, <5>1 DEF FromEntries
          <5>3. Applicable(done.formats[k], f.size)
            BY <1>1, <2>4, <5>2, PlacedFits
          <5>4. QED
            BY <1>1, <1>3, <2>4, <5>3, ApplicableOn
        <4>3. QED
          BY <4>1, <4>2
      <3>3. ASSUME NEW offset \in done.defaults PROVE offset + 4 <= largest'
        <4>1. CASE offset \in device_format_defaults_
          BY <1>6, <4>1
        <4>2. CASE offset \notin device_format_defaults_
          <5>1. PICK j \in 1..n : f.objs[j].offset = offset /\ f.objs[j].guid = "POV"
            BY <2>3, <4>2, LayoutFields DEF FromEntries
          <5>2. offset \in Nat /\ offset + 4 <= f.size
            BY <1>1, <5>1, PlacedFits, SMTT(40)
          <5>3. QED
            BY <1>1, <1>3, <5>2
        <4>3. QED
          BY <4>1, <4>2
      <3>4. QED
        BY <2>1, <2>4, <3>2, <3>3 DEF WithinLargest, Applicable
    <2>8. FormatServed'
      <3>1. ASSUME NEW e, Served(done, e) PROVE Served(Layout, e)'
        BY <2>1, <2>5, <3>1 DEF Served, Layout, Fits, MatchesType
      <3>2. CASE done.failed
        <4>1. format' = format
          BY <2>1, <3>2
        <4>2. ASSUME format # None
              PROVE  /\ format.size <= largest'
                     /\ \A j \in DOMAIN format.objs : Served(done, format.objs[j])
          <5>1. format.size \in Nat
            BY <4>2, FormatTyped DEF LayoutInv, LayoutTyped
          <5>2. QED
            BY <1>2, <1>3, <1>4, <2>3, <4>2, <5>1, ServedStays DEF LayoutInv, FormatServed
        <4>3. QED
          BY <3>1, <4>1, <4>2 DEF FormatServed
      <3>3. CASE ~done.failed
        <4>1. format' = f
          BY <2>1, <3>3
        <4>2. \A j \in 1..n : Served(done, f.objs[j])
          BY <2>2, <3>3 DEF TurnInv
        <4>3. DOMAIN f.objs = 1..n
          BY <1>1 DEF Entries
        <4>4. QED
          BY <1>3, <3>1, <4>1, <4>2, <4>3 DEF FormatServed
      <3>4. QED
        BY <3>2, <3>3
    <2>9. FirstApart'
      <3>1. sets' # 0 /\ (sets' <= 1 => sets = 0)
        BY <1>2
      <3>2. sets = 0 => Apart(done)
        BY <2>2, LayoutFields DEF LayoutInv, FirstApart, TurnInv
      <3>3. Apart(done) => Apart(Layout)'
        BY <2>5 DEF Apart
      <3>4. QED
        BY <3>1, <3>2, <3>3 DEF FirstApart
    <2>10. QED
      BY <2>6, <2>7, <2>8, <2>9 DEF LayoutInv
  <1>9. QED
    BY <1>7, <1>8

-----------------------------------------------------------------------------
(* Every other call leaves the layout alone.                               *)
LEMMA NextLayout == LayoutInv /\ [Next]_vars => LayoutInv'
  <1> SUFFICES ASSUME LayoutInv, [Next]_vars PROVE LayoutInv'
    OBVIOUS
  <1>1. CASE UNCHANGED layout
    BY <1>1, LayoutKept
  <1>2. ASSUME NEW f \in Formats, SetDataFormat(f) PROVE LayoutInv'
    BY <1>2, LayoutChanged
  <1>3. CASE Properties
    <2>1. ASSUME NEW guid, NEW how, NEW obj, GetProperty(guid, how, obj)
          PROVE  UNCHANGED layout
      BY <2>1 DEF GetProperty
    <2>2. ASSUME NEW guid, NEW how, NEW obj, NEW dword, NEW range,
                 SetProperty(guid, how, obj, dword, range)
          PROVE  UNCHANGED layout
      BY <2>2 DEF SetProperty
    <2>3. UNCHANGED layout
      BY <1>3, <2>1, <2>2 DEF Properties
    <2>4. QED
      BY <1>1, <2>3
  <1>4. CASE GetDeviceState \/ Poll \/ Enumeration \/ GetCapabilities \/ OtherCall
             \/ Stopped \/ UNCHANGED vars
    BY <1>1, <1>4 DEF GetDeviceState, Poll, Enumeration, EnumObjects, GetCapabilities,
                      OtherCall, Stopped, vars, layout
  <1>5. QED
    BY <1>2, <1>3, <1>4 DEF Next

LEMMA InitLayout == Init => LayoutInv
  <1> SUFFICES ASSUME Init PROVE LayoutInv
    OBVIOUS
  <1>1. device_formats_ = <<>> /\ Len(device_formats_) = 0
    BY DEF Init
  <1>2. matched = {} /\ Cardinality(matched) = 0
    BY FS_EmptySet DEF Init
  <1>3. device_format_defaults_ = {} /\ format = None /\ largest = 0 /\ sets = 0
    BY DEF Init
  <1>4. Layout \in Work
    BY <1>1, <1>2, <1>3 DEF Layout, Work
  <1>5. LayoutTyped
    BY <1>1, <1>2, <1>3, <1>4, LayoutFields DEF LayoutTyped, Counted
  <1>6. DOMAIN device_formats_ = {}
    BY <1>1
  <1>7. WithinLargest /\ FormatServed /\ FirstApart
    BY <1>1, <1>3, <1>6, LayoutFields DEF WithinLargest, FormatServed, FirstApart, Apart
  <1>8. QED
    BY <1>5, <1>7 DEF LayoutInv

LEMMA LayoutInvariant == Spec => []LayoutInv
  BY InitLayout, NextLayout, PTL DEF Spec

(* A layout the device accepted is served as far as it can be, whatever    *)
(* layouts were set, accepted or refused, before and since: each entry has *)
(* an object that fits it, or the device has none left that does.          *)
THEOREM EntriesServed == Spec => []NothingLeftOut
  <1>1. LayoutInv => NothingLeftOut
    BY LayoutFields DEF LayoutInv, FormatServed, Served, NothingLeftOut, Range
  <1>2. QED
    BY <1>1, LayoutInvariant, PTL

-----------------------------------------------------------------------------
(* Only GetDeviceState fails a CHECK or writes past the buffer.            *)
LEMMA NextWrites == LayoutInv /\ WritesFit /\ [Next]_vars => WritesFit'
  <1> SUFFICES ASSUME LayoutInv, WritesFit, [Next]_vars PROVE WritesFit'
    OBVIOUS
  <1>1. CASE UNCHANGED <<aborted, format, largest>>
    BY <1>1 DEF WritesFit
  <1>2. CASE aborted' = "unimplemented"
    BY <1>2 DEF WritesFit
  <1>3. CASE aborted = "no" /\ aborted' = "no"
    BY <1>3 DEF WritesFit
  <1>4. CASE aborted = "no" /\ GetDeviceState
    <2>1. format # None /\ UNCHANGED layout
      BY <1>4 DEF GetDeviceState
    <2>2. format \in Formats /\ format.size \in Nat /\ format.size <= largest /\ largest \in Nat
      BY <2>1, FormatTyped DEF LayoutInv, LayoutTyped, FormatServed
    <2>3. CASE \E k \in DOMAIN device_formats_ : ~Applicable(device_formats_[k], format.size)
      <3>1. format.size # largest
        BY <2>3 DEF LayoutInv, WithinLargest
      <3>2. QED
        BY <2>1, <2>2, <3>1 DEF WritesFit, layout
    <2>4. CASE \E offset \in device_format_defaults_ : offset + 4 > format.size
      <3>1. PICK offset \in device_format_defaults_ : offset + 4 > format.size
        BY <2>4
      <3>2. offset + 4 <= largest /\ offset \in Nat
        BY LayoutFields, WorkTyped DEF LayoutInv, WithinLargest, LayoutTyped
      <3>3. format.size # largest
        BY <2>2, <3>1, <3>2
      <3>4. QED
        BY <2>1, <2>2, <3>3 DEF WritesFit, layout
    <2>5. CASE /\ ~\E k \in DOMAIN device_formats_ : ~Applicable(device_formats_[k], format.size)
               /\ ~\E offset \in device_format_defaults_ : offset + 4 > format.size
      <3>1. aborted' = "no"
        BY <1>4, <2>5 DEF GetDeviceState
      <3>2. QED
        BY <3>1 DEF WritesFit
    <2>6. QED
      BY <2>3, <2>4, <2>5
  <1>5. ASSUME aborted = "no", NEW f \in Formats, SetDataFormat(f) PROVE aborted' = "no"
    BY <1>5 DEF SetDataFormat, Return
  <1>6. ASSUME aborted = "no", Properties PROVE aborted' \in {"no", "unimplemented"}
    <2>1. ASSUME NEW guid, NEW how, NEW obj, Refused(guid, how, obj)
          PROVE  aborted' \in {"no", "unimplemented"}
      BY <1>6, <2>1 DEF Refused, Return, Abort
    <2>2. ASSUME NEW guid, NEW how, NEW obj, GetProperty(guid, how, obj)
          PROVE  aborted' \in {"no", "unimplemented"}
      BY <1>6, <2>1, <2>2 DEF GetProperty, Return, Abort
    <2>3. ASSUME NEW guid, NEW how, NEW obj, NEW dword, NEW range,
                 SetProperty(guid, how, obj, dword, range)
          PROVE  aborted' \in {"no", "unimplemented"}
      BY <1>6, <2>1, <2>3 DEF SetProperty, Return
    <2>4. QED
      BY <1>6, <2>2, <2>3 DEF Properties
  <1>7. ASSUME aborted = "no", Poll \/ Enumeration \/ GetCapabilities \/ OtherCall
        PROVE  aborted' \in {"no", "unimplemented"}
    BY <1>7 DEF Poll, Enumeration, EnumObjects, GetCapabilities, OtherCall, Return, Abort
  <1>8. CASE Stopped \/ UNCHANGED vars
    BY <1>1, <1>8 DEF Stopped, vars
  <1>9. QED
    BY <1>2, <1>3, <1>4, <1>5, <1>6, <1>7, <1>8 DEF Next

(* Whatever layouts a game sets and whatever of them is refused: a read    *)
(* fails a CHECK or writes past its buffer only if the game shrank it.     *)
THEOREM ReadsAreSafe == Spec => []WritesFit
  <1>1. Init => WritesFit
    BY DEF Init, WritesFit
  <1>2. QED
    BY <1>1, NextWrites, LayoutInvariant, PTL DEF Spec

-----------------------------------------------------------------------------
(* What GetDeviceState returned, until the next call returns.              *)
HatsRead ==
  "state" \in DOMAIN answer =>
    \A i \in DOMAIN format.objs :
      LET e == format.objs[i]
      IN  e.guid = "POV" =>
            \/ answer.state[i] = -1
            \/ \E k \in DOMAIN device_formats_ : device_formats_[k].offset = e.offset

LEMMA NextHats == LayoutInv /\ HatsRead /\ [Next]_vars => HatsRead'
  <1> SUFFICES ASSUME LayoutInv, HatsRead, [Next]_vars PROVE HatsRead'
    OBVIOUS
  <1>1. CASE UNCHANGED <<answer, format, device_formats_>>
    BY <1>1 DEF HatsRead
  <1>2. ASSUME "state" \notin DOMAIN answer' PROVE HatsRead'
    BY <1>2 DEF HatsRead
  <1>3. ASSUME NEW result, Return(result) PROVE "state" \notin DOMAIN answer'
    BY <1>3 DEF Return
  <1>4. ASSUME NEW f \in Formats, SetDataFormat(f) PROVE HatsRead'
    BY <1>2, <1>3, <1>4 DEF SetDataFormat
  <1>5. CASE GetDeviceState
    <2> DEFINE size == format.size
               read == [i \in DOMAIN format.objs |-> ReadAt(format.objs[i].offset, inputs)]
    <2>1. format # None /\ UNCHANGED <<format, device_formats_>>
      BY <1>5 DEF GetDeviceState, layout
    <2>2. CASE UNCHANGED answer
      BY <1>1, <2>1, <2>2
    <2>3. CASE answer' = [result |-> "DI_OK", state |-> read]
      <3>1. answer'.state = read
        BY <2>3
      <3>2. ASSUME NEW i \in DOMAIN format.objs, format.objs[i].guid = "POV"
            PROVE  \/ read[i] = -1
                   \/ \E k \in DOMAIN device_formats_ :
                        device_formats_[k].offset = format.objs[i].offset
        <4>1. Served(Layout, format.objs[i])
          BY <2>1 DEF LayoutInv, FormatServed
        <4>2. CASE format.objs[i].offset \in device_format_defaults_
          BY <4>2 DEF ReadAt
        <4>3. QED
          BY <3>2, <4>1, <4>2, LayoutFields DEF Served
      <3> HIDE DEF read
      <3>3. QED
        BY <2>1, <3>1, <3>2 DEF HatsRead
    <2>4. QED
      BY <1>5, <2>2, <2>3 DEF GetDeviceState, Abort
  <1>6. CASE Properties
    <2>1. ASSUME NEW guid, NEW how, NEW obj, Refused(guid, how, obj)
          PROVE  "state" \notin DOMAIN answer' \/ UNCHANGED answer
      BY <1>3, <2>1 DEF Refused, Abort
    <2>2. ASSUME NEW guid, NEW how, NEW obj, GetProperty(guid, how, obj)
          PROVE  /\ "state" \notin DOMAIN answer' \/ UNCHANGED answer
                 /\ UNCHANGED layout
      <3>1. UNCHANGED layout
        BY <2>2 DEF GetProperty
      <3>2. ASSUME NEW value, answer' = [result |-> "DI_OK", value |-> value]
            PROVE  "state" \notin DOMAIN answer'
        BY <3>2
      <3>3. QED
        BY <1>3, <2>1, <2>2, <3>1, <3>2 DEF GetProperty, Abort
    <2>3. ASSUME NEW guid, NEW how, NEW obj, NEW dword, NEW range,
                 SetProperty(guid, how, obj, dword, range)
          PROVE  /\ "state" \notin DOMAIN answer' \/ UNCHANGED answer
                 /\ UNCHANGED layout
      BY <1>3, <2>1, <2>3 DEF SetProperty
    <2>4. /\ "state" \notin DOMAIN answer' \/ UNCHANGED answer
          /\ UNCHANGED layout
      BY <1>6, <2>2, <2>3 DEF Properties
    <2>5. QED
      BY <1>1, <1>2, <2>4 DEF layout
  <1>7. CASE Poll \/ Enumeration \/ GetCapabilities \/ OtherCall
    <2>1. /\ "state" \notin DOMAIN answer' \/ UNCHANGED answer
          /\ UNCHANGED layout
      BY <1>3, <1>7
         DEF Poll, Enumeration, EnumObjects, GetCapabilities, OtherCall, Abort
    <2>2. QED
      BY <1>1, <1>2, <2>1 DEF layout
  <1>8. CASE Stopped \/ UNCHANGED vars
    BY <1>1, <1>8 DEF Stopped, vars
  <1>9. QED
    BY <1>4, <1>5, <1>6, <1>7, <1>8 DEF Next

(* A hat the game asked for and no object feeds never reads as north, and  *)
(* no object that is read is covered by a default.                         *)
THEOREM HatsCentred == Spec => []MissingHatsCentred
  <1>1. Init => HatsRead
    BY DEF Init, HatsRead
  <1>2. HatsRead /\ LayoutInv => MissingHatsCentred
    BY LayoutFields DEF HatsRead, LayoutInv, FirstApart, Apart, MissingHatsCentred
  <1>3. QED
    BY <1>1, <1>2, NextHats, LayoutInvariant, PTL DEF Spec

-----------------------------------------------------------------------------
(* An identifier names one object.                                         *)
LEMMA Identified ==
  ASSUME NEW i \in Objects, NEW j \in Objects,
         Object(i).type = Object(j).type,
         Object(i).instance_id = Object(j).instance_id
  PROVE  i = j
  <1>1. /\ i \in 1..19 /\ j \in 1..19
        /\ \A k \in 1..4 : Object(k).type = "ABSAXIS"
        /\ Object(1).instance_id = 0 /\ Object(2).instance_id = 1
        /\ Object(3).instance_id = 2 /\ Object(4).instance_id = 5
        /\ \A k \in 5..18 : Object(k).type = "PSHBUTTON" /\ Object(k).instance_id = k - 5
        /\ Object(19).type = "POV" /\ Object(19).instance_id = 0
    BY ObjectList
  <1>2. \A k \in 1..19 : k \in 1..4 \/ k \in 5..18 \/ k = 19
    OBVIOUS
  <1>3. CASE i \in 1..4 /\ j \in 1..4
    <2>1. \A k \in 1..4 : k = 1 \/ k = 2 \/ k = 3 \/ k = 4
      OBVIOUS
    <2>2. QED
      BY <1>1, <1>3, <2>1
  <1>4. CASE i \in 5..18 /\ j \in 5..18
    BY <1>1, <1>4
  <1>5. CASE i = 19 /\ j = 19
    BY <1>5
  <1>6. QED
    BY <1>1, <1>2, <1>3, <1>4, <1>5

LEMMA InstancesAreNumbers ==
  ASSUME NEW i \in Objects
  PROVE  Object(i).instance_id \in Nat
  <1>1. /\ i \in 1..19
        /\ Object(1).instance_id = 0 /\ Object(2).instance_id = 1
        /\ Object(3).instance_id = 2 /\ Object(4).instance_id = 5
        /\ \A k \in 5..18 : Object(k).instance_id = k - 5
        /\ Object(19).instance_id = 0
    BY ObjectList
  <1>2. i = 1 \/ i = 2 \/ i = 3 \/ i = 4 \/ i \in 5..18 \/ i = 19
    BY <1>1
  <1>3. QED
    BY <1>1, <1>2

(* The only member of a set is its first and its last.                     *)
LEMMA OnlyOne ==
  ASSUME NEW x \in Nat, NEW S, S = {x}
  PROVE  Min(S) = x /\ Max(S) = x
  <1>1. \A y \in S : y = x
    OBVIOUS
  <1>2. x \in S /\ x <= x /\ x >= x
    OBVIOUS
  <1>3. QED
    BY <1>1, <1>2 DEF Min, Max

(* Each object is found by the identifier it was announced with, and by    *)
(* the offset the first layout gave it, where the object written last is   *)
(* the one that is found first, for it is the only one.                    *)
THEOREM PropertiesReachTheAxis == Spec => []PropertiesAddress
  <1>1. ASSUME NEW i \in Objects
        PROVE  FindPropertyObject("BYID",
                 [types |-> {Object(i).type}, instance |-> Object(i).instance_id,
                  optional |-> FALSE, leftover |-> FALSE]) = i
    <2> DEFINE didft == [types |-> {Object(i).type}, instance |-> Object(i).instance_id,
                         optional |-> FALSE, leftover |-> FALSE]
               found == {o \in Objects : MatchesType(o, didft)}
    <2>1. didft.types = {Object(i).type} /\ didft.instance = Object(i).instance_id
          /\ didft.leftover = FALSE
      OBVIOUS
    <2>2. didft # DIDFT_ALL
      <3>1. DIDFT_ALL.types = {}
        BY DEF DIDFT_ALL
      <3> HIDE DEF didft
      <3>2. QED
        BY <2>1, <3>1
    <2> HIDE DEF didft
    <2>3. AnyInstance # Object(i).instance_id
      BY InstancesAreNumbers, DirectInputDeviceAssumption
    <2>4. \A o \in Objects : MatchesType(o, didft) => o = i
      BY <2>1, <2>2, <2>3, Identified DEF MatchesType
    <2>5. MatchesType(i, didft)
      BY <2>1 DEF MatchesType
    <2>6. found = {i}
      BY <2>4, <2>5
    <2>7. i \in Nat
      BY FinitelyManyObjects
    <2> HIDE DEF found
    <2>8. Min(found) = i /\ found # {}
      BY <2>6, <2>7, OnlyOne
    <2>9. FindPropertyObject("BYID", didft) = Min(found)
      BY <2>8 DEF FindPropertyObject, found
    <2>10. QED
      BY <2>8, <2>9 DEF didft
  <1>2. ASSUME LayoutInv, sets <= 1, NEW k \in DOMAIN device_formats_, NEW in \in Inputs
        PROVE  LET o == device_formats_[k].offset
               IN  ReadAt(o, in) = Reading(FindPropertyObject("BYOFFSET", o), in)
    <2> DEFINE o == device_formats_[k].offset
               there == {j \in DOMAIN device_formats_ : device_formats_[j].offset = o}
    <2>1. o \notin device_format_defaults_ /\ there = {k}
      BY <1>2, LayoutFields DEF LayoutInv, FirstApart, Apart
    <2>2. k \in Nat
      <3>1. DOMAIN device_formats_ = 1..Len(device_formats_)
        BY <1>2, WorkTyped, LayoutFields DEF LayoutInv, LayoutTyped
      <3>2. QED
        BY <3>1
    <2> HIDE DEF there
    <2>3. Min(there) = k /\ Max(there) = k /\ there # {}
      BY <2>1, <2>2, OnlyOne
    <2> HIDE DEF o
    <2>4. ReadAt(o, in) = Reading(device_formats_[k].object, in)
      BY <2>1, <2>3 DEF ReadAt, there
    <2>5. FindPropertyObject("BYOFFSET", o) = device_formats_[k].object
      BY <2>3 DEF FindPropertyObject, there
    <2>6. QED
      BY <2>4, <2>5 DEF o
  <1>3. LayoutInv => PropertiesAddress
    BY <1>1, <1>2 DEF PropertiesAddress
  <1>4. QED
    BY <1>3, LayoutInvariant, PTL

-----------------------------------------------------------------------------
(* How a call ends.                                                        *)
Ending ==
  /\ inputs \in Inputs
  /\ aborted \in {"no", "check", "overrun", "unimplemented"}

LEMMA NextEnding == Ending /\ [Next]_vars => Ending'
  <1> SUFFICES ASSUME Ending, [Next]_vars PROVE Ending'
    OBVIOUS
  <1> DEFINE Quiet == UNCHANGED aborted \/ aborted' \in {"check", "overrun", "unimplemented"}
  <1>1. ASSUME NEW f \in Formats, SetDataFormat(f) PROVE Quiet /\ UNCHANGED inputs
    BY <1>1 DEF SetDataFormat, Return
  <1>2. CASE Properties
    <2>1. ASSUME NEW guid, NEW how, NEW obj, Refused(guid, how, obj) PROVE Quiet
      BY <2>1 DEF Refused, Return, Abort
    <2>2. ASSUME NEW guid, NEW how, NEW obj, GetProperty(guid, how, obj)
          PROVE  Quiet /\ UNCHANGED inputs
      BY <2>1, <2>2 DEF GetProperty, Return, Abort
    <2>3. ASSUME NEW guid, NEW how, NEW obj, NEW dword, NEW range,
                 SetProperty(guid, how, obj, dword, range)
          PROVE  Quiet /\ UNCHANGED inputs
      BY <2>1, <2>3 DEF SetProperty, Return
    <2>4. Quiet /\ UNCHANGED inputs
      BY <1>2, <2>2, <2>3 DEF Properties
    <2>5. QED
      BY <2>4 DEF Ending
  <1>3. CASE GetDeviceState \/ Poll \/ Enumeration \/ GetCapabilities \/ OtherCall
    BY <1>3 DEF GetDeviceState, Poll, Enumeration, EnumObjects, GetCapabilities, OtherCall,
                Return, Abort, Ending
  <1>4. CASE Stopped \/ UNCHANGED vars
    BY <1>4 DEF Stopped, vars, Ending
  <1>5. QED
    BY <1>1, <1>2, <1>3, <1>4 DEF Next, Ending

(* The device's members hold values of their types, and no object is       *)
(* written twice.                                                          *)
THEOREM TypeCorrect == Spec => []TypeOK
  <1>1. Init => Ending
    BY DirectInputDeviceAssumption DEF Init, Ending
  <1>2. LayoutInv /\ SettingsTyped /\ Ending => TypeOK
    <2> SUFFICES ASSUME LayoutInv, SettingsTyped, Ending PROVE TypeOK
      OBVIOUS
    <2>1. ASSUME NEW i \in Objects
          PROVE  /\ DOMAIN settings[i] = {"range_min", "range_max", "deadzone", "saturation"}
                 /\ settings[i].range_min \in Int /\ settings[i].range_max \in Int
                 /\ settings[i].deadzone \in Share /\ settings[i].saturation \in Share
      BY DEF SettingsTyped, Settings
    <2>2. /\ matched \in SUBSET Objects /\ device_formats_ \in Seq(Written)
          /\ device_format_defaults_ \in SUBSET Nat
      BY WorkTyped, LayoutFields DEF LayoutInv, LayoutTyped
    <2>3. Len(device_formats_) <= Cardinality(Objects)
      BY <2>2, FinitelyManyObjects, LayoutFields DEF LayoutInv, LayoutTyped, Counted
    <2>4. DOMAIN settings = Objects
      BY DEF SettingsTyped
    <2>5. format \in Formats \cup {None}
      BY DEF LayoutInv, LayoutTyped
    <2>6. QED
      BY <2>1, <2>2, <2>3, <2>4, <2>5 DEF TypeOK, Ending, Written
  <1>3. QED
    BY <1>1, <1>2, NextEnding, LayoutInvariant, SettingsStayTyped, PTL DEF Spec
===============================================================================
