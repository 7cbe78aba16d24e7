---------------------------- MODULE InputPathProofs ----------------------------
(***************************************************************************)
(* Proofs about the way of the inputs, for any controllers, resolution,    *)
(* configuration and pads: what MCInputPath checks of a few of them.       *)
(***************************************************************************)
EXTENDS InputPath, FiniteSetTheorems, SequenceTheorems, WellFoundedInduction, TLAPS

LEMMA ScaleTyped ==
  /\ Scale \in Nat /\ Scale > 0 /\ Centre \in Nat /\ Centre > 0 /\ 2 * Centre = Scale
  /\ Axis = 0..Scale
  BY ScaleAssumption DEF Axis, Centre

(* A whole number of parts, and what they add up to.                       *)
LEMMA Parts ==
  ASSUME NEW n \in Nat, NEW d \in Nat, d > 0, n > 0, n % d = 0
  PROVE  n \div d \in Nat /\ n \div d > 0 /\ (n \div d) * d = n
  OBVIOUS

LEMMA Times ==
  ASSUME NEW a \in Int, NEW b \in Int, NEW c \in Int, c > 0
  PROVE  /\ a * c \in Int /\ b * c \in Int
         /\ a <= b <=> a * c <= b * c
         /\ a < b <=> a * c < b * c
  OBVIOUS

-----------------------------------------------------------------------------
(* What the assumption says of one capability.                             *)
Capability(c) ==
  /\ c.LogicalMin \in Int /\ c.LogicalMax \in Int /\ c.BitSize \in Nat
  /\ c.LogicalMin < c.LogicalMax
  /\ c.LogicalMin >= 0 => c.LogicalMax < 2^c.BitSize
  /\ c.LogicalMin < 0 => /\ 2 * (c.LogicalMax + 1) <= 2^c.BitSize
                         /\ 2 * (-c.LogicalMin) <= 2^c.BitSize
  /\ c.Usage = "HAT" => c.LogicalMin >= 0 /\ c.LogicalMax + 1 < 2^c.BitSize
  /\ c.Usage \in SticksAndTriggers => Scale % (c.LogicalMax - c.LogicalMin) = 0

LEMMA CapsTyped ==
  ASSUME NEW caps \in Capabilities
  PROVE  /\ Len(caps) \in Nat /\ DOMAIN caps = 1..Len(caps)
         /\ \A i, j \in 1..Len(caps) : caps[i].Usage = caps[j].Usage => i = j
         /\ \A i \in 1..Len(caps) : Capability(caps[i])
  <1>1. ValueCaps(caps)
    BY InputPathAssumption
  <1>2. QED
    BY <1>1 DEF ValueCaps, Capability

(* The bits of a value are the value, or a number beyond all of them.      *)
LEMMA UsageValue ==
  ASSUME NEW c, Capability(c), NEW logical \in LogicalValues(c)
  PROVE  /\ logical \in Int /\ get_usage_value(c, logical) \in Nat
         /\ logical >= 0 => get_usage_value(c, logical) = logical
         /\ logical < 0 => get_usage_value(c, logical) > c.LogicalMax
  <1> DEFINE bits == 2^c.BitSize
  <1>1. bits \in Int
    BY DEF Capability
  <1>2. /\ logical \in Int /\ c.LogicalMin <= logical
        /\ logical <= c.LogicalMax \/ (c.Usage = "HAT" /\ logical = c.LogicalMax + 1)
        /\ c.LogicalMin \in Int /\ c.LogicalMax \in Int
    BY DEF LogicalValues, Capability
  <1>3. /\ c.LogicalMin >= 0 => c.LogicalMax < bits
        /\ c.LogicalMin < 0 => 2 * (c.LogicalMax + 1) <= bits /\ 2 * (-c.LogicalMin) <= bits
        /\ c.Usage = "HAT" => c.LogicalMax + 1 < bits
        /\ c.LogicalMin < c.LogicalMax
    BY DEF Capability
  <1>4. get_usage_value(c, logical) = logical % bits
    BY DEF get_usage_value
  <1> HIDE DEF bits
  <1>5. bits > 0
    BY <1>1, <1>2, <1>3
  <1>6. CASE logical >= 0
    <2>1. logical < bits
      BY <1>1, <1>2, <1>3, <1>6
    <2>2. logical % bits = logical
      BY <1>1, <1>2, <1>5, <1>6, <2>1
    <2>3. QED
      BY <1>2, <1>4, <1>6, <2>2
  <1>7. CASE logical < 0
    <2>1. 0 <= logical + bits /\ logical + bits > c.LogicalMax
      BY <1>1, <1>2, <1>3, <1>7
    <2>2. logical % bits = logical + bits
      BY <1>1, <1>2, <1>5, <1>7, <2>1
    <2>3. QED
      BY <1>1, <1>2, <1>4, <1>7, <2>1, <2>2
  <1>8. QED
    BY <1>2, <1>6, <1>7

(* A position of a stick or a trigger is taken for what it is, or ends the *)
(* process, which it does only if there are negative ones.                 *)
LEMMA Unlerped ==
  ASSUME NEW c, Capability(c), c.Usage \in SticksAndTriggers, NEW logical \in LogicalValues(c)
  PROVE  LET part == Scale \div (c.LogicalMax - c.LogicalMin)
             value == unlerp(get_usage_value(c, logical), c.LogicalMin, c.LogicalMax)
         IN  /\ part \in Nat /\ part > 0 /\ part * (c.LogicalMax - c.LogicalMin) = Scale
             /\ logical \in c.LogicalMin .. c.LogicalMax
             /\ value \in Axis => value = (logical - c.LogicalMin) * part
             /\ value \notin Axis => c.LogicalMin < 0
  <1> DEFINE min == c.LogicalMin
             max == c.LogicalMax
             span == max - min
             part == Scale \div span
             bits == get_usage_value(c, logical)
             value == unlerp(bits, min, max)
  <1>1. min \in Int /\ max \in Int /\ min < max /\ Scale % span = 0
    BY DEF Capability
  <1>2. span \in Nat /\ span > 0
    BY <1>1
  <1>3. part \in Nat /\ part > 0 /\ part * span = Scale
    <2> HIDE DEF span
    <2>1. QED
      BY <1>1, <1>2, ScaleTyped, Parts
  <1>4. logical \in min .. max
    BY DEF LogicalValues, SticksAndTriggers
  <1>5. /\ bits \in Nat
        /\ logical >= 0 => bits = logical
        /\ logical < 0 => bits > max
    BY UsageValue
  <1>6. value = (bits - min) * part
    BY DEF unlerp
  <1>7. span * part = Scale
    BY <1>2, <1>3
  <1>8. span = max - min
    OBVIOUS
  <1> HIDE DEF span, part, bits, value
  <1>9. value \in Axis <=> bits - min >= 0 /\ bits - min <= span
    <2>1. bits - min \in Int
      BY <1>1, <1>5
    <2>2. /\ 0 <= bits - min <=> 0 * part <= (bits - min) * part
          /\ bits - min <= span <=> (bits - min) * part <= span * part
          /\ (bits - min) * part \in Int
      BY <1>2, <1>3, <2>1, Times
    <2>3. 0 * part = 0
      BY <1>3
    <2>4. QED
      BY <1>6, <1>7, <2>1, <2>2, <2>3, ScaleTyped
  <1>10. CASE logical >= 0
    <2>1. value \in Axis /\ value = (logical - min) * part
      BY <1>1, <1>4, <1>5, <1>6, <1>8, <1>9, <1>10
    <2>2. QED
      BY <1>3, <1>4, <1>8, <2>1 DEF value, part, bits, span
  <1>11. CASE logical < 0
    <2>1. value \notin Axis
      BY <1>1, <1>4, <1>5, <1>8, <1>9, <1>11
    <2>2. min < 0
      BY <1>1, <1>4, <1>11
    <2>3. QED
      BY <1>3, <1>4, <1>8, <2>1, <2>2 DEF value, part, bits, span
  <1>12. QED
    BY <1>4, <1>10, <1>11

-----------------------------------------------------------------------------
(* A set of naturals that is not empty has a least element.                *)
LEMMA LeastElement ==
  ASSUME NEW T \in SUBSET Nat, T # {}
  PROVE  \E x \in T : \A y \in T : x <= y
  <1>1. PICK x \in T : \A y \in T : ~ (<<y, x>> \in OpToRel(<, Nat))
    BY NatLessThanWellFounded, WFMin
  <1>2. ASSUME NEW y \in T PROVE x <= y
    <2>1. x \in Nat /\ y \in Nat
      OBVIOUS
    <2>2. ~ (y < x)
      BY <1>1, <2>1 DEF OpToRel
    <2>3. QED
      BY <2>1, <2>2
  <1>3. QED
    BY <1>2

(* A set of indices of a sequence that is not empty has a greatest element. *)
LEMMA GreatestIndex ==
  ASSUME NEW n \in Nat, NEW T \in SUBSET (1..n), T # {}
  PROVE  \E x \in T : \A y \in T : y <= x
  <1> DEFINE M == {n - t : t \in T}
  <1>1. M \in SUBSET Nat /\ M # {}
    <2>1. \A t \in T : t \in 1..n
      OBVIOUS
    <2>2. \A t \in T : n - t \in Nat
      BY <2>1
    <2>3. QED
      BY <2>2
  <1>2. PICK m \in M : \A y \in M : m <= y
    BY <1>1, LeastElement
  <1>3. PICK x \in T : m = n - x
    OBVIOUS
  <1>4. ASSUME NEW y \in T PROVE y <= x
    <2>1. n - y \in M
      OBVIOUS
    <2>2. m <= n - y
      BY <1>2, <2>1
    <2>3. x \in Int /\ y \in Int
      OBVIOUS
    <2>4. QED
      BY <1>3, <2>2, <2>3
  <1>5. QED
    BY <1>4

-----------------------------------------------------------------------------

(* Max picks one that nothing exceeds.                                     *)
LEMMA LastIndex ==
  ASSUME NEW n \in Nat, NEW S \in SUBSET (1..n), S # {}
  PROVE  Max(S) \in S
  <1>1. \A x \in S : x \in Nat
    OBVIOUS
  <1>2. \E x \in S : \A y \in S : x >= y
    BY <1>1, GreatestIndex
  <1>3. QED
    BY <1>2 DEF Max

(* The loop parses one value after the other.                              *)
LEMMA ParsedInTurn ==
  ASSUME NEW report, NEW n \in Nat, Len(value_caps) = n
  PROVE  /\ Parsed(report)[0] =
              [NeutralInputs EXCEPT
                 !.pressed = {ButtonOfUsage[u] : u \in report.buttons \cap DOMAIN ButtonOfUsage}]
         /\ \A i \in 1..n :
              Parsed(report)[i] =
                ParseValue(Parsed(report)[i - 1], value_caps[i],
                           get_usage_value(value_caps[i], report.values[i]))
  <1> DEFINE start == [NeutralInputs EXCEPT
                !.pressed = {ButtonOfUsage[u] : u \in report.buttons \cap DOMAIN ButtonOfUsage}]
             Turn(inputs, i) == ParseValue(inputs, value_caps[i],
                                  get_usage_value(value_caps[i], report.values[i]))
             After(f, i) == IF i = 0 THEN start ELSE Turn(f[i - 1], i)
             Upto(f, m) == f = [i \in 0..m |-> After(f, i)]
             Bad == {m \in Nat : ~\E f : Upto(f, m)}
  <1>0. Parsed(report) = CHOOSE f : Upto(f, n)
    BY DEF Parsed
  <1> HIDE DEF start, Turn
  <1>1. ASSUME NEW m \in Nat, NEW f, Upto(f, m)
        PROVE  \E g : Upto(g, m + 1)
    <2> DEFINE last == Turn(f[m], m + 1)
               g == [k \in 0..(m + 1) |-> IF k = m + 1 THEN last ELSE f[k]]
    <2>1. ASSUME NEW k \in 0..(m + 1) PROVE g[k] = After(g, k)
      <3>1. CASE k = m + 1
        <4>1. m \in 0..(m + 1) /\ m # m + 1 /\ k # 0 /\ k - 1 = m
          BY <3>1
        <4>2. g[m] = f[m] /\ g[k] = last
          BY <3>1, <4>1
        <4> HIDE DEF g
        <4>3. QED
          BY <3>1, <4>1, <4>2
      <3>2. CASE k = 0
        <4>1. 0 \in 0..m /\ f[0] = After(f, 0)
          BY <1>1
        <4>2. QED
          BY <3>2, <4>1
      <3>3. CASE k # 0 /\ k # m + 1
        <4>1. k \in 0..m /\ k - 1 \in 0..(m + 1) /\ k - 1 # m + 1
          BY <3>3
        <4>2. f[k] = After(f, k)
          BY <1>1, <4>1
        <4>3. g[k] = f[k] /\ g[k - 1] = f[k - 1]
          BY <3>3, <4>1
        <4> HIDE DEF g
        <4>4. QED
          BY <3>3, <4>2, <4>3
      <3>4. QED
        BY <3>1, <3>2, <3>3
    <2>2. g = [k \in 0..(m + 1) |-> g[k]]
      OBVIOUS
    <2> HIDE DEF g, After
    <2>3. Upto(g, m + 1)
      BY <2>1, <2>2
    <2>4. QED
      BY <2>3
  <1>2. Bad = {}
    <2> SUFFICES ASSUME Bad # {} PROVE FALSE
      OBVIOUS
    <2>1. PICK m \in Bad : \A i \in Bad : m <= i
      BY LeastElement
    <2>2. \E f : Upto(f, 0)
      <3> DEFINE f == [k \in 0..0 |-> start]
      <3>1. f = [k \in 0..0 |-> After(f, k)]
        OBVIOUS
      <3>2. QED
        BY <3>1
    <2> HIDE DEF Upto
    <2>3. m \in Nat /\ m # 0
      BY <2>1, <2>2
    <2>4. m - 1 \in Nat /\ (m - 1) + 1 = m /\ ~(m <= m - 1)
      BY <2>3
    <2>5. m - 1 \notin Bad
      BY <2>1, <2>4
    <2>6. \E f : Upto(f, m - 1)
      BY <2>4, <2>5
    <2>7. \E g : Upto(g, m)
      BY <1>1, <2>4, <2>6
    <2>8. QED
      BY <2>1, <2>7
  <1>3. Upto(Parsed(report), n)
    <2>1. \E f : Upto(f, n)
      BY <1>2
    <2>2. Parsed(report) = CHOOSE f : Upto(f, n)
      BY <1>0
    <2> HIDE DEF Upto
    <2>3. QED
      BY <2>1, <2>2
  <1>4. \A k \in 0..n : Parsed(report)[k] = After(Parsed(report), k)
    <2> DEFINE t == Parsed(report)
    <2>1. t = [k \in 0..n |-> After(t, k)]
      BY <1>3
    <2> HIDE DEF t, After
    <2>2. \A k \in 0..n : t[k] = After(t, k)
      BY <2>1
    <2>3. QED
      BY <2>2 DEF t
  <1>5. QED
    BY <1>4, SMTT(40) DEF start, Turn

-----------------------------------------------------------------------------
LEMMA InputsTyped ==
  ASSUME NEW inputs \in DeviceInputs
  PROVE  /\ inputs # None /\ inputs.hat \in Hat /\ inputs.pressed \in SUBSET ButtonType
         /\ inputs.axis \in [AxisType -> Axis]
         /\ \A a \in AxisType : inputs.axis[a] \in Axis
  BY InputPathAssumption DEF DeviceInputs

LEMMA NeutralTyped ==
  /\ NeutralInputs \in DeviceInputs /\ NeutralInputs.hat = "Neutral"
  /\ "Neutral" \in Hat
  <1>1. Centre \in Axis
    BY ScaleTyped
  <1>2. "Neutral" \in Hat
    BY DEF Hat
  <1>3. QED
    BY <1>1, <1>2 DEF NeutralInputs, DeviceInputs

(* What a button, a hat and an axis that is set change, and what not.      *)
LEMMA PressedSet ==
  ASSUME NEW inputs \in DeviceInputs, NEW buttons \in SUBSET ButtonType
  PROVE  LET new == [inputs EXCEPT !.pressed = buttons]
         IN  new \in DeviceInputs /\ new.pressed = buttons
               /\ new.axis = inputs.axis /\ new.hat = inputs.hat
  BY DEF DeviceInputs

LEMMA HatSet ==
  ASSUME NEW inputs \in DeviceInputs, NEW hat \in Hat
  PROVE  LET new == [inputs EXCEPT !.hat = hat]
         IN  new \in DeviceInputs /\ new.hat = hat
               /\ new.axis = inputs.axis /\ new.pressed = inputs.pressed
  BY DEF DeviceInputs

LEMMA AxesSet ==
  ASSUME NEW inputs \in DeviceInputs, NEW axis \in [AxisType -> Axis]
  PROVE  LET new == [inputs EXCEPT !.axis = axis]
         IN  new \in DeviceInputs /\ new.axis = axis
               /\ new.hat = inputs.hat /\ new.pressed = inputs.pressed
  BY DEF DeviceInputs

LEMMA ValueSet ==
  ASSUME NEW inputs \in DeviceInputs, NEW axis \in AxisType, NEW value \in Axis,
         NEW new, new = set_value(inputs, axis, value)
  PROVE  /\ new \in DeviceInputs /\ new.hat = inputs.hat /\ new.pressed = inputs.pressed
         /\ new.axis[axis] = value
         /\ \A a \in AxisType : a # axis => new.axis[a] = inputs.axis[a]
  <1> DEFINE axes == [inputs.axis EXCEPT ![axis] = value]
  <1>1. inputs # None /\ inputs.axis \in [AxisType -> Axis]
    BY InputsTyped
  <1>2. new = [inputs EXCEPT !.axis[axis] = value]
    BY <1>1 DEF set_value
  <1>3. axes \in [AxisType -> Axis] /\ axes[axis] = value
        /\ \A a \in AxisType : a # axis => axes[a] = inputs.axis[a]
    BY <1>1
  <1>4. new = [inputs EXCEPT !.axis = axes]
    BY <1>2, Zenon
  <1> HIDE DEF axes
  <1>5. /\ new \in DeviceInputs /\ new.axis = axes
        /\ new.hat = inputs.hat /\ new.pressed = inputs.pressed
    BY <1>3, <1>4, AxesSet
  <1>6. QED
    BY <1>3, <1>5

LEMMA ButtonsTyped ==
  \A u \in DOMAIN ButtonOfUsage : ButtonOfUsage[u] \in ButtonType
  <1>1. DOMAIN ButtonOfUsage = 1..14
    BY DEF ButtonOfUsage
  <1>2. /\ ButtonOfUsage[1] = "West" /\ ButtonOfUsage[2] = "South"
        /\ ButtonOfUsage[3] = "East" /\ ButtonOfUsage[4] = "North"
        /\ ButtonOfUsage[5] = "L1" /\ ButtonOfUsage[6] = "R1"
        /\ ButtonOfUsage[7] = "L2" /\ ButtonOfUsage[8] = "R2"
        /\ ButtonOfUsage[9] = "Select" /\ ButtonOfUsage[10] = "Start"
        /\ ButtonOfUsage[11] = "L3" /\ ButtonOfUsage[12] = "R3"
        /\ ButtonOfUsage[13] = "Home" /\ ButtonOfUsage[14] = "Trackpad"
    BY DEF ButtonOfUsage
  <1>3. ASSUME NEW u \in 1..14 PROVE ButtonOfUsage[u] \in ButtonType
    <2>1. \/ u = 1 \/ u = 2 \/ u = 3 \/ u = 4 \/ u = 5 \/ u = 6 \/ u = 7
          \/ u = 8 \/ u = 9 \/ u = 10 \/ u = 11 \/ u = 12 \/ u = 13 \/ u = 14
      OBVIOUS
    <2>2. QED
      BY <1>2, <2>1 DEF ButtonType
  <1>4. QED
    BY <1>1, <1>3

(* The axes the usages set.                                                *)
LEMMA AxesOfUsages ==
  /\ AxisOfUsage["X"] = "LeftStickX" /\ AxisOfUsage["Y"] = "LeftStickY"
  /\ AxisOfUsage["Z"] = "RightStickX" /\ AxisOfUsage["RZ"] = "LeftStickY"
  /\ AxisOfUsage["RX"] = "LeftTrigger" /\ AxisOfUsage["RY"] = "RightTrigger"
  /\ \A u \in SticksAndTriggers : AxisOfUsage[u] \in AxisType
  /\ \A u \in SticksAndTriggers, v \in {"X", "Z", "RX"} :
       AxisOfUsage[u] = AxisOfUsage[v] => u = v
  <1>1. /\ AxisOfUsage["X"] = "LeftStickX" /\ AxisOfUsage["Y"] = "LeftStickY"
        /\ AxisOfUsage["Z"] = "RightStickX" /\ AxisOfUsage["RZ"] = "LeftStickY"
        /\ AxisOfUsage["RX"] = "LeftTrigger" /\ AxisOfUsage["RY"] = "RightTrigger"
    BY DEF AxisOfUsage
  <1>2. QED
    BY <1>1 DEF SticksAndTriggers, AxisType

LEMMA HatTyped == \A value : HatOf(value) \in Hat
  BY DEF HatOf, Hat

-----------------------------------------------------------------------------
(* What a report says of the capability i, and where it is after parsing.  *)
Bits(report, i) == get_usage_value(value_caps[i], report.values[i])

Position(report, i) ==
  unlerp(Bits(report, i), value_caps[i].LogicalMin, value_caps[i].LogicalMax)

(* The usages that have an axis to themselves.                             *)
Alone == {"X", "Z", "RX"}

ParsedUpto(report, k) ==
  LET parsed == Parsed(report)[k]
  IN  \/ parsed = None /\ \E i \in 1..k : value_caps[i].LogicalMin < 0
      \/ /\ parsed \in DeviceInputs
         /\ \A i \in 1..k : value_caps[i].Usage \in Alone =>
              /\ Position(report, i) \in Axis
              /\ parsed.axis[AxisOfUsage[value_caps[i].Usage]] = Position(report, i)
         /\ \A i \in 1..k : value_caps[i].Usage = "HAT" => parsed.hat = HatOf(Bits(report, i))
         /\ (\A i \in 1..k : value_caps[i].Usage # "HAT") => parsed.hat = "Neutral"

(* One value.                                                              *)
LEMMA OneValue ==
  ASSUME value_caps \in Capabilities, NEW report, NEW k \in 1..Len(value_caps),
         \A i \in 1..Len(value_caps) : report.values[i] \in LogicalValues(value_caps[i]),
         ParsedUpto(report, k - 1)
  PROVE  ParsedUpto(report, k)
  <1> DEFINE n == Len(value_caps)
             c == value_caps[k]
             before == Parsed(report)[k - 1]
             after == Parsed(report)[k]
             position == Position(report, k)
             axis == AxisOfUsage[c.Usage]
  <1>1. n \in Nat /\ Capability(c) /\ report.values[k] \in LogicalValues(c)
        /\ \A i, j \in 1..n : value_caps[i].Usage = value_caps[j].Usage => i = j
    BY CapsTyped
  <1>2. after = ParseValue(before, c, Bits(report, k))
    BY <1>1, ParsedInTurn DEF Bits
  <1>3. /\ \A i \in 1..(k - 1) : i \in 1..k /\ value_caps[i].Usage # c.Usage
        /\ \A i \in 1..k : i \in 1..(k - 1) \/ i = k
        /\ k \in 1..k
    <2>1. \A i \in 1..(k - 1) : i \in 1..n /\ i # k
      BY <1>1
    <2>2. QED
      BY <1>1, <2>1
  <1>4. c.Usage \in SticksAndTriggers => axis \in AxisType
    BY AxesOfUsages
  <1>5. c.Usage \in SticksAndTriggers /\ position \notin Axis => c.LogicalMin < 0
    BY <1>1, Unlerped DEF Position, Bits
  <1>6. /\ c.Usage \in SticksAndTriggers => after = set_value(before, axis, position)
        /\ c.Usage = "HAT" => after = IF before = None THEN None
                                      ELSE [before EXCEPT !.hat = HatOf(Bits(report, k))]
        /\ c.Usage \notin SticksAndTriggers \cup {"HAT"} => after = before
    BY <1>2 DEF ParseValue, Position, SticksAndTriggers
  <1>7. "HAT" \notin SticksAndTriggers /\ Alone \subseteq SticksAndTriggers
    BY DEF SticksAndTriggers, Alone
  <1>8. \/ before = None /\ \E i \in 1..(k - 1) : value_caps[i].LogicalMin < 0
        \/ /\ before \in DeviceInputs
           /\ \A i \in 1..(k - 1) : value_caps[i].Usage \in Alone =>
                /\ Position(report, i) \in Axis
                /\ before.axis[AxisOfUsage[value_caps[i].Usage]] = Position(report, i)
           /\ \A i \in 1..(k - 1) : value_caps[i].Usage = "HAT" =>
                before.hat = HatOf(Bits(report, i))
           /\ (\A i \in 1..(k - 1) : value_caps[i].Usage # "HAT") => before.hat = "Neutral"
    BY DEF ParsedUpto
  <1> HIDE DEF n, c, before, after, position, axis
  <1>9. CASE before = None
    <2>1. after = None
      BY <1>6, <1>9 DEF set_value
    <2>2. \E i \in 1..k : value_caps[i].LogicalMin < 0
      BY <1>3, <1>8, <1>9, InputsTyped
    <2>3. QED
      BY <2>1, <2>2 DEF ParsedUpto, after
  <1>10. CASE before # None /\ c.Usage \in SticksAndTriggers /\ position \notin Axis
    <2>1. after = None
      BY <1>6, <1>10 DEF set_value
    <2>2. \E i \in 1..k : value_caps[i].LogicalMin < 0
      BY <1>3, <1>5, <1>10 DEF c
    <2>3. QED
      BY <2>1, <2>2 DEF ParsedUpto, after
  <1>11. CASE before # None /\ c.Usage \in SticksAndTriggers /\ position \in Axis
    <2>1. before \in DeviceInputs
      BY <1>8, <1>11
    <2>2. /\ after \in DeviceInputs /\ after.hat = before.hat
          /\ after.axis[axis] = position
          /\ \A a \in AxisType : a # axis => after.axis[a] = before.axis[a]
      <3>1. axis \in AxisType /\ position \in Axis /\ after = set_value(before, axis, position)
        BY <1>4, <1>6, <1>11
      <3>2. QED
        BY <2>1, <3>1, ValueSet
    <2>3. ASSUME NEW i \in 1..k, value_caps[i].Usage \in Alone
          PROVE  /\ Position(report, i) \in Axis
                 /\ after.axis[AxisOfUsage[value_caps[i].Usage]] = Position(report, i)
      <3>1. CASE i = k
        BY <1>11, <2>2, <3>1 DEF position, axis, c
      <3>2. CASE i # k
        <4>1. i \in 1..(k - 1) /\ value_caps[i].Usage # c.Usage
          BY <1>3, <3>2
        <4>2. AxisOfUsage[value_caps[i].Usage] # axis
              /\ AxisOfUsage[value_caps[i].Usage] \in AxisType
          BY <1>7, <1>11, <2>3, <4>1, AxesOfUsages DEF axis, Alone
        <4>3. QED
          BY <1>8, <1>11, <2>2, <2>3, <4>1, <4>2
      <3>3. QED
        BY <3>1, <3>2
    <2>4. \A i \in 1..k : value_caps[i].Usage = "HAT" =>
            i \in 1..(k - 1) /\ after.hat = HatOf(Bits(report, i))
      BY <1>3, <1>7, <1>8, <1>11, <2>2 DEF c
    <2>5. (\A i \in 1..k : value_caps[i].Usage # "HAT") => after.hat = "Neutral"
      BY <1>3, <1>8, <1>11, <2>2
    <2>6. QED
      BY <2>2, <2>3, <2>4, <2>5 DEF ParsedUpto, after
  <1>12. CASE before # None /\ c.Usage = "HAT"
    <2>1. before \in DeviceInputs /\ after = [before EXCEPT !.hat = HatOf(Bits(report, k))]
      BY <1>6, <1>8, <1>12
    <2>2. after \in DeviceInputs /\ after.hat = HatOf(Bits(report, k))
          /\ after.axis = before.axis
      BY <2>1, HatSet, HatTyped
    <2>3. \A i \in 1..k : value_caps[i].Usage \in Alone =>
            /\ Position(report, i) \in Axis
            /\ after.axis[AxisOfUsage[value_caps[i].Usage]] = Position(report, i)
      BY <1>3, <1>7, <1>8, <1>12, <2>2 DEF c
    <2>4. \A i \in 1..k : value_caps[i].Usage = "HAT" => after.hat = HatOf(Bits(report, i))
      BY <1>3, <1>12, <2>2
    <2>5. ~\A i \in 1..k : value_caps[i].Usage # "HAT"
      BY <1>3, <1>12 DEF c
    <2>6. QED
      BY <2>2, <2>3, <2>4, <2>5 DEF ParsedUpto, after
  <1>13. CASE before # None /\ c.Usage \notin SticksAndTriggers \cup {"HAT"}
    <2>1. after = before /\ before \in DeviceInputs
      BY <1>6, <1>8, <1>13
    <2>2. \A i \in 1..k : value_caps[i].Usage \in Alone \cup {"HAT"} => i \in 1..(k - 1)
      BY <1>3, <1>7, <1>13 DEF c
    <2>3. QED
      BY <1>3, <1>8, <1>13, <2>1, <2>2 DEF ParsedUpto, after
  <1>14. QED
    BY <1>9, <1>10, <1>11, <1>12, <1>13

(* All of them.                                                            *)
LEMMA AllValues ==
  ASSUME value_caps \in Capabilities, NEW report,
         \A i \in 1..Len(value_caps) : report.values[i] \in LogicalValues(value_caps[i])
  PROVE  ParsedUpto(report, Len(value_caps))
  <1> DEFINE n == Len(value_caps)
             Bad == {k \in 0..n : ~ParsedUpto(report, k)}
  <1>1. n \in Nat
    BY CapsTyped
  <1>2. ParsedUpto(report, 0)
    <2> DEFINE buttons == {ButtonOfUsage[u] : u \in report.buttons \cap DOMAIN ButtonOfUsage}
    <2>1. buttons \in SUBSET ButtonType
      BY ButtonsTyped
    <2>2. Parsed(report)[0] = [NeutralInputs EXCEPT !.pressed = buttons]
      BY <1>1, ParsedInTurn
    <2> HIDE DEF buttons
    <2>3. Parsed(report)[0] \in DeviceInputs /\ Parsed(report)[0].hat = "Neutral"
      BY <2>1, <2>2, NeutralTyped, PressedSet, SMTT(40)
    <2>4. QED
      BY <2>3 DEF ParsedUpto
  <1>3. ASSUME NEW k \in 1..n, ParsedUpto(report, k - 1) PROVE ParsedUpto(report, k)
    BY <1>3, OneValue
  <1> HIDE DEF n
  <1>4. Bad = {}
    <2> SUFFICES ASSUME Bad # {} PROVE FALSE
      OBVIOUS
    <2>1. Bad \in SUBSET Nat
      OBVIOUS
    <2>2. PICK k \in Bad : \A i \in Bad : k <= i
      BY <2>1, LeastElement
    <2>3. k \in 1..n /\ k - 1 \in 0..n /\ ~(k <= k - 1)
      BY <1>1, <1>2, <2>2
    <2>4. QED
      BY <1>3, <2>2, <2>3
  <1>5. QED
    BY <1>1, <1>4 DEF n

-----------------------------------------------------------------------------
(* What mangle_inputs does to the left stick, and to nothing else.         *)
LEMMA Mangled ==
  ASSUME config \in Configs, NEW inputs \in DeviceInputs,
         NEW new, new = mangle_inputs(inputs)
  PROVE  /\ new \in DeviceInputs /\ new.hat = inputs.hat /\ new.pressed = inputs.pressed
         /\ \A a \in AxisType \ LeftStick : new.axis[a] = inputs.axis[a]
         /\ \A a \in LeftStick :
              LET stick == IF config.dpad_override /\ inputs.hat # "Neutral"
                           THEN Centre ELSE inputs.axis[a]
              IN  new.axis[a] = IF config.deadzone = None THEN stick
                                ELSE Snapped(stick, config.deadzone)
  <1> DEFINE stick(a) == IF config.dpad_override /\ inputs.hat # "Neutral"
                         THEN Centre ELSE inputs.axis[a]
             snap(value) == IF config.deadzone = None THEN value
                            ELSE Snapped(value, config.deadzone)
             axes == [a \in AxisType |-> IF a \in LeftStick THEN snap(stick(a))
                                         ELSE inputs.axis[a]]
  <1>1. \A a \in AxisType : inputs.axis[a] \in Axis
    BY InputsTyped
  <1>2. Centre \in Axis /\ 0 \in Axis /\ Scale \in Axis
    BY ScaleTyped
  <1>3. \A value \in Axis : snap(value) \in Axis
    BY <1>2 DEF Snapped
  <1>4. \A a \in AxisType : stick(a) \in Axis
    BY <1>1, <1>2
  <1>5. new = [inputs EXCEPT !.axis = axes]
    BY Zenon DEF mangle_inputs
  <1> HIDE DEF stick, snap
  <1>6. axes \in [AxisType -> Axis]
    BY <1>1, <1>3, <1>4
  <1>7. /\ \A a \in AxisType \ LeftStick : axes[a] = inputs.axis[a]
        /\ \A a \in LeftStick : a \in AxisType /\ axes[a] = snap(stick(a))
    BY DEF LeftStick, AxisType
  <1> HIDE DEF axes
  <1>8. /\ new \in DeviceInputs /\ new.axis = axes
        /\ new.hat = inputs.hat /\ new.pressed = inputs.pressed
    BY <1>5, <1>6, AxesSet
  <1>9. QED
    BY <1>7, <1>8 DEF stick, snap

(* The arrows of a pad go through the hat and come out again, without      *)
(* opposite ones.                                                          *)
LEMMA ArrowsThrough ==
  ASSUME NEW arrows
  PROVE  /\ HatOfArrows(arrows) \in Hat
         /\ LET out == ArrowsOfHat(HatOfArrows(arrows))
            IN  /\ "up" \in out <=> "up" \in arrows /\ "down" \notin arrows
                /\ "down" \in out <=> "down" \in arrows /\ "up" \notin arrows
                /\ "left" \in out <=> "left" \in arrows /\ "right" \notin arrows
                /\ "right" \in out <=> "right" \in arrows /\ "left" \notin arrows
  <1> DEFINE across == Towards(arrows, "right", "left")
             down == Towards(arrows, "down", "up")
             hat == HatOfArrows(arrows)
  <1>1. /\ across \in {-1, 0, 1} /\ down \in {-1, 0, 1}
        /\ across = 1 <=> "right" \in arrows /\ "left" \notin arrows
        /\ across = -1 <=> "left" \in arrows /\ "right" \notin arrows
        /\ down = 1 <=> "down" \in arrows /\ "up" \notin arrows
        /\ down = -1 <=> "up" \in arrows /\ "down" \notin arrows
    BY DEF Towards
  <1>2. hat = CASE across = -1 -> <<"NorthWest", "West", "SouthWest">>[2 + down]
                [] across = 0 -> <<"North", "Neutral", "South">>[2 + down]
                [] across = 1 -> <<"NorthEast", "East", "SouthEast">>[2 + down]
    BY DEF HatOfArrows
  <1>3. 2 + (-1) = 1 /\ 2 + 0 = 2 /\ 2 + 1 = 3
    OBVIOUS
  <1> HIDE DEF across, down, hat
  <1>4. /\ across = -1 /\ down = -1 => hat = "NorthWest"
        /\ across = -1 /\ down = 0 => hat = "West"
        /\ across = -1 /\ down = 1 => hat = "SouthWest"
        /\ across = 0 /\ down = -1 => hat = "North"
        /\ across = 0 /\ down = 0 => hat = "Neutral"
        /\ across = 0 /\ down = 1 => hat = "South"
        /\ across = 1 /\ down = -1 => hat = "NorthEast"
        /\ across = 1 /\ down = 0 => hat = "East"
        /\ across = 1 /\ down = 1 => hat = "SouthEast"
    BY <1>2, <1>3
  <1>5. hat \in Hat
    <2>1. \A i \in 1..8 : Clockwise[i] \in Hat
      BY DEF Hat
    <2>2. {"North", "NorthEast", "East", "SouthEast", "South", "SouthWest", "West",
           "NorthWest", "Neutral"} \subseteq Hat
      <3>1. /\ Clockwise[1] = "North" /\ Clockwise[2] = "NorthEast"
            /\ Clockwise[3] = "East" /\ Clockwise[4] = "SouthEast"
            /\ Clockwise[5] = "South" /\ Clockwise[6] = "SouthWest"
            /\ Clockwise[7] = "West" /\ Clockwise[8] = "NorthWest"
        BY DEF Clockwise
      <3>2. /\ 1 \in 1..8 /\ 2 \in 1..8 /\ 3 \in 1..8 /\ 4 \in 1..8
            /\ 5 \in 1..8 /\ 6 \in 1..8 /\ 7 \in 1..8 /\ 8 \in 1..8
        OBVIOUS
      <3>3. "Neutral" \in Hat
        BY DEF Hat
      <3>4. QED
        BY <2>1, <3>1, <3>2, <3>3
    <2>3. QED
      BY <1>1, <1>4, <2>2
  <1>6. /\ "up" \in ArrowsOfHat(hat) <=> hat \in {"NorthWest", "North", "NorthEast"}
        /\ "down" \in ArrowsOfHat(hat) <=> hat \in {"SouthEast", "South", "SouthWest"}
        /\ "left" \in ArrowsOfHat(hat) <=> hat \in {"SouthWest", "West", "NorthWest"}
        /\ "right" \in ArrowsOfHat(hat) <=> hat \in {"NorthEast", "East", "SouthEast"}
    BY DEF ArrowsOfHat
  <1>7. QED
    BY <1>1, <1>4, <1>5, <1>6 DEF hat

(* What reading a pad makes of its state.                                  *)
LEMMA PadRead ==
  ASSUME NEW pad \in Pads
  PROVE  LET new == InputsOfPad(pad)
         IN  /\ new \in DeviceInputs /\ new.pressed = pad.buttons
             /\ new.hat = HatOfArrows(pad.arrows)
             /\ new.axis["LeftStickX"] = left_stick_normalized[pad.left][1] + Centre
             /\ new.axis["LeftStickY"] = Centre - left_stick_normalized[pad.left][2]
             /\ new.axis["RightStickX"] = right_stick_normalized[pad.right][1] + Centre
             /\ new.axis["RightStickY"] = Centre - right_stick_normalized[pad.right][2]
             /\ left_stick_normalized[pad.left] \in Normalized \X Normalized
             /\ right_stick_normalized[pad.right] \in Normalized \X Normalized
  <1> DEFINE buttons == pad.buttons \cap PadButtons
             hat == HatOfArrows(pad.arrows)
             one == [NeutralInputs EXCEPT !.pressed = buttons]
             read == [one EXCEPT !.hat = hat]
             left == left_stick_normalized[pad.left]
             right == right_stick_normalized[pad.right]
             lx == left[1] + Centre
             ly == Centre - left[2]
             rx == right[1] + Centre
             ry == Centre - right[2]
             s1 == set_value(read, "LeftStickX", lx)
             s2 == set_value(s1, "LeftStickY", ly)
             s3 == set_value(s2, "RightStickX", rx)
             s4 == set_value(s3, "RightStickY", ry)
  <1>1. pad \in PadStates
    BY InputPathAssumption
  <1>2. /\ pad.buttons \in SUBSET PadButtons
        /\ left \in Normalized \X Normalized /\ right \in Normalized \X Normalized
    BY <1>1, InputPathAssumption DEF PadStates
  <1>3. left[1] \in Normalized /\ left[2] \in Normalized
        /\ right[1] \in Normalized /\ right[2] \in Normalized
    BY <1>2
  <1>4. lx \in Axis /\ ly \in Axis /\ rx \in Axis /\ ry \in Axis
    <2>1. \A v \in Normalized : v + Centre \in Axis /\ Centre - v \in Axis
      BY ScaleTyped DEF Normalized
    <2> HIDE DEF left, right
    <2>2. QED
      BY <1>3, <2>1
  <1>5. buttons \in SUBSET ButtonType /\ buttons = pad.buttons
    BY <1>2 DEF PadButtons, ButtonType
  <1>6. InputsOfPad(pad) = s4
    <2>1. FromNormalized(left) = <<lx, ly>> /\ FromNormalized(right) = <<rx, ry>>
      BY DEF FromNormalized
    <2>2. <<lx, ly>>[1] = lx /\ <<lx, ly>>[2] = ly /\ <<rx, ry>>[1] = rx /\ <<rx, ry>>[2] = ry
      OBVIOUS
    <2>3. [NeutralInputs EXCEPT !.pressed = buttons, !.hat = hat] = read
      OBVIOUS
    <2>4. InputsOfPad(pad) =
            set_value(set_value(set_value(set_value(
              [NeutralInputs EXCEPT !.pressed = buttons, !.hat = hat],
              "LeftStickX", <<lx, ly>>[1]), "LeftStickY", <<lx, ly>>[2]),
              "RightStickX", <<rx, ry>>[1]), "RightStickY", <<rx, ry>>[2])
      BY <2>1, Zenon DEF InputsOfPad
    <2> HIDE DEF lx, ly, rx, ry, read
    <2>5. QED
      BY <2>2, <2>3, <2>4, Zenon
  <1> HIDE DEF buttons, hat, lx, ly, rx, ry, left, right
  <1>7. one \in DeviceInputs /\ one.pressed = buttons
    BY <1>5, NeutralTyped, PressedSet
  <1> HIDE DEF one
  <1>8. read \in DeviceInputs /\ read.pressed = buttons /\ read.hat = hat
    BY <1>7, ArrowsThrough, HatSet DEF hat
  <1>9. /\ "LeftStickX" \in AxisType /\ "LeftStickY" \in AxisType
        /\ "RightStickX" \in AxisType /\ "RightStickY" \in AxisType
    BY DEF AxisType
  <1>10. s1 = set_value(read, "LeftStickX", lx)
    OBVIOUS
  <1> HIDE DEF read, s1
  <1>11. s1 \in DeviceInputs /\ s1.pressed = buttons /\ s1.hat = hat
         /\ s1.axis["LeftStickX"] = lx
    <2>1. read \in DeviceInputs /\ "LeftStickX" \in AxisType /\ lx \in Axis
          /\ s1 = set_value(read, "LeftStickX", lx)
      BY <1>4, <1>8, <1>9, <1>10
    <2>2. /\ s1 \in DeviceInputs /\ s1.hat = read.hat /\ s1.pressed = read.pressed
          /\ s1.axis["LeftStickX"] = lx
          /\ \A a \in AxisType : a # "LeftStickX" => s1.axis[a] = read.axis[a]
      BY <2>1, ValueSet
    <2>3. QED
      BY <1>8, <1>9, <2>2
  <1>12. s2 = set_value(s1, "LeftStickY", ly)
    OBVIOUS
  <1> HIDE DEF s2
  <1>13. s2 \in DeviceInputs /\ s2.pressed = buttons /\ s2.hat = hat
         /\ s2.axis["LeftStickX"] = lx /\ s2.axis["LeftStickY"] = ly
    <2>1. s1 \in DeviceInputs /\ "LeftStickY" \in AxisType /\ ly \in Axis
          /\ s2 = set_value(s1, "LeftStickY", ly)
      BY <1>4, <1>11, <1>9, <1>12
    <2>2. /\ s2 \in DeviceInputs /\ s2.hat = s1.hat /\ s2.pressed = s1.pressed
          /\ s2.axis["LeftStickY"] = ly
          /\ \A a \in AxisType : a # "LeftStickY" => s2.axis[a] = s1.axis[a]
      BY <2>1, ValueSet
    <2>3. QED
      BY <1>11, <1>9, <2>2
  <1>14. s3 = set_value(s2, "RightStickX", rx)
    OBVIOUS
  <1> HIDE DEF s3
  <1>15. s3 \in DeviceInputs /\ s3.pressed = buttons /\ s3.hat = hat
         /\ s3.axis["LeftStickX"] = lx /\ s3.axis["LeftStickY"] = ly
         /\ s3.axis["RightStickX"] = rx
    <2>1. s2 \in DeviceInputs /\ "RightStickX" \in AxisType /\ rx \in Axis
          /\ s3 = set_value(s2, "RightStickX", rx)
      BY <1>4, <1>13, <1>9, <1>14
    <2>2. /\ s3 \in DeviceInputs /\ s3.hat = s2.hat /\ s3.pressed = s2.pressed
          /\ s3.axis["RightStickX"] = rx
          /\ \A a \in AxisType : a # "RightStickX" => s3.axis[a] = s2.axis[a]
      BY <2>1, ValueSet
    <2>3. QED
      BY <1>13, <1>9, <2>2
  <1>16. s4 = set_value(s3, "RightStickY", ry)
    OBVIOUS
  <1> HIDE DEF s4
  <1>17. s4 \in DeviceInputs /\ s4.pressed = buttons /\ s4.hat = hat
         /\ s4.axis["LeftStickX"] = lx /\ s4.axis["LeftStickY"] = ly
         /\ s4.axis["RightStickX"] = rx /\ s4.axis["RightStickY"] = ry
    <2>1. s3 \in DeviceInputs /\ "RightStickY" \in AxisType /\ ry \in Axis
          /\ s4 = set_value(s3, "RightStickY", ry)
      BY <1>4, <1>15, <1>9, <1>16
    <2>2. /\ s4 \in DeviceInputs /\ s4.hat = s3.hat /\ s4.pressed = s3.pressed
          /\ s4.axis["RightStickY"] = ry
          /\ \A a \in AxisType : a # "RightStickY" => s4.axis[a] = s3.axis[a]
      BY <2>1, ValueSet
    <2>3. QED
      BY <1>15, <1>9, <2>2
  <1>18. QED
    BY <1>2, <1>5, <1>6, <1>17 DEF hat, lx, ly, rx, ry, left, right

-----------------------------------------------------------------------------
(* The invariant: the buffer is what the configuration makes of what the   *)
(* controller said last, unless a panic ended the process, and that        *)
(* happens only to a controller whose range has negative values.           *)
ReportFits(report) ==
  \A i \in 1..Len(value_caps) : report.values[i] \in LogicalValues(value_caps[i])

Heard ==
  /\ ~aborted /\ physical # None /\ ~IsXInput =>
       /\ ReportFits(physical)
       /\ parse_ps4(physical) # None
       /\ buffer = mangle_inputs(parse_ps4(physical))
  /\ ~aborted /\ physical # None /\ IsXInput =>
       physical \in Pads /\ buffer = InputsOfPad(physical)

IInv ==
  /\ config \in Configs
  /\ value_caps \in Capabilities \cup {<<>>}
  /\ buffer \in DeviceInputs
  /\ aborted \in BOOLEAN
  /\ aborted => \E cap \in Range(value_caps) : cap.LogicalMin < 0
  /\ Heard
  /\ gamepad # None => gamepad = GamepadOf(buffer)

(* A report that parses is one of the controller's, and it is parsed, or   *)
(* the process ends because of a negative value.                           *)
LEMMA ReportParsed ==
  ASSUME value_caps \in Capabilities, NEW report \in Reports(value_caps), Parsable(report)
  PROVE  /\ ReportFits(report)
         /\ parse_ps4(report) = None => \E cap \in Range(value_caps) : cap.LogicalMin < 0
         /\ parse_ps4(report) # None => parse_ps4(report) \in DeviceInputs
  <1>1. report # AnotherReport
    BY DEF Parsable, AnotherReport
  <1>2. DOMAIN value_caps = 1..Len(value_caps) /\ Len(value_caps) \in Nat
    BY CapsTyped
  <1>3. PICK v \in {w \in [DOMAIN value_caps ->
                            UNION {LogicalValues(value_caps[i]) : i \in DOMAIN value_caps}] :
                      \A i \in DOMAIN value_caps : w[i] \in LogicalValues(value_caps[i])} :
          \E b \in Pressed : report = [id |-> "input", buttons |-> b, values |-> v]
    BY <1>1 DEF Reports
  <1>4. report.values = v
    BY <1>3
  <1>5. ReportFits(report)
    BY <1>2, <1>3, <1>4 DEF ReportFits
  <1>6. ParsedUpto(report, Len(value_caps))
    BY <1>5, AllValues DEF ReportFits
  <1>7. parse_ps4(report) = None \/ parse_ps4(report) \in DeviceInputs
    BY <1>6 DEF ParsedUpto, parse_ps4
  <1>8. parse_ps4(report) = None => \E i \in 1..Len(value_caps) : value_caps[i].LogicalMin < 0
    BY <1>6, InputsTyped DEF ParsedUpto, parse_ps4
  <1>9. \A i \in 1..Len(value_caps) : value_caps[i] \in Range(value_caps)
    BY <1>2 DEF Range
  <1>10. QED
    BY <1>5, <1>7, <1>8, <1>9

(* The last report of a message that parses.                               *)
LEMMA LastOne ==
  ASSUME NEW caps, NEW message \in Messages(caps), LastParsable(message) # None
  PROVE  \E i \in DOMAIN message :
           /\ LastParsable(message) = message[i] /\ Parsable(message[i])
           /\ message[i] \in Reports(caps)
  <1> DEFINE parsable == {i \in DOMAIN message : Parsable(message[i])}
  <1>1. PICK n \in 1..MaxReports : message \in [1..n -> Reports(caps)]
    BY DEF Messages
  <1>2. n \in Nat /\ DOMAIN message = 1..n /\ \A i \in 1..n : message[i] \in Reports(caps)
    BY <1>1
  <1>3. /\ parsable # {} => LastParsable(message) = message[Max(parsable)]
        /\ parsable = {} => LastParsable(message) = None
    BY DEF LastParsable
  <1>4. parsable # {} /\ parsable \in SUBSET (1..n)
    BY <1>2, <1>3
  <1> HIDE DEF parsable
  <1>5. Max(parsable) \in parsable
    BY <1>2, <1>4, LastIndex
  <1>6. QED
    BY <1>2, <1>3, <1>4, <1>5 DEF parsable

(* What does not look at anything but the capabilities and the             *)
(* configuration stays as it is with them.                                 *)
LEMMA SameMeaning ==
  ASSUME UNCHANGED <<config, value_caps>>, NEW x
  PROVE  /\ parse_ps4(x)' = parse_ps4(x) /\ mangle_inputs(x)' = mangle_inputs(x)
         /\ ReportFits(x)' <=> ReportFits(x)
         /\ IsXInput' <=> IsXInput
         /\ Range(value_caps)' = Range(value_caps)
  <1>1. parse_ps4(x)' = parse_ps4(x)
    BY DEF parse_ps4, Parsed, ParseValue
  <1>2. mangle_inputs(x)' = mangle_inputs(x)
    BY DEF mangle_inputs
  <1>3. QED
    BY <1>1, <1>2 DEF ReportFits, IsXInput, Range

LEMMA InitIInv == Init => IInv
  BY NeutralTyped DEF Init, IInv, Heard, IsXInput

(* One WM_INPUT of a HID controller.                                       *)
LEMMA HandleInputIInv ==
  ASSUME IInv, ~aborted, NEW message \in Messages(value_caps), handle_input(message)
  PROVE  IInv'
  <1>1. value_caps \in Capabilities /\ ~IsXInput
    BY DEF IInv, handle_input, IsXInput
  <1>2. UNCHANGED <<config, value_caps>> /\ gamepad' = None
        /\ physical' = LastParsable(message)
    BY DEF handle_input
  <1>3. /\ ~IsXInput' /\ Range(value_caps)' = Range(value_caps)
        /\ config' \in Configs /\ value_caps' \in Capabilities \cup {<<>>}
    BY <1>1, <1>2, SameMeaning DEF IInv
  <1>4. CASE Panics(message)
    <2>1. aborted' = TRUE /\ buffer' = buffer
      BY <1>4 DEF handle_input
    <2>2. PICK i \in DOMAIN message : Parsable(message[i]) /\ parse_ps4(message[i]) = None
      BY <1>4 DEF Panics
    <2>3. message[i] \in Reports(value_caps)
      BY DEF Messages
    <2>4. \E cap \in Range(value_caps) : cap.LogicalMin < 0
      BY <1>1, <2>2, <2>3, ReportParsed
    <2>5. Heard'
      BY <2>1 DEF Heard
    <2>6. QED
      BY <1>2, <1>3, <2>1, <2>4, <2>5 DEF IInv
  <1>5. CASE ~Panics(message)
    <2> DEFINE inputs == WhatCounts(message)
    <2>1. aborted' = FALSE /\ buffer' = mangle_inputs(inputs)
      BY <1>5 DEF handle_input, IInv
    <2>2. CASE LastParsable(message) = None
      <3>1. inputs \in DeviceInputs
        BY <2>2, NeutralTyped DEF WhatCounts
      <3>2. mangle_inputs(inputs) \in DeviceInputs
        BY <3>1, Mangled DEF IInv
      <3>3. Heard'
        BY <1>2, <2>2 DEF Heard
      <3>4. QED
        BY <1>2, <1>3, <2>1, <3>2, <3>3 DEF IInv
    <2>3. CASE LastParsable(message) # None
      <3> DEFINE last == LastParsable(message)
      <3>1. /\ last \in Reports(value_caps) /\ Parsable(last) /\ parse_ps4(last) # None
            /\ inputs = parse_ps4(last)
        <4>1. PICK i \in DOMAIN message : last = message[i] /\ Parsable(message[i])
                                          /\ message[i] \in Reports(value_caps)
          BY <2>3, LastOne
        <4>2. parse_ps4(message[i]) # None
          BY <1>5, <4>1 DEF Panics
        <4>3. QED
          BY <2>3, <4>1, <4>2 DEF WhatCounts
      <3> HIDE DEF last, inputs
      <3>2. parse_ps4(last) \in DeviceInputs /\ ReportFits(last)
        BY <1>1, <3>1, ReportParsed
      <3>3. mangle_inputs(inputs) \in DeviceInputs
        BY <3>1, <3>2, Mangled DEF IInv
      <3>4. \A x : /\ parse_ps4(x)' = parse_ps4(x) /\ mangle_inputs(x)' = mangle_inputs(x)
                   /\ ReportFits(x)' <=> ReportFits(x)
        BY <1>2, SameMeaning
      <3>5. Heard'
        <4>1. physical' = last
          BY <1>2 DEF last
        <4>2. /\ ReportFits(physical)' /\ parse_ps4(physical)' # None
              /\ buffer' = mangle_inputs(parse_ps4(physical))'
          BY <2>1, <3>1, <3>2, <3>4, <4>1
        <4>3. QED
          BY <1>3, <4>2 DEF Heard
      <3>6. QED
        BY <1>2, <1>3, <2>1, <3>3, <3>5 DEF IInv
    <2>4. QED
      BY <2>2, <2>3
  <1>6. QED
    BY <1>4, <1>5

(* One poll of an XInput controller.                                       *)
LEMMA ReadXInputIInv ==
  ASSUME IInv, ~aborted, NEW pad \in Pads, read_xinput(pad)
  PROVE  IInv'
  <1>1. InputsOfPad(pad) \in DeviceInputs /\ InputsOfPad(pad) # None
    BY PadRead, InputsTyped
  <1>2. /\ UNCHANGED <<config, value_caps>> /\ gamepad' = None /\ physical' = pad
        /\ buffer' = InputsOfPad(pad) /\ aborted' = FALSE /\ IsXInput
    BY <1>1 DEF read_xinput, IInv
  <1>3. IsXInput'
    BY <1>2, SameMeaning
  <1>4. Heard'
    BY <1>2, <1>3 DEF Heard
  <1>5. QED
    BY <1>1, <1>2, <1>4 DEF IInv

(* A look at the controller, and a step that changes nothing.              *)
LEMMA RestIInv ==
  ASSUME IInv, UNCHANGED <<config, value_caps, physical, buffer, aborted>>,
         gamepad' = gamepad \/ gamepad' = GamepadOf(buffer)
  PROVE  IInv'
  <1>1. Heard'
    <2>1. /\ IsXInput' <=> IsXInput
          /\ Range(value_caps)' = Range(value_caps)
          /\ ReportFits(physical)' <=> ReportFits(physical)
          /\ parse_ps4(physical)' = parse_ps4(physical)
          /\ mangle_inputs(parse_ps4(physical))' = mangle_inputs(parse_ps4(physical))
      BY SameMeaning
    <2>2. QED
      BY <2>1 DEF IInv, Heard
  <1>2. Range(value_caps)' = Range(value_caps)
    BY DEF Range
  <1>3. QED
    BY <1>1, <1>2 DEF IInv

LEMMA NextIInv == IInv /\ [Next]_vars => IInv'
  <1> SUFFICES ASSUME IInv, [Next]_vars PROVE IInv'
    OBVIOUS
  <1>1. CASE ~aborted /\ \E message \in Messages(value_caps) : handle_input(message)
    BY <1>1, HandleInputIInv
  <1>2. CASE ~aborted /\ \E pad \in Pads : read_xinput(pad)
    BY <1>2, ReadXInputIInv
  <1>3. CASE GetState
    BY <1>3, RestIInv DEF GetState
  <1>4. CASE UNCHANGED vars
    BY <1>4, RestIInv DEF vars
  <1>5. QED
    BY <1>1, <1>2, <1>3, <1>4 DEF Next, Stopped

LEMMA Invariance == Spec => []IInv
  BY InitIInv, NextIInv, PTL DEF Spec

-----------------------------------------------------------------------------
(* A quotient is bounded, and exact for a multiple.                        *)
LEMMA Quotient ==
  ASSUME NEW a \in Nat, NEW b \in Nat, NEW d \in Nat, d > 0, a <= b * d
  PROVE  a \div d \in 0..b
  <1> DEFINE q == a \div d
             r == a % d
  <1>1. q \in Nat /\ r \in Nat /\ r < d /\ a = q * d + r
    OBVIOUS
  <1> HIDE DEF q, r
  <1>2. CASE q > b
    <2>1. (b + 1) * d <= q * d
      BY <1>1, <1>2, Times
    <2>2. (b + 1) * d = b * d + d
      OBVIOUS
    <2>3. b * d \in Nat /\ q * d \in Nat
      BY <1>1
    <2> QED
      BY <1>1, <2>1, <2>2, <2>3
  <1>3. QED
    BY <1>1, <1>2 DEF q

LEMMA Exact ==
  ASSUME NEW q \in Nat, NEW d \in Nat, d > 0
  PROVE  (q * d) \div d = q
  <1> DEFINE a == q * d
             p == a \div d
             r == a % d
  <1>1. a \in Nat /\ p \in Nat /\ r \in Nat /\ r < d /\ a = p * d + r
    OBVIOUS
  <1>2. p \in 0..q
    BY <1>1, Quotient
  <1> HIDE DEF p, r
  <1>3. CASE p < q
    <2>1. (p + 1) * d <= q * d
      BY <1>1, <1>3, Times
    <2>2. (p + 1) * d = p * d + d /\ p * d \in Nat
      BY <1>1
    <2> QED
      BY <1>1, <2>1, <2>2
  <1>4. QED
    BY <1>1, <1>2, <1>3 DEF p

(* What becomes of an axis on the game's scale.                            *)
Across(part) == Clamp(65536 * part - 32768 * Scale)

Upward(part) == Clamp(32768 * Scale - 65536 * part)

(* What the game sees of the inputs of a buffer.                           *)
LEMMA GamepadShows ==
  ASSUME NEW inputs \in DeviceInputs, NEW new, new = GamepadOf(inputs)
  PROVE  /\ new.wButtons = inputs.pressed \cap GamepadButtons
         /\ new.arrows = ArrowsOfHat(inputs.hat)
         /\ new.bLeftTrigger = (inputs.axis["LeftTrigger"] * 255) \div Scale
         /\ new.bRightTrigger = (inputs.axis["RightTrigger"] * 255) \div Scale
         /\ new.sThumbLX = Across(inputs.axis["LeftStickX"])
         /\ new.sThumbLY = Upward(inputs.axis["LeftStickY"])
         /\ new.sThumbRX = Across(inputs.axis["RightStickX"])
         /\ new.sThumbRY = Upward(inputs.axis["RightStickY"])
         /\ \A a \in {"LeftStickX", "LeftStickY", "RightStickX", "RightStickY",
                      "LeftTrigger", "RightTrigger"} : inputs.axis[a] \in 0..Scale
  <1>1. \A a \in AxisType : inputs.axis[a] \in Axis
    BY InputsTyped
  <1>2. \A a \in AxisType : inputs.axis[a] \in 0..Scale
    BY <1>1 DEF Axis
  <1>3. /\ new.wButtons = inputs.pressed \cap GamepadButtons
        /\ new.arrows = ArrowsOfHat(inputs.hat)
        /\ new.bLeftTrigger = (inputs.axis["LeftTrigger"] * 255) \div Scale
        /\ new.bRightTrigger = (inputs.axis["RightTrigger"] * 255) \div Scale
    BY SMTT(60) DEF GamepadOf
  <1>4. /\ new.sThumbLX = Across(inputs.axis["LeftStickX"])
        /\ new.sThumbLY = Upward(inputs.axis["LeftStickY"])
        /\ new.sThumbRX = Across(inputs.axis["RightStickX"])
        /\ new.sThumbRY = Upward(inputs.axis["RightStickY"])
    BY SMTT(60) DEF GamepadOf, Across, Upward
  <1>5. QED
    BY <1>2, <1>3, <1>4, SMT DEF AxisType

LEMMA InShorts ==
  ASSUME NEW x \in Int
  PROVE  x \in Shorts <=> -32768 <= x /\ x <= 32767
  <1>1. \A low, high \in Int : x \in low..high <=> low <= x /\ x <= high
    OBVIOUS
  <1> DEFINE low == -32768
             high == 32767
  <1>2. low \in Int /\ high \in Int
    OBVIOUS
  <1> HIDE DEF low, high
  <1>3. x \in low..high <=> low <= x /\ x <= high
    BY <1>1, <1>2
  <1>4. Shorts = low..high
    BY DEF low, high, Shorts
  <1>5. x \in Shorts <=> low <= x /\ x <= high
    BY <1>3, <1>4
  <1>6. low <= x /\ x <= high <=> -32768 <= x /\ x <= 32767
    BY DEF low, high
  <1>7. QED
    BY <1>5, <1>6

(* A quotient, rounded down, is less than one away from what it rounds.    *)
LEMMA RoundedDown ==
  ASSUME NEW n \in Nat
  PROVE  /\ n \div Scale \in Nat
         /\ (n \div Scale) * Scale <= n /\ n < (n \div Scale) * Scale + Scale
  <1>1. /\ n \div Scale \in Nat /\ n % Scale \in Nat /\ n % Scale < Scale
        /\ n = (n \div Scale) * Scale + (n % Scale)
    BY ScaleTyped
  <1> DEFINE q == n \div Scale
             r == n % Scale
  <1>2. q * Scale \in Nat
    BY <1>1, ScaleTyped
  <1> HIDE DEF q, r
  <1>3. QED
    BY <1>1, <1>2, ScaleTyped DEF q, r

(* A quotient of what is at most b whole ones is at most b.                *)
LEMMA AtMost ==
  ASSUME NEW b \in Nat, NEW n \in Nat, n <= b * Scale
  PROVE  n \div Scale <= b
  <1>1. n \div Scale \in 0..b
    BY ScaleTyped, Quotient
  <1>2. QED
    BY <1>1

(* An end is an end, the centre the centre, and nothing is moved by more   *)
(* than one step.                                                          *)
LEMMA Clamped ==
  ASSUME NEW n \in Int
  PROVE  /\ Clamp(n) \in Shorts
         /\ n = 0 => Clamp(n) = 0
         /\ n = 32768 * Scale => Clamp(n) = 32767
         /\ n = -32768 * Scale => Clamp(n) = -32768
         /\ n <= 32768 * Scale /\ n >= -32768 * Scale =>
              Clamp(n) * Scale - n \in (-Scale)..Scale
  <1> DEFINE c == Clamp(n)
  <1>1. CASE n > 32767 * Scale
    <2>1. c = 32767
      BY <1>1 DEF Clamp
    <2>2. QED
      BY <1>1, <2>1, InShorts, ScaleTyped, SMT
  <1>2. CASE n < -32768 * Scale
    <2>1. c = -32768
      BY <1>2, ScaleTyped, SMT DEF Clamp
    <2>2. QED
      BY <1>2, <2>1, InShorts, ScaleTyped, SMT
  <1>3. CASE n >= 0 /\ n <= 32767 * Scale
    <2> DEFINE q == n \div Scale
    <2>1. c = q
      BY <1>3, ScaleTyped, SMT DEF Clamp, Truncated
    <2>2. q \in Nat /\ q * Scale <= n /\ n < q * Scale + Scale
      BY <1>3, RoundedDown
    <2>3. q <= 32767
      BY <1>3, AtMost
    <2>4. n = 0 => q = 0
      <3>1. n = 0 => q <= 0
        BY ScaleTyped, AtMost
      <3>2. QED
        BY <2>2, <3>1
    <2> HIDE DEF c, q
    <2>5. q * Scale \in Int
      BY <2>2, ScaleTyped
    <2>6. c * Scale - n \in (-Scale)..Scale
      BY <2>1, <2>2, <2>5, ScaleTyped
    <2>7. c \in Shorts
      BY <2>1, <2>2, <2>3, InShorts, SMT
    <2>8. n # 32768 * Scale /\ n # -32768 * Scale
      BY <1>3, ScaleTyped, SMT
    <2>9. QED
      BY <2>1, <2>4, <2>6, <2>7, <2>8 DEF c
  <1>4. CASE n < 0 /\ n >= -32768 * Scale
    <2> DEFINE m == -n
               q == m \div Scale
    <2>1. c = -q
      BY <1>4, ScaleTyped, SMT DEF Clamp, Truncated
    <2>2. m \in Nat /\ m <= 32768 * Scale /\ n = -m
      BY <1>4, ScaleTyped, SMT
    <2>3. q \in Nat /\ q * Scale <= m /\ m < q * Scale + Scale
      BY <2>2, RoundedDown
    <2>4. q <= 32768
      BY <2>2, AtMost
    <2>5. m = 32768 * Scale => q = 32768
      <3>1. (32768 * Scale) \div Scale = 32768
        BY ScaleTyped, Exact
      <3>2. QED
        BY <3>1
    <2> HIDE DEF c, q, m
    <2>6. q * Scale \in Int /\ c * Scale = -(q * Scale)
      BY <2>1, <2>3, ScaleTyped
    <2>7. c * Scale - n \in (-Scale)..Scale
      BY <2>2, <2>3, <2>6, ScaleTyped
    <2>8. c \in Shorts
      BY <2>1, <2>3, <2>4, InShorts, SMT
    <2>9. n # 32768 * Scale /\ (n = -32768 * Scale => m = 32768 * Scale)
      BY <1>4, <2>2, ScaleTyped, SMT
    <2>10. n = -32768 * Scale => c = -32768
      BY <2>1, <2>5, <2>9
    <2>11. QED
      BY <1>4, <2>7, <2>8, <2>9, <2>10 DEF c
  <1>5. QED
    BY <1>1, <1>2, <1>3, <1>4, ScaleTyped, SMT

(* A trigger that is not pulled, one that is pulled all the way, and all   *)
(* between them.                                                           *)
LEMMA Pulled ==
  ASSUME NEW v \in 0..Scale
  PROVE  /\ (v * 255) \div Scale \in Bytes
         /\ v = 0 => (v * 255) \div Scale = 0
         /\ v = Scale => (v * 255) \div Scale = 255
  <1>1. v \in Nat /\ Scale \in Nat /\ Scale > 0 /\ v <= Scale
    BY ScaleTyped
  <1>2. v * 255 \in Nat /\ v * 255 <= 255 * Scale
    BY <1>1
  <1>3. (v * 255) \div Scale \in 0..255
    BY <1>1, <1>2, Quotient
  <1>4. v = 0 => v * 255 = 0 * Scale
    BY <1>1
  <1>5. v = Scale => v * 255 = 255 * Scale
    BY <1>1
  <1>6. QED
    BY <1>1, <1>3, <1>4, <1>5, Exact DEF Bytes

(* What the game is shown fits the fields of XINPUT_GAMEPAD.               *)
THEOREM TypeCorrect == Spec => []TypeOK
  <1>1. IInv => TypeOK
    <2> SUFFICES ASSUME IInv PROVE TypeOK
      OBVIOUS
    <2>1. CASE gamepad # None
      <3>1. gamepad = GamepadOf(buffer) /\ buffer \in DeviceInputs
        BY <2>1 DEF IInv
      <3>2. \A v \in 0..Scale : /\ 65536 * v - 32768 * Scale \in Int
                                /\ 32768 * Scale - 65536 * v \in Int
        BY ScaleTyped
      <3>3. \A v \in 0..Scale : Across(v) \in Shorts /\ Upward(v) \in Shorts
        BY <3>2, Clamped DEF Across, Upward
      <3>4. {gamepad.sThumbLX, gamepad.sThumbLY, gamepad.sThumbRX, gamepad.sThumbRY}
              \subseteq Shorts
        BY <3>1, <3>3, GamepadShows
      <3>5. {gamepad.bLeftTrigger, gamepad.bRightTrigger} \subseteq Bytes
        BY <3>1, GamepadShows, Pulled
      <3>6. QED
        BY <3>4, <3>5 DEF IInv, TypeOK
    <2>2. QED
      BY <2>1 DEF IInv, TypeOK
  <1>2. QED
    BY <1>1, Invariance, PTL

-----------------------------------------------------------------------------
(* The value and the capability of a usage a controller has: both are      *)
(* looked up at the one index with that usage.                             *)
LEMMA OfUsage ==
  ASSUME value_caps \in Capabilities, NEW usage, Logical(usage) # None
  PROVE  \E i \in 1..Len(value_caps) :
           /\ value_caps[i].Usage = usage
           /\ Logical(usage) = physical.values[i] /\ CapOf(usage) = value_caps[i]
  <1> DEFINE caps == {i \in DOMAIN value_caps : value_caps[i].Usage = usage}
             k == CHOOSE i \in caps : TRUE
             l == CHOOSE i \in DOMAIN value_caps : value_caps[i].Usage = usage
  <1>1. /\ DOMAIN value_caps = 1..Len(value_caps)
        /\ \A i, j \in 1..Len(value_caps) : value_caps[i].Usage = value_caps[j].Usage => i = j
    BY CapsTyped
  <1>2. caps # {} /\ Logical(usage) = physical.values[k]
    BY DEF Logical
  <1>3. k \in caps
    BY <1>2
  <1>4. l \in DOMAIN value_caps /\ value_caps[l].Usage = usage
    BY <1>2
  <1>5. CapOf(usage) = value_caps[l]
    BY DEF CapOf
  <1> HIDE DEF k, l
  <1>6. k \in DOMAIN value_caps /\ value_caps[k].Usage = usage
    BY <1>3
  <1>7. k = l
    BY <1>1, <1>4, <1>6
  <1>8. QED
    BY <1>1, <1>2, <1>5, <1>6, <1>7

LEMMA NotOfUsage ==
  ASSUME value_caps \in Capabilities, NEW usage, Logical(usage) = None,
         \A i \in 1..Len(value_caps) : physical.values[i] \in Int
  PROVE  \A i \in 1..Len(value_caps) : value_caps[i].Usage # usage
  <1> DEFINE caps == {i \in DOMAIN value_caps : value_caps[i].Usage = usage}
             k == CHOOSE i \in caps : TRUE
  <1>1. DOMAIN value_caps = 1..Len(value_caps)
    BY CapsTyped
  <1>2. CASE caps = {}
    BY <1>1, <1>2
  <1>3. CASE caps # {}
    <2>1. k \in caps /\ Logical(usage) = physical.values[k]
      BY <1>3 DEF Logical
    <2> HIDE DEF k
    <2>2. k \in 1..Len(value_caps)
      BY <1>1, <2>1
    <2>3. QED
      BY <2>1, <2>2, InputPathAssumption
  <1>4. QED
    BY <1>2, <1>3

(* The hat of a report that was parsed is what its value says, centred if  *)
(* the value is no direction or the controller has no hat.                 *)
LEMMA HatParsed ==
  ASSUME value_caps \in Capabilities, ReportFits(physical), parse_ps4(physical) # None
  PROVE  LET hat == Logical("HAT")
         IN  /\ hat # None => hat \in Nat
             /\ parse_ps4(physical).hat =
                  IF hat # None /\ hat \in 0..7 THEN Clockwise[hat + 1] ELSE "Neutral"
  <1> DEFINE n == Len(value_caps)
             hat == Logical("HAT")
             inputs == parse_ps4(physical)
  <1>1. n \in Nat /\ \A i \in 1..n : Capability(value_caps[i])
    BY CapsTyped
  <1>2. \A i \in 1..n : physical.values[i] \in LogicalValues(value_caps[i])
                        /\ physical.values[i] \in Int
    BY <1>1, UsageValue DEF ReportFits
  <1>3. ParsedUpto(physical, n)
    BY <1>2, AllValues
  <1>4. /\ \A i \in 1..n : value_caps[i].Usage = "HAT" => inputs.hat = HatOf(Bits(physical, i))
        /\ (\A i \in 1..n : value_caps[i].Usage # "HAT") => inputs.hat = "Neutral"
    BY <1>3 DEF ParsedUpto, parse_ps4
  <1> HIDE DEF inputs, n
  <1>5. CASE hat = None
    <2>1. \A i \in 1..n : value_caps[i].Usage # "HAT"
      BY <1>2, <1>5, NotOfUsage DEF n
    <2>2. QED
      BY <1>4, <1>5, <2>1 DEF inputs
  <1>6. CASE hat # None
    <2>1. PICK i \in 1..n : value_caps[i].Usage = "HAT" /\ hat = physical.values[i]
      BY <1>6, OfUsage DEF n
    <2> HIDE DEF hat
    <2>2. value_caps[i].LogicalMin >= 0 /\ value_caps[i].LogicalMin \in Int
          /\ value_caps[i].LogicalMax \in Int /\ Capability(value_caps[i])
          /\ value_caps[i].LogicalMin < value_caps[i].LogicalMax
      BY <1>1, <2>1 DEF Capability
    <2>3. hat \in LogicalValues(value_caps[i]) /\ hat \in Nat
      BY <1>2, <2>1, <2>2 DEF LogicalValues
    <2>4. Bits(physical, i) = hat
      BY <2>1, <2>2, <2>3, UsageValue DEF Bits
    <2>5. inputs.hat = HatOf(hat)
      BY <1>4, <2>1, <2>4
    <2>6. QED
      BY <1>6, <2>3, <2>5 DEF HatOf, inputs, hat
  <1>7. QED
    BY <1>5, <1>6

(* Where a stick or a trigger with an axis of its own is after parsing.    *)
LEMMA AxisParsed ==
  ASSUME value_caps \in Capabilities, ReportFits(physical), parse_ps4(physical) # None,
         NEW usage \in Alone, Logical(usage) # None
  PROVE  LET logical == Logical(usage)
             cap == CapOf(usage)
             span == cap.LogicalMax - cap.LogicalMin
             part == Scale \div span
         IN  /\ cap.LogicalMin \in Int /\ cap.LogicalMax \in Int
             /\ part \in Nat /\ part > 0 /\ part * span = Scale
             /\ logical \in cap.LogicalMin .. cap.LogicalMax
             /\ parse_ps4(physical).axis[AxisOfUsage[usage]] = (logical - cap.LogicalMin) * part
  <1> DEFINE n == Len(value_caps)
             inputs == parse_ps4(physical)
  <1>1. n \in Nat /\ \A i \in 1..n : Capability(value_caps[i])
    BY CapsTyped
  <1>2. \A i \in 1..n : physical.values[i] \in LogicalValues(value_caps[i])
    BY DEF ReportFits
  <1>3. ParsedUpto(physical, n)
    BY <1>2, AllValues
  <1>4. \A i \in 1..n : value_caps[i].Usage \in Alone =>
          /\ Position(physical, i) \in Axis
          /\ inputs.axis[AxisOfUsage[value_caps[i].Usage]] = Position(physical, i)
    BY <1>3 DEF ParsedUpto, parse_ps4
  <1> HIDE DEF n, inputs
  <1>5. PICK i \in 1..n : /\ value_caps[i].Usage = usage
                          /\ Logical(usage) = physical.values[i] /\ CapOf(usage) = value_caps[i]
    BY OfUsage DEF n
  <1>6. Capability(value_caps[i]) /\ value_caps[i].Usage \in SticksAndTriggers
        /\ physical.values[i] \in LogicalValues(value_caps[i])
    BY <1>1, <1>2, <1>5 DEF Alone, SticksAndTriggers
  <1>7. value_caps[i].LogicalMin \in Int /\ value_caps[i].LogicalMax \in Int
    BY <1>6 DEF Capability
  <1>8. /\ Position(physical, i) \in Axis
        /\ inputs.axis[AxisOfUsage[usage]] = Position(physical, i)
    BY <1>4, <1>5
  <1>9. LET part == Scale \div (value_caps[i].LogicalMax - value_caps[i].LogicalMin)
        IN  /\ part \in Nat /\ part > 0
            /\ part * (value_caps[i].LogicalMax - value_caps[i].LogicalMin) = Scale
            /\ physical.values[i] \in value_caps[i].LogicalMin .. value_caps[i].LogicalMax
            /\ Position(physical, i) = (physical.values[i] - value_caps[i].LogicalMin) * part
    BY <1>6, <1>8, Unlerped DEF Position, Bits
  <1>10. QED
    BY <1>5, <1>7, <1>8, <1>9 DEF inputs

-----------------------------------------------------------------------------
(* What the game is shown of what a HID controller said.                   *)
LEMMA HidSeen ==
  ASSUME IInv, HidShown
  PROVE  /\ value_caps \in Capabilities /\ config \in Configs
         /\ ReportFits(physical) /\ parse_ps4(physical) # None
         /\ parse_ps4(physical) \in DeviceInputs
         /\ buffer = mangle_inputs(parse_ps4(physical))
         /\ buffer \in DeviceInputs /\ gamepad = GamepadOf(buffer)
  <1>1. /\ value_caps \in Capabilities /\ config \in Configs
        /\ ReportFits(physical) /\ parse_ps4(physical) # None
        /\ buffer = mangle_inputs(parse_ps4(physical))
        /\ buffer \in DeviceInputs /\ gamepad = GamepadOf(buffer)
    BY DEF IInv, Heard, HidShown, Shown, IsXInput
  <1>2. ParsedUpto(physical, Len(value_caps))
    BY <1>1, AllValues DEF ReportFits
  <1>3. parse_ps4(physical) \in DeviceInputs
    BY <1>1, <1>2 DEF ParsedUpto, parse_ps4
  <1>4. QED
    BY <1>1, <1>3

(* The ends and the middle of an axis are those of a thumb stick.          *)
LEMMA Thumb ==
  Across(0) = -32768 /\ Across(Centre) = 0 /\ Across(Scale) = 32767
  <1>1. /\ 65536 * 0 - 32768 * Scale = -32768 * Scale
        /\ 65536 * Centre - 32768 * Scale = 0
        /\ 65536 * Scale - 32768 * Scale = 32768 * Scale
        /\ 32768 * Scale \in Int /\ -32768 * Scale \in Int
    BY ScaleTyped, SMT
  <1>2. QED
    BY <1>1, Clamped, SMT DEF Across

(* Twice the distance from the centre, before and after parsing.           *)
LEMMA Twice ==
  ASSUME NEW min \in Int, NEW max \in Int, NEW logical \in min..max,
         NEW part \in Nat, part > 0, part * (max - min) = Scale, NEW threshold \in Nat
  PROVE  LET twice == 2 * logical - min - max
             away == IF twice >= 0 THEN twice ELSE -twice
             value == (logical - min) * part
         IN  /\ value > Centre <=> twice > 0
             /\ Beyond(value, threshold) <=> ~(away * Scale <= threshold * (max - min))
  <1> DEFINE twice == 2 * logical - min - max
             away == IF twice >= 0 THEN twice ELSE -twice
             value == (logical - min) * part
             span == max - min
  <1>1. span \in Nat /\ span > 0 /\ part * span = Scale
    <2>1. max - min \in Nat
      OBVIOUS
    <2>2. max - min # 0
      <3>1. CASE max - min = 0
        BY <3>1, ScaleTyped
      <3>2. QED
        BY <3>1
    <2>3. QED
      BY <2>1, <2>2
  <1>2. twice \in Int /\ value \in Int /\ 2 * value - Scale = twice * part
    <2>1. 2 * ((logical - min) * part) - part * (max - min) = (2 * logical - min - max) * part
      OBVIOUS
    <2>2. QED
      BY <2>1
  <1>3. away \in Nat
    BY <1>2
  <1> HIDE DEF twice, value, span
  <1>4. twice > 0 <=> twice * part > 0 * part
    BY <1>2, Times
  <1>5. value > Centre <=> twice > 0
    BY <1>2, <1>4, ScaleTyped
  <1>6. 2 * (IF value > Centre THEN value - Centre ELSE Centre - value) = away * part
    <2>1. CASE twice > 0
      BY <1>2, <1>5, <2>1, ScaleTyped
    <2>2. CASE twice = 0
      BY <1>2, <1>5, <2>2, ScaleTyped
    <2>3. CASE twice < 0
      <3>1. away = -twice /\ (-twice) * part = -(twice * part)
        BY <1>2, <2>3
      <3>2. ~(value > Centre)
        BY <1>2, <1>5, <2>3
      <3>3. 2 * (Centre - value) = -(twice * part)
        BY <1>2, ScaleTyped
      <3>4. QED
        BY <3>1, <3>2, <3>3
    <2>4. QED
      BY <1>2, <2>1, <2>2, <2>3
  <1> HIDE DEF away
  <1>7. Beyond(value, threshold) <=> away * part > threshold
    BY <1>6 DEF Beyond
  <1>8. away * Scale = (away * part) * span
    BY <1>1, <1>3
  <1>9. /\ away * part \in Int
        /\ away * part <= threshold <=> (away * part) * span <= threshold * span
    <2>1. away * part \in Int
      BY <1>3
    <2>2. QED
      BY <1>1, <2>1, Times
  <1>10. QED
    BY <1>5, <1>7, <1>8, <1>9 DEF twice, away, value, span

LEMMA Directions == \A n \in 0..7 : Clockwise[n + 1] # "Neutral"
  <1>1. /\ Clockwise[1] = "North" /\ Clockwise[2] = "NorthEast"
        /\ Clockwise[3] = "East" /\ Clockwise[4] = "SouthEast"
        /\ Clockwise[5] = "South" /\ Clockwise[6] = "SouthWest"
        /\ Clockwise[7] = "West" /\ Clockwise[8] = "NorthWest"
    BY DEF Clockwise
  <1>2. ASSUME NEW n \in 0..7
        PROVE  n + 1 \in {1, 2, 3, 4, 5, 6, 7, 8}
    OBVIOUS
  <1>3. QED
    BY <1>1, <1>2

(* The dpad overrides the left stick, and a deadzone is the part of the    *)
(* way to the end that dhc.toml says.                                      *)
THEOREM StickIsAsConfigured == Spec => []StickAsConfigured
  <1>1. IInv => StickAsConfigured
    <2> SUFFICES ASSUME IInv, HidShown, Logical("X") # None PROVE StickAsConfigured
      BY DEF StickAsConfigured
    <2> DEFINE inputs == parse_ps4(physical)
               logical == Logical("X")
               cap == CapOf("X")
               min == cap.LogicalMin
               max == cap.LogicalMax
               part == Scale \div (max - min)
               value == inputs.axis["LeftStickX"]
               hat == Logical("HAT")
               overridden == config.dpad_override /\ hat # None /\ hat \in 0..7
               twice == 2 * logical - min - max
               away == IF twice >= 0 THEN twice ELSE -twice
               inside == away * Scale <= config.deadzone * (max - min)
               stick == IF overridden THEN Centre ELSE value
               shown == buffer.axis["LeftStickX"]
    <2>1. /\ value_caps \in Capabilities /\ config \in Configs
          /\ ReportFits(physical) /\ inputs # None /\ inputs \in DeviceInputs
          /\ buffer = mangle_inputs(inputs)
          /\ buffer \in DeviceInputs /\ gamepad = GamepadOf(buffer)
      BY HidSeen
    <2>2. /\ min \in Int /\ max \in Int /\ logical \in min..max
          /\ part \in Nat /\ part > 0 /\ part * (max - min) = Scale
          /\ value = (logical - min) * part
      BY <2>1, AxisParsed, AxesOfUsages DEF Alone
    <2>3. overridden <=> config.dpad_override /\ inputs.hat # "Neutral"
      BY <2>1, HatParsed, Directions
    <2>4. "LeftStickX" \in LeftStick /\ "LeftStickX" \in AxisType
      BY DEF LeftStick, AxisType
    <2> HIDE DEF inputs, logical, cap, min, max, part, hat, overridden
    <2>5. value \in Axis
      BY <2>1, <2>4, InputsTyped
    <2>6. shown = IF config.deadzone = None THEN stick ELSE Snapped(stick, config.deadzone)
      BY <2>1, <2>3, <2>4, Mangled
    <2>7. gamepad.sThumbLX = Across(shown)
      BY <2>1, GamepadShows
    <2>8. config.deadzone # None => config.deadzone \in Nat
      BY <2>1, InputPathAssumption, ScaleTyped
    <2> HIDE DEF value, shown
    <2>9. ASSUME overridden PROVE gamepad.sThumbLX = 0
      <3>1. config.deadzone # None => Snapped(Centre, config.deadzone) = Centre
        BY <2>8, ScaleTyped DEF Snapped, Beyond
      <3>2. shown = Centre
        BY <2>6, <2>9, <3>1
      <3>3. QED
        BY <2>7, <3>2, Thumb
    <2>10. ASSUME ~overridden, config.deadzone # None
           PROVE  gamepad.sThumbLX = IF inside THEN 0 ELSE IF twice > 0 THEN 32767 ELSE -32768
      <3>1. shown = Snapped(value, config.deadzone)
        BY <2>6, <2>10
      <3>2. /\ value > Centre <=> twice > 0
            /\ Beyond(value, config.deadzone) <=> ~inside
        BY <2>2, <2>8, <2>10, Twice
      <3> HIDE DEF twice, inside
      <3>3. shown = IF inside THEN Centre ELSE IF twice > 0 THEN Scale ELSE 0
        BY <3>1, <3>2 DEF Snapped
      <3>4. QED
        BY <2>7, <3>3, Thumb
    <2>11. QED
      BY <2>9, <2>10
         DEF StickAsConfigured, overridden, logical, cap, hat, min, max
  <1>2. QED
    BY <1>1, Invariance, PTL

(* An end of the range arrives as an end, and no position of a range       *)
(* without negative values ends the process.                               *)
THEOREM EndsReach == Spec => []EndsReachGame
  <1>1. IInv => EndsReachGame
    <2> SUFFICES ASSUME IInv PROVE EndsReachGame
      OBVIOUS
    <2> DEFINE inputs == parse_ps4(physical)
               Undisturbed == /\ HidShown /\ ~(config.dpad_override /\ gamepad.arrows # {})
                              /\ config.deadzone = None \/ config.deadzone < Scale
    <2>1. ASSUME Undisturbed
          PROVE  /\ value_caps \in Capabilities /\ config \in Configs
                 /\ ReportFits(physical) /\ inputs # None /\ inputs \in DeviceInputs
                 /\ buffer = mangle_inputs(inputs)
                 /\ buffer \in DeviceInputs /\ gamepad = GamepadOf(buffer)
      BY <2>1, HidSeen
    <2>2. ASSUME Undisturbed, NEW usage \in Alone, Logical(usage) # None
          PROVE  LET value == inputs.axis[AxisOfUsage[usage]]
                 IN  /\ Logical(usage) = CapOf(usage).LogicalMin => value = 0
                     /\ Logical(usage) = CapOf(usage).LogicalMax => value = Scale
      <3> DEFINE min == CapOf(usage).LogicalMin
                 max == CapOf(usage).LogicalMax
                 part == Scale \div (max - min)
      <3>1. /\ min \in Int /\ max \in Int /\ part \in Nat /\ part * (max - min) = Scale
            /\ inputs.axis[AxisOfUsage[usage]] = (Logical(usage) - min) * part
        BY <2>1, <2>2, AxisParsed
      <3> HIDE DEF min, max, part, inputs
      <3>2. (min - min) * part = 0 /\ (max - min) * part = Scale
        BY <3>1
      <3>3. QED
        BY <3>1, <3>2 DEF min, max
    <2>3. ASSUME Undisturbed
          PROVE  /\ inputs.axis["LeftStickX"] = 0 => buffer.axis["LeftStickX"] = 0
                 /\ inputs.axis["LeftStickX"] = Scale => buffer.axis["LeftStickX"] = Scale
                 /\ buffer.axis["RightStickX"] = inputs.axis["RightStickX"]
                 /\ buffer.axis["LeftTrigger"] = inputs.axis["LeftTrigger"]
      <3> HIDE DEF inputs
      <3>1. /\ "LeftStickX" \in LeftStick
            /\ "RightStickX" \in AxisType \ LeftStick /\ "LeftTrigger" \in AxisType \ LeftStick
        BY DEF LeftStick, AxisType
      <3>2. config.dpad_override => inputs.hat = "Neutral"
        <4>1. config.dpad_override => ArrowsOfHat(buffer.hat) = {}
          BY <2>1, <2>3, GamepadShows
        <4>2. \A h \in Hat : ArrowsOfHat(h) = {} => h = "Neutral"
          <5>1. /\ Clockwise[1] = "North" /\ Clockwise[2] = "NorthEast"
                /\ Clockwise[3] = "East" /\ Clockwise[4] = "SouthEast"
                /\ Clockwise[5] = "South" /\ Clockwise[6] = "SouthWest"
                /\ Clockwise[7] = "West" /\ Clockwise[8] = "NorthWest"
            BY DEF Clockwise
          <5>2. \A i \in 1..8 : i \in {1, 2, 3, 4, 5, 6, 7, 8}
            OBVIOUS
          <5>3. \A h \in Hat : h \in {"Neutral", "North", "NorthEast", "East", "SouthEast",
                                      "South", "SouthWest", "West", "NorthWest"}
            BY <5>1, <5>2 DEF Hat
          <5>4. /\ "up" \in ArrowsOfHat("North") /\ "up" \in ArrowsOfHat("NorthEast")
                /\ "up" \in ArrowsOfHat("NorthWest") /\ "right" \in ArrowsOfHat("East")
                /\ "down" \in ArrowsOfHat("South") /\ "down" \in ArrowsOfHat("SouthEast")
                /\ "down" \in ArrowsOfHat("SouthWest") /\ "left" \in ArrowsOfHat("West")
            BY DEF ArrowsOfHat
          <5>5. QED
            BY <5>3, <5>4
        <4>3. buffer.hat = inputs.hat /\ inputs.hat \in Hat
          BY <2>1, <2>3, Mangled, InputsTyped
        <4>4. QED
          BY <4>1, <4>2, <4>3
      <3>3. buffer.axis["LeftStickX"] =
              IF config.deadzone = None THEN inputs.axis["LeftStickX"]
              ELSE Snapped(inputs.axis["LeftStickX"], config.deadzone)
        BY <2>1, <2>3, <3>1, <3>2, Mangled
      <3>4. config.deadzone # None =>
              /\ Snapped(0, config.deadzone) = 0
              /\ Snapped(Scale, config.deadzone) = Scale
        <4>1. config.deadzone # None => config.deadzone \in Nat /\ config.deadzone < Scale
          BY <2>1, <2>3, InputPathAssumption, ScaleTyped
        <4>2. QED
          BY <4>1, ScaleTyped DEF Snapped, Beyond
      <3>5. QED
        BY <2>1, <2>3, <3>1, <3>3, <3>4, Mangled
    <2>4. ASSUME Undisturbed
          PROVE  /\ gamepad.sThumbLX = Across(buffer.axis["LeftStickX"])
                 /\ gamepad.sThumbRX = Across(buffer.axis["RightStickX"])
                 /\ gamepad.bLeftTrigger = (buffer.axis["LeftTrigger"] * 255) \div Scale
      BY <2>1, <2>4, GamepadShows
    <2>5. 0 \in 0..Scale /\ Scale \in 0..Scale
      BY ScaleTyped
    <2>6. "X" \in Alone /\ "Z" \in Alone /\ "RX" \in Alone
      BY DEF Alone
    <2> HIDE DEF Undisturbed
    <2>7. ASSUME Undisturbed, Logical("X") # None
          PROVE  /\ Logical("X") = CapOf("X").LogicalMin => gamepad.sThumbLX = -32768
                 /\ Logical("X") = CapOf("X").LogicalMax => gamepad.sThumbLX = 32767
      <3>1. /\ Logical("X") = CapOf("X").LogicalMin => inputs.axis["LeftStickX"] = 0
            /\ Logical("X") = CapOf("X").LogicalMax => inputs.axis["LeftStickX"] = Scale
        BY <2>2, <2>6, <2>7, AxesOfUsages
      <3> HIDE DEF inputs
      <3>2. QED
        BY <2>3, <2>4, <2>7, <3>1, Thumb
    <2>8. ASSUME Undisturbed, Logical("Z") # None
          PROVE  /\ Logical("Z") = CapOf("Z").LogicalMin => gamepad.sThumbRX = -32768
                 /\ Logical("Z") = CapOf("Z").LogicalMax => gamepad.sThumbRX = 32767
      <3>1. /\ Logical("Z") = CapOf("Z").LogicalMin => inputs.axis["RightStickX"] = 0
            /\ Logical("Z") = CapOf("Z").LogicalMax => inputs.axis["RightStickX"] = Scale
        BY <2>2, <2>6, <2>8, AxesOfUsages
      <3> HIDE DEF inputs
      <3>2. QED
        BY <2>3, <2>4, <2>8, <3>1, Thumb
    <2>9. ASSUME Undisturbed, Logical("RX") # None
          PROVE  /\ Logical("RX") = CapOf("RX").LogicalMin => gamepad.bLeftTrigger = 0
                 /\ Logical("RX") = CapOf("RX").LogicalMax => gamepad.bLeftTrigger = 255
      <3>1. /\ Logical("RX") = CapOf("RX").LogicalMin => inputs.axis["LeftTrigger"] = 0
            /\ Logical("RX") = CapOf("RX").LogicalMax => inputs.axis["LeftTrigger"] = Scale
        BY <2>2, <2>6, <2>9, AxesOfUsages
      <3> HIDE DEF inputs
      <3>2. QED
        BY <2>3, <2>4, <2>5, <2>9, <3>1, Pulled
    <2>10. aborted => \E cap \in Range(value_caps) : cap.LogicalMin < 0
      BY DEF IInv
    <2>11. QED
      BY <2>7, <2>8, <2>9, <2>10 DEF EndsReachGame, Undisturbed
  <1>2. QED
    BY <1>1, Invariance, PTL

(* A hat presses the arrows it points to.                                  *)
THEOREM ArrowsReach == Spec => []ArrowsForwarded
  <1>1. IInv => ArrowsForwarded
    <2> SUFFICES ASSUME IInv, HidShown, Logical("HAT") # None PROVE ArrowsForwarded
      BY DEF ArrowsForwarded
    <2> DEFINE n == Logical("HAT")
               hat == IF n \in 0..7 THEN Clockwise[n + 1] ELSE "Neutral"
    <2>1. n \in Nat /\ gamepad.arrows = ArrowsOfHat(hat)
      <3>1. n \in Nat /\ parse_ps4(physical).hat = hat
        BY HidSeen, HatParsed
      <3> HIDE DEF n, hat
      <3>2. buffer.hat = hat
        BY <3>1, HidSeen, Mangled
      <3>3. QED
        BY <3>1, <3>2, HidSeen, GamepadShows
    <2> HIDE DEF n
    <2>2. /\ Clockwise[1] = "North" /\ Clockwise[2] = "NorthEast"
          /\ Clockwise[3] = "East" /\ Clockwise[4] = "SouthEast"
          /\ Clockwise[5] = "South" /\ Clockwise[6] = "SouthWest"
          /\ Clockwise[7] = "West" /\ Clockwise[8] = "NorthWest"
      BY DEF Clockwise
    <2>3. /\ n = 0 => hat = "North"
          /\ n = 1 => hat = "NorthEast"
          /\ n = 2 => hat = "East"
          /\ n = 3 => hat = "SouthEast"
          /\ n = 4 => hat = "South"
          /\ n = 5 => hat = "SouthWest"
          /\ n = 6 => hat = "West"
          /\ n = 7 => hat = "NorthWest"
          /\ n > 7 => hat = "Neutral"
      BY <2>1, <2>2
    <2>4. \/ n = 0 \/ n = 1 \/ n = 2 \/ n = 3 \/ n = 4 \/ n = 5 \/ n = 6 \/ n = 7 \/ n > 7
      BY <2>1
    <2> HIDE DEF hat
    <2>5. /\ "up" \in ArrowsOfHat(hat) <=> hat \in {"NorthWest", "North", "NorthEast"}
          /\ "down" \in ArrowsOfHat(hat) <=> hat \in {"SouthEast", "South", "SouthWest"}
          /\ "left" \in ArrowsOfHat(hat) <=> hat \in {"SouthWest", "West", "NorthWest"}
          /\ "right" \in ArrowsOfHat(hat) <=> hat \in {"NorthEast", "East", "SouthEast"}
      BY DEF ArrowsOfHat
    <2>6. /\ "up" \in gamepad.arrows    <=> n \in {7, 0, 1}
          /\ "right" \in gamepad.arrows <=> n \in 1..3
          /\ "down" \in gamepad.arrows  <=> n \in 3..5
          /\ "left" \in gamepad.arrows  <=> n \in 5..7
      BY <2>1, <2>3, <2>4, <2>5
    <2>7. QED
      BY <2>6 DEF ArrowsForwarded, n
  <1>2. QED
    BY <1>1, Invariance, PTL

(* A pad's buttons and arrows are the game's, and its sticks are where the *)
(* library puts them.                                                      *)
THEOREM PadsForwarded == Spec => []XInputForwarded
  <1>1. IInv => XInputForwarded
    <2> SUFFICES ASSUME IInv, Shown, IsXInput PROVE XInputForwarded
      BY DEF XInputForwarded
    <2> DEFINE left == left_stick_normalized[physical.left]
               right == right_stick_normalized[physical.right]
               near(thumb, part) == thumb * Scale - 65536 * part \in (-Scale)..Scale
    <2>1. /\ physical \in Pads /\ buffer = InputsOfPad(physical)
          /\ buffer \in DeviceInputs /\ gamepad = GamepadOf(buffer)
      BY DEF IInv, Heard, Shown
    <2>2. gamepad.wButtons = physical.buttons \ {"L2", "R2"}
      <3>1. gamepad.wButtons = physical.buttons \cap GamepadButtons
        BY <2>1, PadRead, GamepadShows
      <3>2. physical.buttons \in SUBSET PadButtons
        BY <2>1, InputPathAssumption DEF PadStates
      <3>3. QED
        BY <3>1, <3>2 DEF GamepadButtons, PadButtons
    <2>3. gamepad.arrows = ArrowsOfHat(HatOfArrows(physical.arrows))
      BY <2>1, PadRead, GamepadShows
    <2>4. /\ "up" \in gamepad.arrows <=> "up" \in physical.arrows /\ "down" \notin physical.arrows
          /\ "down" \in gamepad.arrows <=> "down" \in physical.arrows /\ "up" \notin physical.arrows
          /\ "left" \in gamepad.arrows <=>
               "left" \in physical.arrows /\ "right" \notin physical.arrows
          /\ "right" \in gamepad.arrows <=>
               "right" \in physical.arrows /\ "left" \notin physical.arrows
      BY <2>3, ArrowsThrough
    <2>5. /\ gamepad.sThumbLX = Across(left[1] + Centre)
          /\ gamepad.sThumbLY = Upward(Centre - left[2])
          /\ gamepad.sThumbRX = Across(right[1] + Centre)
          /\ gamepad.sThumbRY = Upward(Centre - right[2])
      BY <2>1, PadRead, GamepadShows
    <2>6. \A v \in Normalized : near(Across(v + Centre), v) /\ near(Upward(Centre - v), v)
      <3> SUFFICES ASSUME NEW v \in Normalized
                   PROVE  near(Across(v + Centre), v) /\ near(Upward(Centre - v), v)
        OBVIOUS
      <3> DEFINE n == 65536 * v
      <3>1. n \in Int /\ n <= 32768 * Scale /\ n >= -32768 * Scale
        BY ScaleTyped, SMT DEF Normalized
      <3>2. /\ 65536 * (v + Centre) - 32768 * Scale = n
            /\ 32768 * Scale - 65536 * (Centre - v) = n
        BY ScaleTyped, SMT DEF Normalized
      <3>3. Clamp(n) * Scale - n \in (-Scale)..Scale
        BY <3>1, Clamped
      <3>4. QED
        BY <3>2, <3>3 DEF Across, Upward
    <2>7. /\ left[1] \in Normalized /\ left[2] \in Normalized
          /\ right[1] \in Normalized /\ right[2] \in Normalized
      BY <2>1, PadRead
    <2> HIDE DEF left, right, near
    <2>8. /\ near(gamepad.sThumbLX, left[1]) /\ near(gamepad.sThumbLY, left[2])
          /\ near(gamepad.sThumbRX, right[1]) /\ near(gamepad.sThumbRY, right[2])
      BY <2>5, <2>6, <2>7
    <2>9. \A p \in {<<"up", "down">>, <<"down", "up">>,
                     <<"left", "right">>, <<"right", "left">>} :
             p[1] \in gamepad.arrows <=> p[1] \in physical.arrows /\ p[2] \notin physical.arrows
      BY <2>4
    <2>10. QED
      BY <2>2, <2>8, <2>9 DEF XInputForwarded, left, right, near
  <1>2. QED
    BY <1>1, Invariance, PTL
===============================================================================
