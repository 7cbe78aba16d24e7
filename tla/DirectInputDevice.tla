-------------------------- MODULE DirectInputDevice ---------------------------
(***************************************************************************)
(* EmulatedDirectInputDevice8 of dinput8/dinput.cpp: one virtual           *)
(* controller as a DirectInput game sees it.  The game tells the device    *)
(* once how its state is to be laid out (SetDataFormat), adjusts the axes  *)
(* (SetProperty), and then again and again asks for the state (Poll,       *)
(* GetDeviceState).                                                        *)
(*                                                                         *)
(* There is one such object per virtual device and process: CreateDevice   *)
(* hands out the same one each time.  So whatever one user of it has set   *)
(* up, the next one finds.                                                 *)
(*                                                                         *)
(* DIDFT_ flags are records, properties are named without DIPROP_, and the *)
(* DWORD of an axis is the LONG the game reads it as.                      *)
(***************************************************************************)
EXTENDS InputTypes, SequencesExt

CONSTANTS
  Formats,     \* the DIDATAFORMATs the game may set: [size, objs]
  Identifiers, \* the DIPROPHEADER::dwObj it may use with DIPH_BYID
  Offsets,     \* ... and with DIPH_BYOFFSET
  DWords,      \* the values it may set a deadzone or saturation to
  Ranges,      \* ... and a range
  Inputs,      \* what dhc_get_inputs(vdev_) may return
  Lossy,       \* the DWORDs x with DWORD(x / 10000.0 * 10000.0) = x - 1
  MaxSets,     \* bound on the calls of SetDataFormat
  None, AnyInstance

DIDFT_ALL ==
  [types |-> {}, instance |-> 0, optional |-> FALSE, leftover |-> FALSE]

-----------------------------------------------------------------------------
(* The objects of a PS4 controller, without the triggers, which take       *)
(* ENABLE_TRIGGERS; no build file sets it.                                 *)
AbsAxis(guid, instance, mapped) ==
  [type |-> "ABSAXIS", guid |-> guid, instance_id |-> instance, mapped |-> mapped]

PS4Buttons ==
  <<"West", "South", "East", "North", "L1", "R1", "L2", "R2",
    "Select", "Start", "L3", "R3", "Home", "Trackpad">>

GeneratePS4EmulatedDeviceObjects ==
  << AbsAxis("XAxis", 0, "LeftStickX"),  AbsAxis("YAxis", 1, "LeftStickY"),
     AbsAxis("ZAxis", 2, "RightStickX"), AbsAxis("RzAxis", 5, "RightStickY") >>
  \o [i \in DOMAIN PS4Buttons |->
        [type |-> "PSHBUTTON", guid |-> "Button", instance_id |-> i - 1,
         mapped |-> PS4Buttons[i]]]
  \o << [type |-> "POV", guid |-> "POV", instance_id |-> 0, mapped |-> "DPad"] >>

Objects == DOMAIN GeneratePS4EmulatedDeviceObjects

Object(i) == GeneratePS4EmulatedDeviceObjects[i]

VARIABLES
  matched,                 \* the objects consumed by a data format
  settings,                \* range, deadzone and saturation of each object
  device_formats_,         \* which object goes to which offset
  device_format_defaults_, \* the offsets that get -1 whatever the inputs
  inputs,                  \* what dhc_get_inputs(vdev_) returns now
  format,                  \* the data format the game set last, None before
  largest,                 \* the size of the largest it ever passed
  sets,                    \* how often it has called SetDataFormat
  answer,                  \* the result of its last call, and what it returned
  aborted                  \* "no", or what made the process panic

vars == <<matched, settings, device_formats_, device_format_defaults_, inputs,
          format, largest, sets, answer, aborted>>

layout == <<matched, device_formats_, device_format_defaults_, format, largest, sets>>

Share == 0..10000   \* of the way to an end, in hundredths of a percent

Settings == [range_min : Int, range_max : Int, deadzone : Share, saturation : Share]

Init ==
  /\ matched = {}
  /\ settings = [i \in Objects |-> [range_min |-> 0, range_max |-> 65535,
                                    deadzone |-> 0, saturation |-> 10000]]
  /\ device_formats_ = <<>>
  /\ device_format_defaults_ = {}
  /\ inputs = NeutralInputs
  /\ format = None
  /\ largest = 0
  /\ sets = 0
  /\ answer = [result |-> "none"]
  /\ aborted = "no"

Return(result) == answer' = [result |-> result] /\ UNCHANGED aborted
Abort(why)     == aborted' = why /\ UNCHANGED answer

-----------------------------------------------------------------------------
(* didft asks for a type of object, and maybe for an instance of it.       *)
MatchesType(i, didft) ==
  \/ didft = DIDFT_ALL
  \/ /\ Object(i).type \in didft.types
     /\ didft.instance \in {AnyInstance, Object(i).instance_id}
     /\ ~didft.leftover

Fits(i, entry) ==
  MatchesType(i, entry.type) /\ entry.guid \in {None, Object(i).guid}

(* The bytes that may be written for an entry: one, if all that it can be  *)
(* given are buttons and it gets no default, a DWORD otherwise.            *)
Width(entry) ==
  IF entry.guid # "POV" /\ \A i \in Objects : Fits(i, entry) => Object(i).type = "PSHBUTTON"
  THEN 1 ELSE 4

Placed(entry, size) ==
  entry.offset % Width(entry) = 0 /\ entry.offset + Width(entry) <= size

Separate(e1, e2) ==
  e1.offset + Width(e1) <= e2.offset \/ e2.offset + Width(e2) <= e1.offset

(* The game lays its objects out inside its buffer, each at a place of its *)
(* own and a DWORD where a DWORD can be.                                   *)
LaidOut(f) ==
  /\ f.size \in Nat /\ Len(f.objs) \in Nat /\ DOMAIN f.objs = 1..Len(f.objs)
  /\ \A i \in DOMAIN f.objs :
       f.objs[i].offset \in Nat /\ Placed(f.objs[i], f.size)
  /\ \A i, j \in DOMAIN f.objs : i # j => Separate(f.objs[i], f.objs[j])

ASSUME DirectInputDeviceAssumption ==
  /\ Inputs \subseteq DeviceInputs /\ NeutralInputs \in Inputs
  /\ DWords \subseteq Nat /\ Ranges \subseteq Int \X Int
  /\ Lossy \subseteq 1..9999
  /\ MaxSets \in Nat
  /\ AnyInstance \notin Nat
  /\ \A f \in Formats : LaidOut(f)

-----------------------------------------------------------------------------
Consume(acc, i, entry) ==
  [acc EXCEPT !.matched = @ \cup {i},
              !.formats = Append(@, [object |-> i, offset |-> entry.offset])]

(* Mutant: a POV that is not found is left at zero, which is north.        *)
NotFoundZero(acc, entry) == [acc EXCEPT !.failed = ~entry.type.optional]

NotFound(acc, entry) ==
  IF ~entry.type.optional THEN [acc EXCEPT !.failed = TRUE]
  ELSE IF entry.guid = "POV" THEN [acc EXCEPT !.defaults = @ \cup {entry.offset}]
  ELSE acc

(* Mutant: the search goes on behind the object consumed last.             *)
MatchEntryForward(acc, entry) ==
  LET free == {i \in Objects : Fits(i, entry) /\ \A m \in acc.matched : m < i}
  IN  IF acc.failed THEN acc
      ELSE IF free # {} THEN Consume(acc, Min(free), entry)
      ELSE NotFound(acc, entry)

(* One turn of the loop of SetDataFormat: the first object that fits and   *)
(* is not consumed yet is.  A required entry without one ends the loop,    *)
(* and what it has done until then stays done.                             *)
MatchEntry(acc, entry) ==
  LET free == {i \in Objects \ acc.matched : Fits(i, entry)}
  IN  IF acc.failed THEN acc
      ELSE IF free # {} THEN Consume(acc, Min(free), entry)
      ELSE NotFound(acc, entry)

(* What the loop has done after each of its turns.                         *)
Turns(start, objs) ==
  LET turn[k \in 0..Len(objs)] ==
        IF k = 0 THEN start ELSE MatchEntry(turn[k - 1], objs[k])
  IN  turn

SetDataFormat(f) ==
  LET start == [matched |-> matched, formats |-> device_formats_,
                defaults |-> device_format_defaults_, failed |-> FALSE]
      done  == Turns(start, f.objs)[Len(f.objs)]
  IN  /\ sets < MaxSets
      /\ sets' = sets + 1
      /\ largest' = Max({largest, f.size})
      /\ IF f.objs = <<>>
         THEN /\ Return("DIERR_INVALIDPARAM")
              /\ UNCHANGED <<matched, device_formats_, device_format_defaults_, format>>
         ELSE /\ matched' = done.matched
              /\ device_formats_' = done.formats
              /\ device_format_defaults_' = done.defaults
              /\ Return(IF done.failed THEN "DIERR_OBJECTNOTFOUND" ELSE "DI_OK")
              /\ format' = IF done.failed THEN format ELSE f
      /\ UNCHANGED <<settings, inputs>>

-----------------------------------------------------------------------------
Distance(value) == IF value > Centre THEN value - Centre ELSE Centre - value

(* The pull towards the ends and towards the centre, both in 1/10000 of    *)
(* the way from the centre to an end.                                      *)
Saturated(s, value) == 2 * Distance(value) * 10000 >= s.saturation * Scale

(* Mutant: the value itself is compared, not its distance.                 *)
DeadNotCentred(s, value) == value * 10000 <= s.deadzone * Scale

Dead(s, value) == 2 * Distance(value) * 10000 <= s.deadzone * Scale

(* Mutant: the deadzone is looked at before the saturation.                *)
SnapDeadzoneFirst(s, value) ==
  IF Dead(s, value) THEN Centre
  ELSE IF Saturated(s, value) THEN (IF value > Centre THEN Scale ELSE 0)
  ELSE value

Snap(s, value) ==
  IF Saturated(s, value) THEN (IF value > Centre THEN Scale ELSE 0)
  ELSE IF Dead(s, value) THEN Centre
  ELSE value

(* num / den, rounded towards zero as a cast to an integer does.           *)
Truncate(num, den) == IF num >= 0 THEN num \div den ELSE -((-num) \div den)

(* DeviceFormat::Apply for an axis: snap, and put onto the range.  (What is *)
(* negative is cast to a DWORD; C++ leaves that open, the usual targets    *)
(* make it the DWORD that is read back as the LONG.)                       *)
AxisReading(s, value) ==
  Truncate(s.range_min * Scale + Snap(s, value) * (s.range_max - s.range_min),
           Scale)

(* Hundredths of a degree, clockwise from north; -1 in the centre.         *)
PovReading(hat) ==
  IF hat = "Neutral" THEN -1
  ELSE 4500 * ((CHOOSE i \in 1..8 : Clockwise[i] = hat) - 1)

Reading(i, in) ==
  CASE Object(i).type = "ABSAXIS"   -> AxisReading(settings[i], in.axis[Object(i).mapped])
    [] Object(i).type = "PSHBUTTON" -> IF Object(i).mapped \in in.pressed THEN 128 ELSE 0
    [] Object(i).type = "POV"       -> PovReading(in.hat)

(* Mutant: an object may not end where the buffer does.                    *)
ApplicableShort(fmt, size) ==
  IF Object(fmt.object).type = "PSHBUTTON"
  THEN size > fmt.offset + 1
  ELSE fmt.offset % 4 = 0 /\ size > fmt.offset + 4

(* The CHECKs of Apply.                                                    *)
Applicable(fmt, size) ==
  IF Object(fmt.object).type = "PSHBUTTON"
  THEN size >= fmt.offset + 1
  ELSE fmt.offset % 4 = 0 /\ size >= fmt.offset + 4

(* What is read at offset: the last of the formats that write there wins,  *)
(* and the defaults come after all of them.  Zero elsewhere.  (Writes that *)
(* overlap without starting at the same offset are not modelled.)          *)
ReadAt(offset, in) ==
  LET writers == {k \in DOMAIN device_formats_ : device_formats_[k].offset = offset}
  IN  IF offset \in device_format_defaults_ THEN -1
      ELSE IF writers = {} THEN 0
      ELSE Reading(device_formats_[Max(writers)].object, in)

(* The game passes the size of the data format it set.  Nothing checks     *)
(* that a default is within it.                                            *)
GetDeviceState ==
  /\ format # None
  /\ LET size == format.size
     IN  CASE \E k \in DOMAIN device_formats_ : ~Applicable(device_formats_[k], size) ->
                Abort("check")
           [] \E offset \in device_format_defaults_ : offset + 4 > size ->
                Abort("overrun")
           [] OTHER ->
                /\ answer' = [result |-> "DI_OK",
                              state |-> [i \in DOMAIN format.objs |->
                                           ReadAt(format.objs[i].offset, inputs)]]
                /\ UNCHANGED aborted
  /\ UNCHANGED <<layout, settings, inputs>>

(* Any user of the library has it look at the controllers.                 *)
Poll ==
  /\ inputs' \in Inputs
  /\ Return("DI_OK")
  /\ UNCHANGED <<layout, settings>>

-----------------------------------------------------------------------------
(* Mutant: an offset stands for the object of that index.                  *)
FindPropertyObjectByIndex(how, obj) ==
  LET entries == {k \in DOMAIN device_formats_ : device_formats_[k].offset = obj}
      objects == {i \in Objects : MatchesType(i, obj)}
  IN  CASE how = "BYOFFSET" /\ entries # {} -> Min(entries)
        [] how = "BYID" /\ objects # {}     -> Min(objects)
        [] OTHER                            -> None

(* The object a property is about.                                         *)
FindPropertyObject(how, obj) ==
  LET entries == {k \in DOMAIN device_formats_ : device_formats_[k].offset = obj}
      objects == {i \in Objects : MatchesType(i, obj)}
  IN  CASE how = "BYOFFSET" /\ entries # {} -> device_formats_[Min(entries)].object
        [] how = "BYID" /\ objects # {}     -> Min(objects)
        [] OTHER                            -> None

(* BUFFERSIZE stands for all the properties of the device as a whole that  *)
(* end in UNIMPLEMENTED(FATAL).                                            *)
ObjectProperties == {"DEADZONE", "SATURATION", "RANGE"}
DeviceProperties == {"BUFFERSIZE", "AXISMODE"}

IsAxis(object) == object # None /\ Object(object).type = "ABSAXIS"

(* What GetProperty and SetProperty both refuse to do.                     *)
Refused(guid, how, obj) ==
  LET object == FindPropertyObject(how, obj)
  IN  \/ guid = "BUFFERSIZE" /\ how # "DEVICE" /\ Return("DIERR_INVALIDPARAM")
      \/ guid = "BUFFERSIZE" /\ how = "DEVICE" /\ Abort("unimplemented")
      \/ guid \in ObjectProperties /\ how = "BYUSAGE" /\ Abort("unimplemented")
      \/ /\ guid \in ObjectProperties /\ how # "BYUSAGE" /\ object = None
         /\ Return("DIERR_OBJECTNOTFOUND")
      \/ /\ guid \in ObjectProperties /\ object # None /\ ~IsAxis(object)
         /\ Return("DIERR_INVALIDPARAM")

(* GetProperty knows nothing of AXISMODE either.                           *)
GetProperty(guid, how, obj) ==
  LET object == FindPropertyObject(how, obj)
      s      == settings[object]
      shown(dword) == IF dword \in Lossy THEN dword - 1 ELSE dword
  IN  /\ \/ Refused(guid, how, obj)
         \/ guid = "AXISMODE" /\ how # "DEVICE" /\ Return("DIERR_INVALIDPARAM")
         \/ guid = "AXISMODE" /\ how = "DEVICE" /\ Abort("unimplemented")
         \/ /\ guid \in ObjectProperties /\ IsAxis(object)
            /\ answer' = [result |-> "DI_OK",
                          value  |-> CASE guid = "DEADZONE"   -> shown(s.deadzone)
                                       [] guid = "SATURATION" -> shown(s.saturation)
                                       [] guid = "RANGE" -> <<s.range_min, s.range_max>>]
            /\ UNCHANGED aborted
      /\ UNCHANGED <<layout, settings, inputs>>

(* Mutant: any value is taken.                                             *)
SettableAlways(dword) == dword \in Nat

Settable(dword) == dword <= 10000

SetProperty(guid, how, obj, dword, range) ==
  LET object == FindPropertyObject(how, obj)
  IN  /\ \/ Refused(guid, how, obj) /\ UNCHANGED settings
         \/ guid = "AXISMODE" /\ Return("DI_OK") /\ UNCHANGED settings
         \/ /\ guid \in {"DEADZONE", "SATURATION"} /\ IsAxis(object) /\ ~Settable(dword)
            /\ Return("DIERR_INVALIDPARAM") /\ UNCHANGED settings
         \/ /\ guid = "DEADZONE" /\ IsAxis(object) /\ Settable(dword)
            /\ settings' = [settings EXCEPT ![object].deadzone = dword]
            /\ Return("DI_OK")
         \/ /\ guid = "SATURATION" /\ IsAxis(object) /\ Settable(dword)
            /\ settings' = [settings EXCEPT ![object].saturation = dword]
            /\ Return("DI_OK")
         \/ /\ guid = "RANGE" /\ IsAxis(object)
            /\ settings' = [settings EXCEPT ![object].range_min = range[1],
                                            ![object].range_max = range[2]]
            /\ Return("DI_OK")
      /\ UNCHANGED <<layout, inputs>>

(* DIDEVCAPS, which counts the triggers among the axes.                    *)
GetCapabilities ==
  /\ answer' = [result |-> "DI_OK", dwAxes |-> 6, dwButtons |-> 14, dwPOVs |-> 1]
  /\ UNCHANGED <<layout, settings, inputs, aborted>>

(* The callback gets one object after the other, whatever flags says, until *)
(* it has had enough; none, if flags names a collection.                   *)
EnumObjects(collection, wanted) ==
  /\ answer' = [result |-> "DI_OK",
                objects |-> IF collection THEN {} ELSE {i \in Objects : i <= wanted}]
  /\ UNCHANGED <<layout, settings, inputs, aborted>>

(* Calls refused for the size of a structure they pass, those that do      *)
(* nothing but succeed (Acquire, Unacquire, SetCooperativeLevel,           *)
(* GetDeviceInfo) or fail (the effects), and those that end the process    *)
(* with UNIMPLEMENTED(FATAL), GetDeviceData among them.                    *)
OtherCall ==
  /\ \/ Return("DIERR_INVALIDPARAM") \/ Return("DI_OK") \/ Return("unsupported")
     \/ Abort("unimplemented")
  /\ UNCHANGED <<layout, settings, inputs>>

-----------------------------------------------------------------------------
Targets ==
  ({"BYOFFSET"} \X Offsets) \cup ({"BYID"} \X Identifiers)
    \cup ({"DEVICE", "BYUSAGE"} \X {0})

Properties ==
  \E guid \in ObjectProperties \cup DeviceProperties, t \in Targets :
    \/ GetProperty(guid, t[1], t[2])
    \/ \E dword \in DWords, range \in Ranges :
         SetProperty(guid, t[1], t[2], dword, range)

Enumeration ==
  \E collection \in BOOLEAN, wanted \in {1, Cardinality(Objects)} :
    EnumObjects(collection, wanted)

Stopped == aborted # "no" /\ UNCHANGED vars

Next ==
  \/ /\ aborted = "no"
     /\ \/ \E f \in Formats : SetDataFormat(f)
        \/ GetDeviceState \/ Poll \/ Properties \/ Enumeration
        \/ GetCapabilities \/ OtherCall
  \/ Stopped

Spec == Init /\ [][Next]_vars

-----------------------------------------------------------------------------
(* The members of the device hold values of their types, and no more       *)
(* objects are consumed than there are.                                    *)
TypeOK ==
  /\ matched \subseteq Objects
  /\ DOMAIN settings = Objects
  /\ \A i \in Objects :
       /\ DOMAIN settings[i] = {"range_min", "range_max", "deadzone", "saturation"}
       /\ settings[i].range_min \in Int /\ settings[i].range_max \in Int
       /\ settings[i].deadzone \in Share /\ settings[i].saturation \in Share
  /\ device_formats_ \in Seq([object : Objects, offset : Nat])
  /\ Len(device_formats_) <= Cardinality(Objects)
  /\ device_format_defaults_ \subseteq Nat
  /\ inputs \in Inputs
  /\ format \in Formats \cup {None}
  /\ aborted \in {"no", "check", "overrun", "unimplemented"}

(* A layout the device accepted is served as far as it can be: each entry  *)
(* gets an object that fits it, or there was none left that does.          *)
NothingLeftOut ==
  format # None =>
    \A e \in Range(format.objs) :
      \/ \E k \in DOMAIN device_formats_ :
           device_formats_[k].offset = e.offset /\ Fits(device_formats_[k].object, e)
      \/ \A i \in Objects : Fits(i, e) => i \in matched

(* "Some fields (e.g. POV hats) need to be set to non-zero values if not   *)
(* found" (dhc_dinput.h line 155), for zero is north: a hat the game asked *)
(* for by its guid and that no object feeds reads as centred.  And only if *)
(* not found: no object is read where a default goes (until a second       *)
(* layout is added to the first).                                          *)
MissingHatsCentred ==
  /\ "state" \in DOMAIN answer =>
       \A i \in DOMAIN format.objs :
         LET e == format.objs[i]
         IN  e.guid = "POV" =>
               \/ answer.state[i] = -1
               \/ \E k \in DOMAIN device_formats_ : device_formats_[k].offset = e.offset
  /\ sets <= 1 =>
       \A k \in DOMAIN device_formats_ :
         device_formats_[k].offset \notin device_format_defaults_

(* The CHECKs in Apply (dinput.cpp lines 791 to 825) never fail for a game *)
(* that passes the size of the layout it set.                              *)
ChecksHold == aborted # "check"

(* What GetDeviceState writes is inside the buffer, each object at its own *)
(* place in it, for a game that sets one layout after another, some of     *)
(* them refused, as long as none is smaller than one before.               *)
WritesFit ==
  aborted \in {"check", "overrun"} => format.size < largest

(* A property the game sets reaches the axis it means: by identifier, the  *)
(* object EnumObjects announced with it, by offset, the object whose value *)
(* GetDeviceState puts there (until a second layout is added to the first). *)
PropertiesAddress ==
  /\ \A i \in Objects :
       FindPropertyObject("BYID",
         [types |-> {Object(i).type}, instance |-> Object(i).instance_id,
          optional |-> FALSE, leftover |-> FALSE]) = i
  /\ sets <= 1 =>
       \A k \in DOMAIN device_formats_, in \in Inputs :
         LET o == device_formats_[k].offset
         IN  ReadAt(o, in) = Reading(FindPropertyObject("BYOFFSET", o), in)

AxisSettings == {settings[i] : i \in {j \in Objects : IsAxis(j)}}

(* A stick pushed all the way reads as the end of the range, and one that  *)
(* is let go as its middle, whatever deadzone and saturation are set (but  *)
(* for a saturation of zero, where there is no middle).                    *)
FullDeflection ==
  \A s \in AxisSettings :
    /\ AxisReading(s, 0) = s.range_min
    /\ AxisReading(s, Scale) = s.range_max
    /\ s.saturation > 0 =>
         AxisReading(s, Centre) = Truncate(s.range_min + s.range_max, 2)

(* Pushing a stick further never makes its reading go back, for any        *)
(* combination of deadzone, saturation and range.                          *)
NeverBackwards ==
  \A s \in AxisSettings : \A v, w \in Axis :
    v <= w /\ s.range_min <= s.range_max => AxisReading(s, v) <= AxisReading(s, w)

===============================================================================
