----------------------------- MODULE DirectInput8 -----------------------------
(***************************************************************************)
(* The COM objects of dinput8.dll: the two EmulatedDirectInput8 (ASCII and *)
(* Unicode) that DirectInput8Create hands out, one per process, and the    *)
(* EmulatedDirectInputDevice8 each of them owns.  They count references    *)
(* (com_base, com_ptr in utils.h) and delete themselves at zero.           *)
(*                                                                         *)
(* The game releases no reference it does not hold.  It may remember the   *)
(* guid of a device from a session with another configuration.             *)
(***************************************************************************)
EXTENDS Integers, Sequences

CONSTANTS
  DeviceCount, \* CONFIG.device_count
  Indexes,     \* the devices whose guids the game may remember
  MaxHeld,     \* bound on the references the game holds on one object
  None

(* The values of a DWORD that TLC's integers hold.                         *)
DWords == 256 * 256 * 256 * 127

ASSUME DirectInput8Assumption ==
  /\ DeviceCount \in Nat /\ DeviceCount <= DWords /\ Indexes \subseteq Nat /\ MaxHeld \in Nat
  /\ None \notin Int /\ None \notin Nat \X Nat \X Nat \X Nat

CharTypes  == {"A", "W"}
Interfaces == {<<c>> : c \in CharTypes}
DeviceOf(c, i) == <<c, i>>
AllDevices == {DeviceOf(c, i) : c \in CharTypes, i \in 0..(DeviceCount - 1)}
Objects    == Interfaces \cup AllDevices

VARIABLES
  xinput_enabled, \* CONFIG.mode is XInput
  refs,           \* ref_count_ of each object: None before it is made, 0
                  \* after it was deleted
  held,           \* the references the game holds
  answer,         \* the result of the last call, and what it returned
  died            \* "no", or why the process ended

vars == <<xinput_enabled, refs, held, answer, died>>

Init ==
  /\ xinput_enabled \in BOOLEAN
  /\ refs = [o \in Objects |-> None]
  /\ held = [o \in Objects |-> 0]
  /\ answer = [result |-> "none"]
  /\ died = "no"

Returns(result) == answer' = [result |-> result] /\ UNCHANGED died
Dies(why)       == died' = why /\ UNCHANGED answer

(* devices_ of an interface: empty if the emulation is XInput.             *)
DeviceIndexes == IF xinput_enabled THEN {} ELSE 0..(DeviceCount - 1)

-----------------------------------------------------------------------------
(* The reference counts after AddRef and after Release of an object; an    *)
(* object whose last reference goes is deleted, an interface with its      *)
(* devices_, each of which is released.                                    *)
AddRef(counts, o) == [counts EXCEPT ![o] = @ + 1]

DevicesOf(c) == {DeviceOf(c, i) : i \in DeviceIndexes}

Release(counts, o) ==
  LET released == {o} \cup (IF o \in Interfaces /\ counts[o] = 1 THEN DevicesOf(o[1]) ELSE {})
  IN  [x \in Objects |-> IF x \in released THEN counts[x] - 1 ELSE counts[x]]

(* static auto instance = new EmulatedDirectInput8(...): count 1, and one  *)
(* reference on each of its devices.                                       *)
StaticInstance(c) ==
  IF refs[<<c>>] # None THEN refs
  ELSE [o \in Objects |->
          IF o \in {<<c>>} \cup DevicesOf(c) THEN 1 ELSE refs[o]]

(* How getting the system's own interface may end when an interface is     *)
(* made: the system directory is not found or the system refuses, and a    *)
(* CHECK fails; or the system's dinput8.dll, loaded for the first of them, *)
(* is not there, which is logged, and then called through a null pointer.  *)
GetRealDirectInput8 ==
  {"ok", "check"} \cup
    (IF \A c \in CharTypes : refs[<<c>>] = None THEN {"undefined"} ELSE {})

(* An IID of neither kind fails a CHECK (UnknownInterface).                *)
DirectInput8Create(c) ==
  /\ held[<<c>>] < MaxHeld
  /\ \/ /\ refs' = AddRef(StaticInstance(c), <<c>>)
        /\ held' = [held EXCEPT ![<<c>>] = @ + 1]
        /\ answer' = [result |-> "DI_OK", object |-> <<c>>]
        /\ UNCHANGED died
     \/ /\ refs[<<c>>] = None
        /\ \E end \in GetRealDirectInput8 \ {"ok"} : Dies(end)
        /\ UNCHANGED <<refs, held>>
  /\ UNCHANGED xinput_enabled

UnknownInterface == Dies("check") /\ UNCHANGED <<xinput_enabled, refs, held>>

(* QueryInterface of either kind of object, for its own IID or another.    *)
QueryInterface(o) ==
  /\ held[o] \in 1..(MaxHeld - 1)
  /\ \/ /\ refs' = AddRef(refs, o)
        /\ held' = [held EXCEPT ![o] = @ + 1]
        /\ answer' = [result |-> "DI_OK", object |-> o]
        /\ UNCHANGED died
     \/ Returns("E_NOINTERFACE") /\ UNCHANGED <<refs, held>>
     \/ Returns("E_INVALIDARG") /\ UNCHANGED <<refs, held>>
  /\ UNCHANGED xinput_enabled

GameReleases(o) ==
  /\ held[o] > 0
  /\ refs' = Release(refs, o)
  /\ held' = [held EXCEPT ![o] = @ - 1]
  /\ Returns("count")
  /\ UNCHANGED xinput_enabled

-----------------------------------------------------------------------------
(* A guid of dhc's ends in four bytes, the index with its bytes swapped in *)
(* memory; any other guid is None here.                                    *)
Memory(value) ==
  << value % 256, (value \div 256) % 256, ((value \div 256) \div 256) % 256,
     (((value \div 256) \div 256) \div 256) % 256 >>

ValueOf(bytes) == bytes[1] + 256 * (bytes[2] + 256 * (bytes[3] + 256 * bytes[4]))

Swapped(bytes) == <<bytes[4], bytes[3], bytes[2], bytes[1]>>

create_dhc_guid(index) == Swapped(Memory(index))

(* Mutant: the bytes are not swapped back.                                 *)
parse_dhc_guidUnswapped(guid) == IF guid = None THEN None ELSE ValueOf(guid)

parse_dhc_guid(guid) == IF guid = None THEN None ELSE ValueOf(Swapped(guid))

(* Mutant: the reference of the clone is dropped again (get, not release). *)
CloneGet(o) == Release(AddRef(refs, o), o)

(* devices_[i].clone().release().                                          *)
Clone(o) == AddRef(refs, o)

(* CreateDevice for the keyboard or the mouse, for a guid nobody knows, or *)
(* for one of dhc's: the index is not checked, and beyond the end of       *)
(* devices_ anything may be called.                                        *)
CreateDevice(c, guid) ==
  LET i == parse_dhc_guid(guid)
  IN  /\ held[<<c>>] > 0
      /\ \/ /\ i \in DeviceIndexes
            /\ held[DeviceOf(c, i)] < MaxHeld
            /\ refs' = Clone(DeviceOf(c, i))
            /\ held' = [held EXCEPT ![DeviceOf(c, i)] = @ + 1]
            /\ answer' = [result |-> "DI_OK", object |-> DeviceOf(c, i)]
            /\ UNCHANGED died
         \/ /\ i \notin DeviceIndexes \cup {None}
            /\ Dies("undefined") /\ UNCHANGED <<refs, held>>
         \/ /\ i = None
            /\ Returns("passthrough") \/ Returns("DIERR_DEVICENOTREG")
            /\ UNCHANGED <<refs, held>>
      /\ UNCHANGED xinput_enabled

(* The virtual devices in the order of their players, by their guids.      *)
Gamepads == [n \in {i + 1 : i \in DeviceIndexes} |-> create_dhc_guid(n - 1)]

(* EnumDevices for the class, until the callback has enough.  Nothing has  *)
(* force feedback; a flag it does not know ends the process.               *)
EnumDevices(c, class, wanted) ==
  LET system == (IF class \in {"keyboard", "all"} THEN <<None>> ELSE <<>>)
                  \o (IF class \in {"pointer", "all"} THEN <<None>> ELSE <<>>)
      all    == system \o (IF class \in {"gamectrl", "all"} THEN Gamepads ELSE <<>>)
      shown  == IF Len(all) < wanted THEN all ELSE SubSeq(all, 1, wanted)
  IN  /\ held[<<c>>] > 0
      /\ \/ answer' = [result |-> "DI_OK", shown |-> shown, system |-> Len(system)]
            /\ UNCHANGED died
         \/ Returns("DI_OK")        \* DIEDFL_FORCEFEEDBACK
         \/ Dies("unimplemented")   \* flags
      /\ UNCHANGED <<xinput_enabled, refs, held>>

(* DllCanUnloadNow says no; DllGetClassObject, DllRegisterServer,          *)
(* DllUnregisterServer and GetdfDIJoystick end the process.                *)
OtherExport ==
  /\ Returns("S_FALSE") \/ Dies("unimplemented")
  /\ UNCHANGED <<xinput_enabled, refs, held>>

(* GetDeviceStatus, RunControlPanel, Initialize, FindDevice,               *)
(* EnumDevicesBySemantics and ConfigureDevices.                            *)
Unimplemented(c) ==
  /\ held[<<c>>] > 0
  /\ Dies("unimplemented")
  /\ UNCHANGED <<xinput_enabled, refs, held>>

-----------------------------------------------------------------------------
Classes == {"keyboard", "pointer", "gamectrl", "all", "other"}

Stopped == died # "no" /\ UNCHANGED vars

Next ==
  \/ /\ died = "no"
     /\ \/ \E o \in Objects : QueryInterface(o) \/ GameReleases(o)
        \/ \E c \in CharTypes :
             \/ DirectInput8Create(c) \/ Unimplemented(c)
             \/ \E guid \in {create_dhc_guid(i) : i \in Indexes} \cup {None} :
                  CreateDevice(c, guid)
             \/ \E class \in Classes, wanted \in {1, DeviceCount + 2} :
                  EnumDevices(c, class, wanted)
        \/ UnknownInterface \/ OtherExport
  \/ Stopped

Spec == Init /\ [][Next]_vars

-----------------------------------------------------------------------------
(* The counts are exact: an object there is has the one reference of its   *)
(* own, the static's or its interface's, and those the game holds, in any  *)
(* order of creations, queries and releases.  So nothing is deleted while  *)
(* the game holds it, a device also after its interface was released; the  *)
(* static instances never are; and a device is the same object each time,  *)
(* with the layout its last user gave it (module DirectInputDevice).       *)
CountsExact ==
  \A o \in Objects :
    /\ held[o] \in 0..MaxHeld
    /\ refs[o] \in {None, held[o] + 1}
    /\ refs[o] = None => held[o] = 0

(* Under the guid with which EnumDevices shows a game its n-th player,     *)
(* CreateDevice makes that player's device, for as long as the             *)
(* configuration is the same.                                              *)
ShownCanBeCreated ==
  "shown" \in DOMAIN answer =>
    \A n \in DOMAIN answer.shown :
      n > answer.system =>
        /\ parse_dhc_guid(answer.shown[n]) \in DeviceIndexes
        /\ parse_dhc_guid(answer.shown[n]) = n - answer.system - 1
===============================================================================
