-------------------------- MODULE DirectInput8Proofs ---------------------------
(***************************************************************************)
(* Proofs that the reference counts of the COM objects are exact, for any  *)
(* number of devices and any number of references a game may hold, and     *)
(* that a device is created under the guid it is shown with.               *)
(***************************************************************************)
EXTENDS DirectInput8, SequenceTheorems, TLAPS

Counted ==
  /\ refs \in [Objects -> Nat \cup {None}]
  /\ held \in [Objects -> 0..MaxHeld]

(* An interface and its devices come into being together.                  *)
MadeTogether ==
  \A c \in CharTypes : \A d \in DevicesOf(c) : refs[d] = None <=> refs[<<c>>] = None

IInv == Counted /\ CountsExact /\ MadeTogether

-----------------------------------------------------------------------------
(* An interface is no device, and is named by its kind.                    *)
LEMMA Kinds ==
  /\ \A c \in CharTypes : <<c>> \in Objects /\ <<c>> \notin AllDevices
  /\ \A c \in CharTypes : DevicesOf(c) \subseteq AllDevices
  /\ AllDevices \subseteq Objects
  /\ \A c, e \in CharTypes : c # e => DevicesOf(c) \cap DevicesOf(e) = {}
  /\ \A c, e \in CharTypes : c # e => <<c>> # <<e>>
  BY DEF Objects, Interfaces, AllDevices, DevicesOf, DeviceOf, DeviceIndexes

(* Who holds a reference is not the last one: releasing it deletes nothing. *)
LEMMA ReleaseHeld ==
  ASSUME IInv, NEW o \in Objects, held[o] > 0
  PROVE  /\ refs[o] = held[o] + 1
         /\ Release(refs, o) = [refs EXCEPT ![o] = @ - 1]
  <1>1. held[o] \in Nat /\ held[o] # 0
    BY DirectInput8Assumption DEF IInv, Counted
  <1>2. refs[o] = held[o] + 1
    BY <1>1 DEF IInv, CountsExact
  <1>3. refs[o] # 1
    BY <1>1, <1>2
  <1>4. Release(refs, o) = [x \in Objects |-> IF x \in {o} THEN refs[x] - 1 ELSE refs[x]]
    BY <1>3 DEF Release
  <1>5. QED
    BY <1>2, <1>4 DEF IInv, Counted

(* An object that is there and gets one more reference the game holds.     *)
LEMMA OneMore ==
  ASSUME IInv, NEW o \in Objects, refs[o] # None, held[o] < MaxHeld,
         refs' = AddRef(refs, o), held' = [held EXCEPT ![o] = @ + 1],
         UNCHANGED xinput_enabled
  PROVE  IInv'
  <1>1. held[o] \in Nat /\ held[o] + 1 \in 0..MaxHeld /\ refs[o] = held[o] + 1
    BY DirectInput8Assumption DEF IInv, Counted, CountsExact
  <1>2. refs[o] + 1 \in Nat /\ refs[o] + 1 # None
    BY <1>1, DirectInput8Assumption
  <1>3. refs' = [refs EXCEPT ![o] = refs[o] + 1]
    BY DEF AddRef
  <1>4. Counted'
    BY <1>1, <1>2, <1>3 DEF IInv, Counted
  <1>5. CountsExact'
    BY <1>1, <1>2, <1>3 DEF IInv, Counted, CountsExact
  <1>6. \A x \in Objects : refs'[x] = None <=> refs[x] = None
    BY <1>2, <1>3 DEF IInv, Counted
  <1>7. MadeTogether'
    <2>1. \A c \in CharTypes : DevicesOf(c)' = DevicesOf(c)
      BY DEF DevicesOf, DeviceIndexes
    <2>2. QED
      BY <1>6, <2>1, Kinds DEF IInv, MadeTogether
  <1>8. QED
    BY <1>4, <1>5, <1>7 DEF IInv

(* Making an interface keeps the counts exact, and there is one then.      *)
LEMMA Made ==
  ASSUME IInv, NEW c \in CharTypes
  PROVE  LET made == StaticInstance(c)
         IN  /\ made \in [Objects -> Nat \cup {None}]
             /\ made[<<c>>] \in Nat /\ made[<<c>>] = held[<<c>>] + 1
             /\ \A o \in Objects : made[o] = None \/ made[o] = held[o] + 1
             /\ \A o \in Objects : made[o] = None => held[o] = 0
             /\ \A e \in CharTypes : \A d \in DevicesOf(e) :
                  made[d] = None <=> made[<<e>>] = None
  <1> DEFINE made == StaticInstance(c)
  <1>0. <<c>> \in Objects
    BY Kinds
  <1>1. CASE refs[<<c>>] # None
    <2>1. made = refs
      BY <1>1 DEF StaticInstance
    <2>2. QED
      BY <1>0, <1>1, <2>1, DirectInput8Assumption
      DEF IInv, Counted, CountsExact, MadeTogether
  <1>2. CASE refs[<<c>>] = None
    <2>1. made = [o \in Objects |-> IF o \in {<<c>>} \cup DevicesOf(c) THEN 1 ELSE refs[o]]
      BY <1>2 DEF StaticInstance
    <2>2. \A o \in {<<c>>} \cup DevicesOf(c) : o \in Objects /\ held[o] = 0 /\ made[o] = 1
      BY <1>0, <1>2, <2>1, Kinds DEF IInv, CountsExact, MadeTogether
    <2>3. 1 # None
      BY DirectInput8Assumption
    <2>4. \A e \in CharTypes : \A d \in DevicesOf(e) :
            made[d] = None <=> made[<<e>>] = None
      <3> SUFFICES ASSUME NEW e \in CharTypes, NEW d \in DevicesOf(e)
                   PROVE  made[d] = None <=> made[<<e>>] = None
        OBVIOUS
      <3>1. CASE e = c
        BY <2>2, <2>3, <3>1
      <3>2. CASE e # c
        <4>1. d \notin {<<c>>} \cup DevicesOf(c) /\ d \in Objects
          BY <3>2, Kinds
        <4>2. <<e>> \notin {<<c>>} \cup DevicesOf(c) /\ <<e>> \in Objects
          BY <3>2, Kinds
        <4>3. QED
          BY <2>1, <4>1, <4>2 DEF IInv, MadeTogether
      <3>3. QED
        BY <3>1, <3>2
    <2>5. \A o \in Objects : o \notin {<<c>>} \cup DevicesOf(c) => made[o] = refs[o]
      BY <2>1
    <2>6. made \in [Objects -> Nat \cup {None}]
      BY <2>1 DEF IInv, Counted
    <2>7. QED
      BY <1>0, <2>2, <2>4, <2>5, <2>6 DEF IInv, CountsExact
  <1>3. QED
    BY <1>1, <1>2

LEMMA InitIInv == Init => IInv
  BY Kinds, DirectInput8Assumption DEF Init, IInv, Counted, CountsExact, MadeTogether

-----------------------------------------------------------------------------
LEMMA CreateIInv ==
  ASSUME IInv, NEW c \in CharTypes, DirectInput8Create(c)
  PROVE  IInv'
  <1> DEFINE made == StaticInstance(c)
  <1>0. <<c>> \in Objects
    BY Kinds
  <1>1. CASE UNCHANGED <<xinput_enabled, refs, held>>
    BY <1>1 DEF IInv, Counted, CountsExact, MadeTogether, DevicesOf, DeviceIndexes
  <1>2. CASE /\ refs' = AddRef(made, <<c>>)
             /\ held' = [held EXCEPT ![<<c>>] = @ + 1]
             /\ UNCHANGED xinput_enabled
    <2>1. held[<<c>>] \in Nat /\ held[<<c>>] + 1 \in 0..MaxHeld
      BY <1>0, DirectInput8Assumption DEF DirectInput8Create, IInv, Counted
    <2>2. refs' = [made EXCEPT ![<<c>>] = made[<<c>>] + 1]
      BY <1>2 DEF AddRef
    <2>3. made[<<c>>] + 1 \in Nat /\ made[<<c>>] + 1 # None /\ made[<<c>>] # None
      BY Made, DirectInput8Assumption
    <2>4. Counted'
      BY <1>2, <2>1, <2>2, <2>3, Made DEF IInv, Counted
    <2>5. CountsExact'
      <3> SUFFICES ASSUME NEW o \in Objects
                   PROVE  /\ held'[o] \in 0..MaxHeld
                          /\ refs'[o] \in {None, held'[o] + 1}
                          /\ refs'[o] = None => held'[o] = 0
        BY DEF CountsExact
      <3>1. CASE o = <<c>>
        BY <1>2, <2>1, <2>2, <2>3, <3>1, <1>0, Made DEF IInv, Counted
      <3>2. CASE o # <<c>>
        BY <1>2, <2>2, <3>2, Made DEF IInv, Counted
      <3>3. QED
        BY <3>1, <3>2
    <2>6. \A o \in Objects : refs'[o] = None <=> made[o] = None
      BY <2>2, <2>3, Made
    <2>7. \A e \in CharTypes : DevicesOf(e)' = DevicesOf(e)
      BY <1>2 DEF DevicesOf, DeviceIndexes
    <2>8. MadeTogether'
      <3> SUFFICES ASSUME NEW e \in CharTypes, NEW x \in DevicesOf(e)
                   PROVE  refs'[x] = None <=> refs'[<<e>>] = None
        BY <2>7 DEF MadeTogether
      <3>1. x \in Objects /\ <<e>> \in Objects
        BY Kinds
      <3>2. made[x] = None <=> made[<<e>>] = None
        BY Made
      <3>3. QED
        BY <2>6, <3>1, <3>2
    <2>9. QED
      BY <2>4, <2>5, <2>8 DEF IInv
  <1>3. QED
    BY <1>1, <1>2 DEF DirectInput8Create

LEMMA ReleaseIInv ==
  ASSUME IInv, NEW o \in Objects, GameReleases(o)
  PROVE  IInv'
  <1>1. held[o] > 0 /\ held[o] \in 0..MaxHeld
    BY DEF GameReleases, IInv, Counted
  <1>2. refs[o] = held[o] + 1 /\ refs' = [refs EXCEPT ![o] = @ - 1]
    BY <1>1, ReleaseHeld DEF GameReleases
  <1>3. held[o] - 1 \in 0..MaxHeld /\ refs[o] - 1 = held[o] /\ held[o] \in Nat
        /\ held[o] # None /\ refs[o] # None
    BY <1>1, <1>2, DirectInput8Assumption
  <1>4. held' = [held EXCEPT ![o] = held[o] - 1] /\ refs' = [refs EXCEPT ![o] = held[o]]
    BY <1>2, <1>3 DEF GameReleases
  <1>5. Counted'
    BY <1>3, <1>4 DEF IInv, Counted
  <1>6. CountsExact'
    BY <1>3, <1>4 DEF IInv, Counted, CountsExact
  <1>7. \A x \in Objects : refs'[x] = None <=> refs[x] = None
    BY <1>3, <1>4 DEF IInv, Counted
  <1>8. \A c \in CharTypes : DevicesOf(c)' = DevicesOf(c)
    BY DEF GameReleases, DevicesOf, DeviceIndexes
  <1>9. MadeTogether'
    BY <1>7, <1>8, Kinds DEF IInv, MadeTogether
  <1>10. QED
    BY <1>5, <1>6, <1>9 DEF IInv

LEMMA CreateDeviceIInv ==
  ASSUME IInv, NEW c \in CharTypes, NEW guid, CreateDevice(c, guid)
  PROVE  IInv'
  <1> DEFINE i == parse_dhc_guid(guid)
             d == DeviceOf(c, i)
  <1>1. CASE UNCHANGED <<xinput_enabled, refs, held>>
    BY <1>1 DEF IInv, Counted, CountsExact, MadeTogether, DevicesOf, DeviceIndexes
  <1>2. CASE /\ i \in DeviceIndexes /\ held[d] < MaxHeld
             /\ refs' = Clone(d)
             /\ held' = [held EXCEPT ![d] = @ + 1]
             /\ UNCHANGED xinput_enabled
    <2>1. d \in DevicesOf(c) /\ d \in Objects /\ <<c>> \in Objects
      BY <1>2, Kinds DEF DevicesOf
    <2>2. held[<<c>>] > 0
      BY DEF CreateDevice
    <2>3. refs[<<c>>] = held[<<c>>] + 1 /\ held[<<c>>] \in Nat
      BY <2>1, <2>2, ReleaseHeld, DirectInput8Assumption DEF IInv, Counted
    <2>4. refs[<<c>>] # None
      BY <2>3, DirectInput8Assumption
    <2>5. refs[d] # None
      BY <2>1, <2>4 DEF IInv, MadeTogether
    <2>6. QED
      BY <1>2, <2>1, <2>5, OneMore DEF Clone
  <1>3. QED
    BY <1>1, <1>2 DEF CreateDevice

LEMMA QueryIInv ==
  ASSUME IInv, NEW o \in Objects, QueryInterface(o)
  PROVE  IInv'
  <1>1. CASE UNCHANGED <<xinput_enabled, refs, held>>
    BY <1>1 DEF IInv, Counted, CountsExact, MadeTogether, DevicesOf, DeviceIndexes
  <1>2. CASE /\ refs' = AddRef(refs, o)
             /\ held' = [held EXCEPT ![o] = @ + 1]
             /\ UNCHANGED xinput_enabled
    <2>1. held[o] \in 1..(MaxHeld - 1)
      BY DEF QueryInterface
    <2>2. held[o] > 0 /\ held[o] < MaxHeld /\ held[o] \in Nat
      BY <2>1, DirectInput8Assumption
    <2>3. refs[o] = held[o] + 1
      BY <2>2, ReleaseHeld
    <2>4. refs[o] # None
      BY <2>2, <2>3, DirectInput8Assumption
    <2>5. QED
      BY <1>2, <2>2, <2>4, OneMore
  <1>3. QED
    BY <1>1, <1>2 DEF QueryInterface

LEMMA NextIInv == IInv /\ [Next]_vars => IInv'
  <1> SUFFICES ASSUME IInv, [Next]_vars PROVE IInv'
    OBVIOUS
  <1>1. CASE UNCHANGED <<xinput_enabled, refs, held>>
    BY <1>1 DEF IInv, Counted, CountsExact, MadeTogether, DevicesOf, DeviceIndexes
  <1>2. ASSUME NEW o \in Objects, QueryInterface(o) \/ GameReleases(o) PROVE IInv'
    BY <1>2, QueryIInv, ReleaseIInv
  <1>3. ASSUME NEW c \in CharTypes, DirectInput8Create(c) PROVE IInv'
    BY <1>3, CreateIInv
  <1>4. ASSUME NEW c \in CharTypes, NEW guid, CreateDevice(c, guid) PROVE IInv'
    BY <1>4, CreateDeviceIInv
  <1>5. ASSUME NEW c \in CharTypes, NEW class \in Classes, NEW n \in {1, DeviceCount + 2},
               EnumDevices(c, class, n)
        PROVE  IInv'
    BY <1>1, <1>5 DEF EnumDevices
  <1>6. ASSUME NEW c \in CharTypes, Unimplemented(c) PROVE IInv'
    BY <1>1, <1>6 DEF Unimplemented
  <1>7. CASE UnknownInterface \/ OtherExport \/ Stopped \/ UNCHANGED vars
    BY <1>1, <1>7 DEF UnknownInterface, OtherExport, Stopped, vars
  <1>8. QED
    BY <1>2, <1>3, <1>4, <1>5, <1>6, <1>7 DEF Next

(* Whatever the game creates, queries and releases, in any order, an       *)
(* object's count is the references held on it and one of dhc's own: no    *)
(* object that is held, or will be handed out again, is ever deleted.      *)
THEOREM ExactCounts == Spec => []CountsExact
  <1>1. IInv => CountsExact
    BY DEF IInv
  <1>2. QED
    BY <1>1, InitIInv, NextIInv, PTL DEF Spec

-----------------------------------------------------------------------------
(* What create_dhc_guid writes, parse_dhc_guid reads.                      *)
LEMMA Halves ==
  ASSUME NEW v \in Nat
  PROVE  v % 256 \in 0..255 /\ v \div 256 \in Nat /\ v = (v % 256) + 256 * (v \div 256)
  OBVIOUS

LEMMA GuidRoundTrip ==
  ASSUME NEW i \in Nat, i < DWords
  PROVE  parse_dhc_guid(create_dhc_guid(i)) = i
  <1> DEFINE j == i \div 256
             k == j \div 256
             l == k \div 256
  <1>1. i % 256 \in 0..255 /\ j \in Nat /\ i = (i % 256) + 256 * j
    BY Halves
  <1>2. j % 256 \in 0..255 /\ k \in Nat /\ j = (j % 256) + 256 * k
    BY <1>1, Halves
  <1>3. k % 256 \in 0..255 /\ l \in Nat /\ k = (k % 256) + 256 * l
    BY <1>2, Halves
  <1>4. l < 128 /\ l % 256 = l
    <2>1. 256 * j <= i /\ 256 * k <= j /\ 256 * l <= k
      BY <1>1, <1>2, <1>3
    <2>2. i < 256 * (256 * (256 * 127))
      BY DEF DWords
    <2>3. j < 256 * (256 * 127)
      BY <2>1, <2>2, <1>1
    <2>4. k < 256 * 127
      BY <2>1, <2>3, <1>1, <1>2
    <2>5. l < 128
      BY <2>1, <2>4, <1>2, <1>3
    <2>6. QED
      BY <2>5, <1>3
  <1>5. Memory(i) = <<i % 256, j % 256, k % 256, l>>
    BY <1>4 DEF Memory
  <1>6. create_dhc_guid(i) = <<l, k % 256, j % 256, i % 256>>
    BY <1>5 DEF create_dhc_guid, Swapped
  <1>7. <<l, k % 256, j % 256, i % 256>> \in Nat \X Nat \X Nat \X Nat
    BY <1>1, <1>2, <1>3
  <1>8. create_dhc_guid(i) # None
    BY <1>6, <1>7, DirectInput8Assumption
  <1>9. Swapped(create_dhc_guid(i)) = <<i % 256, j % 256, k % 256, l>>
    BY <1>6 DEF Swapped
  <1>10. ValueOf(<<i % 256, j % 256, k % 256, l>>) = i
    BY <1>1, <1>2, <1>3 DEF ValueOf
  <1>11. QED
    BY <1>8, <1>9, <1>10 DEF parse_dhc_guid

Guids == Nat \X Nat \X Nat \X Nat

LEMMA GuidType == ASSUME NEW i \in Nat PROVE create_dhc_guid(i) \in Guids
  BY DEF create_dhc_guid, Memory, Swapped, Guids

(* The n-th of the gamepads has the guid of the device of player n.        *)
LEMMA GamepadsParse ==
  /\ Gamepads \in Seq(Guids)
  /\ \A n \in 1..Len(Gamepads) :
       parse_dhc_guid(Gamepads[n]) \in DeviceIndexes /\ parse_dhc_guid(Gamepads[n]) = n - 1
  <1> DEFINE count == IF xinput_enabled THEN 0 ELSE DeviceCount
  <1>1. count \in Nat /\ {i + 1 : i \in DeviceIndexes} = 1..count
    <2>1. count \in Nat /\ DeviceIndexes = 0..(count - 1)
      BY DirectInput8Assumption DEF DeviceIndexes
    <2> HIDE DEF count
    <2>2. ASSUME NEW n \in 1..count PROVE n \in {i + 1 : i \in DeviceIndexes}
      <3>1. n - 1 \in DeviceIndexes /\ n = (n - 1) + 1
        BY <2>1
      <3>2. QED
        BY <3>1
    <2>3. ASSUME NEW i \in DeviceIndexes PROVE i + 1 \in 1..count
      BY <2>1
    <2>4. QED
      BY <2>1, <2>2, <2>3
  <1>2. Gamepads = [n \in 1..count |-> create_dhc_guid(n - 1)]
    BY <1>1 DEF Gamepads
  <1>3. Gamepads \in [1..count -> Guids]
    BY <1>1, <1>2, GuidType
  <1>4. Gamepads \in Seq(Guids) /\ Len(Gamepads) = count
    BY <1>1, <1>3
  <1>5. ASSUME NEW n \in 1..count
        PROVE  n - 1 \in DeviceIndexes /\ parse_dhc_guid(Gamepads[n]) = n - 1
    <2>1. n - 1 \in DeviceIndexes /\ n - 1 \in Nat /\ n - 1 < DeviceCount
      BY <1>1, DirectInput8Assumption DEF DeviceIndexes
    <2>2. n - 1 < DWords
      BY <2>1, DirectInput8Assumption DEF DWords
    <2>3. QED
      BY <1>2, <2>1, <2>2, GuidRoundTrip
  <1>6. QED
    BY <1>4, <1>5

LEMMA EnumDevicesShows ==
  ASSUME NEW c \in CharTypes, NEW class \in Classes, NEW wanted \in {1, DeviceCount + 2},
         ShownCanBeCreated, EnumDevices(c, class, wanted)
  PROVE  ShownCanBeCreated'
  <1> DEFINE system == (IF class \in {"keyboard", "all"} THEN <<None>> ELSE <<>>)
                         \o (IF class \in {"pointer", "all"} THEN <<None>> ELSE <<>>)
             pads   == IF class \in {"gamectrl", "all"} THEN Gamepads ELSE <<>>
             all    == system \o pads
             shown  == IF Len(all) < wanted THEN all ELSE SubSeq(all, 1, wanted)
  <1>1. UNCHANGED xinput_enabled /\ DeviceIndexes' = DeviceIndexes
    BY DEF EnumDevices, DeviceIndexes
  <1>2. CASE UNCHANGED answer
    BY <1>1, <1>2 DEF ShownCanBeCreated, parse_dhc_guid
  <1>3. CASE answer' = [result |-> "DI_OK"]
    <2>1. "shown" \notin DOMAIN answer'
      BY <1>3
    <2>2. QED
      BY <2>1 DEF ShownCanBeCreated
  <1>4. CASE answer' = [result |-> "DI_OK", shown |-> shown, system |-> Len(system)]
    <2>1. system \in Seq({None}) /\ Len(system) \in Nat
      <3> DEFINE k == IF class \in {"keyboard", "all"} THEN <<None>> ELSE <<>>
                 m == IF class \in {"pointer", "all"} THEN <<None>> ELSE <<>>
      <3>1. k \in Seq({None}) /\ m \in Seq({None})
        <4>1. <<None>> \in Seq({None}) /\ <<>> \in Seq({None})
          OBVIOUS
        <4>2. k \in {<<None>>, <<>>} /\ m \in {<<None>>, <<>>}
          OBVIOUS
        <4> HIDE DEF k, m
        <4>3. QED
          BY <4>1, <4>2
      <3>2. system = k \o m
        OBVIOUS
      <3> HIDE DEF k, m, system
      <3>3. QED
        BY <3>1, <3>2, ConcatProperties, LenProperties
    <2>2. /\ pads \in Seq(Guids)
          /\ \A n \in 1..Len(pads) : parse_dhc_guid(pads[n]) \in DeviceIndexes
                                       /\ parse_dhc_guid(pads[n]) = n - 1
      BY GamepadsParse
    <2> HIDE DEF system, pads
    <2>3. /\ all \in Seq(Guids \cup {None}) /\ Len(all) = Len(system) + Len(pads)
          /\ \A n \in 1..Len(all) : n > Len(system) => all[n] = pads[n - Len(system)]
      BY <2>1, <2>2
    <2>4. wanted \in Nat
      BY DirectInput8Assumption
    <2> HIDE DEF all
    <2>5. DOMAIN shown \subseteq 1..Len(all) /\ \A n \in DOMAIN shown : shown[n] = all[n]
      BY <2>3, <2>4
    <2> HIDE DEF shown
    <2>6. ASSUME NEW n \in DOMAIN shown, n > Len(system)
          PROVE  /\ parse_dhc_guid(shown[n]) \in DeviceIndexes
                 /\ parse_dhc_guid(shown[n]) = n - Len(system) - 1
      BY <2>1, <2>2, <2>3, <2>5, <2>6
    <2>7. QED
      BY <1>1, <1>4, <2>6 DEF ShownCanBeCreated
  <1>5. QED
    BY <1>2, <1>3, <1>4 DEF EnumDevices, Returns, Dies

(* The other calls leave no list of devices for an answer.                 *)
LEMMA NextShows == ShownCanBeCreated /\ [Next]_vars => ShownCanBeCreated'
  <1> SUFFICES ASSUME ShownCanBeCreated, [Next]_vars PROVE ShownCanBeCreated'
    OBVIOUS
  <1>1. CASE UNCHANGED <<xinput_enabled, answer>>
    <2>1. DeviceIndexes' = DeviceIndexes
      BY <1>1 DEF DeviceIndexes
    <2>2. QED
      BY <1>1, <2>1 DEF ShownCanBeCreated
  <1>2. ASSUME NEW result, answer' = [result |-> result] PROVE ShownCanBeCreated'
    <2>1. "shown" \notin DOMAIN answer'
      BY <1>2
    <2>2. QED
      BY <2>1 DEF ShownCanBeCreated
  <1>3. ASSUME NEW result, NEW o, answer' = [result |-> result, object |-> o]
        PROVE  ShownCanBeCreated'
    <2>1. "shown" \notin DOMAIN answer'
      BY <1>3
    <2>2. QED
      BY <2>1 DEF ShownCanBeCreated
  <1>4. ASSUME NEW c \in CharTypes, NEW class \in Classes, NEW n \in {1, DeviceCount + 2},
               EnumDevices(c, class, n)
        PROVE  ShownCanBeCreated'
    BY <1>4, EnumDevicesShows
  <1>5. CASE Stopped \/ UNCHANGED vars
    BY <1>1, <1>5 DEF Stopped, vars
  <1>6. ASSUME NEW o \in Objects, QueryInterface(o) PROVE ShownCanBeCreated'
    BY <1>2, <1>3, <1>6 DEF QueryInterface, Returns
  <1>7. ASSUME NEW o \in Objects, GameReleases(o) PROVE ShownCanBeCreated'
    BY <1>2, <1>7 DEF GameReleases, Returns
  <1>8. ASSUME NEW c \in CharTypes, DirectInput8Create(c) PROVE ShownCanBeCreated'
    BY <1>1, <1>3, <1>8 DEF DirectInput8Create, Dies
  <1>9. ASSUME NEW c \in CharTypes, NEW guid, CreateDevice(c, guid)
        PROVE  ShownCanBeCreated'
    BY <1>1, <1>2, <1>3, <1>9 DEF CreateDevice, Returns, Dies
  <1>10. ASSUME NEW c \in CharTypes, Unimplemented(c) PROVE ShownCanBeCreated'
    BY <1>1, <1>10 DEF Unimplemented, Dies
  <1>11. CASE UnknownInterface \/ OtherExport
    BY <1>1, <1>2, <1>11 DEF UnknownInterface, OtherExport, Returns, Dies
  <1>12. QED
    BY <1>4, <1>5, <1>6, <1>7, <1>8, <1>9, <1>10, <1>11 DEF Next

(* For any number of players: the guid with which EnumDevices shows the    *)
(* n-th of them is the one under which CreateDevice makes its device.      *)
THEOREM ShownAreCreated == Spec => []ShownCanBeCreated
  <1>1. Init => ShownCanBeCreated
    BY DEF Init, ShownCanBeCreated
  <1>2. QED
    BY <1>1, NextShows, PTL DEF Spec
===============================================================================
