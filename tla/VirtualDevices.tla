---------------------------- MODULE VirtualDevices ----------------------------
(***************************************************************************)
(* The tables of dhc/src/lib.rs: State, its virtual devices (the players   *)
(* the game sees) and its real devices (the controllers announced by the   *)
(* input thread, oldest first).  The operations are those of impl State;   *)
(* Context::update calls them under the write lock, so each is one step,   *)
(* and so is each turn of the loop of State::update.                       *)
(*                                                                         *)
(* Taken alone, the module lets any device arrive that is not in the       *)
(* table, any device of the table leave, and any contents be read.  The    *)
(* module Dhc drives the same operations with the events of the input      *)
(* thread.                                                                 *)
(***************************************************************************)
EXTENDS Integers, FiniteSets, SequencesExt

CONSTANTS
  DeviceCount,    \* CONFIG.device_count
  DeviceIds,      \* input::DeviceId: raw input handles and XInput indices
  Buffers,        \* triple buffers: the name a consumer end reads from
  Inputs,         \* values of DeviceInputs
  DefaultInputs,  \* DeviceInputs::default()
  None            \* Option::None

ASSUME VirtualDevicesAssumption ==
  /\ DeviceCount \in Nat
  /\ DefaultInputs \in Inputs
  /\ None \notin DeviceIds
  /\ None \notin 0..(DeviceCount - 1)

VARIABLES
  virtual_devices,  \* State::virtual_devices, indexed as in the code from 0
  real_devices      \* State::real_devices, a Vec: oldest device first

vars == <<virtual_devices, real_devices>>

VirtualDeviceId == 0..(DeviceCount - 1)

VirtualDeviceState == [inputs : Inputs, binding : DeviceIds \cup {None}]

RealDeviceState ==
  [id : DeviceIds, buffer : Buffers, binding : VirtualDeviceId \cup {None}]

Ids(rdevs) == {rdevs[i].id : i \in DOMAIN rdevs}

-----------------------------------------------------------------------------
(* Index of the first real device called id, or None.                      *)
find_real_device(rdevs, id) ==
  IF id \in Ids(rdevs)
  THEN CHOOSE i \in DOMAIN rdevs :
         rdevs[i].id = id /\ \A j \in 1..(i - 1) : rdevs[j].id # id
  ELSE None

UnboundVirtual(vdevs) == {v \in VirtualDeviceId : vdevs[v].binding = None}
UnboundReal(rdevs)    == {r \in DOMAIN rdevs : rdevs[r].binding = None}

(* Mutant: the oldest unbound real device first (the .rev() forgotten).    *)
PairedOldestFirst(vdevs, rdevs, v, r) ==
  /\ v \in UnboundVirtual(vdevs)
  /\ r \in UnboundReal(rdevs)
  /\ Cardinality({u \in UnboundVirtual(vdevs) : u < v})
       = Cardinality({s \in UnboundReal(rdevs) : s < r})

(* Mutant: virtual devices that are bound already are bound again (the     *)
(* `continue` of the outer loop forgotten).                                *)
PairedAgain(vdevs, rdevs, v, r) ==
  /\ v \in VirtualDeviceId
  /\ r \in UnboundReal(rdevs)
  /\ v = Cardinality({s \in UnboundReal(rdevs) : s > r})

(* The loop of bind_devices takes the unbound virtual devices in order and *)
(* for each the newest real device still unbound, until either runs out:   *)
(* a virtual device is paired with the real device that has as many        *)
(* unbound ones after it as the virtual device has before it.              *)
Paired(vdevs, rdevs, v, r) ==
  /\ v \in UnboundVirtual(vdevs)
  /\ r \in UnboundReal(rdevs)
  /\ Cardinality({u \in UnboundVirtual(vdevs) : u < v})
       = Cardinality({s \in UnboundReal(rdevs) : s > r})

(* Mutant: the real device is not told which virtual device it drives.     *)
bind_devicesOneSided(vdevs, rdevs) ==
  LET chosen(v) == {r \in DOMAIN rdevs : Paired(vdevs, rdevs, v, r)}
  IN  [virtual |-> [v \in VirtualDeviceId |->
                      IF chosen(v) = {} THEN vdevs[v]
                      ELSE [vdevs[v] EXCEPT !.binding =
                              rdevs[CHOOSE r \in chosen(v) : TRUE].id]],
       real |-> rdevs]

(* Mutant: the real device is told the number of its player counted from   *)
(* one, as players are.                                                    *)
bind_devicesFromOne(vdevs, rdevs) ==
  LET player(r) == {v \in VirtualDeviceId : Paired(vdevs, rdevs, v, r)}
  IN  [virtual |-> [v \in VirtualDeviceId |->
                      IF \E r \in DOMAIN rdevs : Paired(vdevs, rdevs, v, r)
                      THEN [vdevs[v] EXCEPT !.binding =
                              rdevs[CHOOSE r \in DOMAIN rdevs :
                                      Paired(vdevs, rdevs, v, r)].id]
                      ELSE vdevs[v]],
       real |-> [r \in DOMAIN rdevs |->
                   IF player(r) = {} THEN rdevs[r]
                   ELSE [rdevs[r] EXCEPT !.binding = 1 + CHOOSE v \in player(r) : TRUE]]]

(* Both tables after State::bind_devices.                                  *)
bind_devices(vdevs, rdevs) ==
  [virtual |-> [v \in VirtualDeviceId |->
                  IF \E r \in DOMAIN rdevs : Paired(vdevs, rdevs, v, r)
                  THEN [vdevs[v] EXCEPT !.binding =
                          rdevs[CHOOSE r \in DOMAIN rdevs :
                                  Paired(vdevs, rdevs, v, r)].id]
                  ELSE vdevs[v]],
   real |-> [r \in DOMAIN rdevs |->
               IF \E v \in VirtualDeviceId : Paired(vdevs, rdevs, v, r)
               THEN [rdevs[r] EXCEPT !.binding =
                       CHOOSE v \in VirtualDeviceId : Paired(vdevs, rdevs, v, r)]
               ELSE rdevs[r]]]

(* Mutant: the virtual device keeps the inputs of the device that left.    *)
unbind_deviceKeepsInputs(vdevs, rdevs, idx) ==
  IF rdevs[idx].binding = None
  THEN [virtual |-> vdevs, real |-> rdevs]
  ELSE [virtual |-> [vdevs EXCEPT ![rdevs[idx].binding].binding = None],
        real |-> [rdevs EXCEPT ![idx].binding = None]]

(* Both tables after State::unbind_device.                                 *)
unbind_device(vdevs, rdevs, idx) ==
  IF rdevs[idx].binding = None
  THEN [virtual |-> vdevs, real |-> rdevs]
  ELSE [virtual |-> [vdevs EXCEPT ![rdevs[idx].binding] =
                       [inputs |-> DefaultInputs, binding |-> None]],
        real |-> [rdevs EXCEPT ![idx].binding = None]]

-----------------------------------------------------------------------------
Init ==
  /\ virtual_devices =
       [v \in VirtualDeviceId |-> [inputs |-> DefaultInputs, binding |-> None]]
  /\ real_devices = <<>>

add_device(id, buffer) ==
  LET arrived == [id |-> id, buffer |-> buffer, binding |-> None]
      bound   == bind_devices(virtual_devices, Append(real_devices, arrived))
  IN  /\ virtual_devices' = bound.virtual
      /\ real_devices' = bound.real

(* Mutant: the devices that wait are not offered the player set free.      *)
remove_deviceNoRebind(id) ==
  LET idx     == find_real_device(real_devices, id)
      unbound == unbind_device(virtual_devices, real_devices, idx)
  IN  /\ id \in Ids(real_devices)
      /\ virtual_devices' = unbound.virtual
      /\ real_devices' = RemoveAt(unbound.real, idx)

(* Mutant: the last device of the Vec is removed, not the one found (pop    *)
(* for remove(idx)).                                                       *)
remove_deviceLast(id) ==
  LET idx     == find_real_device(real_devices, id)
      unbound == unbind_device(virtual_devices, real_devices, idx)
      bound   == bind_devices(unbound.virtual,
                              RemoveAt(unbound.real, Len(real_devices)))
  IN  /\ id \in Ids(real_devices)
      /\ virtual_devices' = bound.virtual
      /\ real_devices' = bound.real

(* The unwrap of find_real_device is the first conjunct: EventsFit in the  *)
(* module Dhc is the claim that it never fails.                            *)
remove_device(id) ==
  LET idx     == find_real_device(real_devices, id)
      unbound == unbind_device(virtual_devices, real_devices, idx)
      bound   == bind_devices(unbound.virtual, RemoveAt(unbound.real, idx))
  IN  /\ id \in Ids(real_devices)
      /\ virtual_devices' = bound.virtual
      /\ real_devices' = bound.real

(* One turn of the loop of State::update: virtual device v.  contents[b]   *)
(* is what reading the triple buffer b returns now; the input thread       *)
(* writes to the buffers between the turns.                                *)
update(v, contents) ==
  LET idx == find_real_device(real_devices, virtual_devices[v].binding)
  IN  /\ virtual_devices' =
           IF virtual_devices[v].binding = None
           THEN virtual_devices
           ELSE [virtual_devices EXCEPT
                   ![v].inputs = contents[real_devices[idx].buffer]]
      /\ UNCHANGED real_devices

Arrival ==
  \E id \in DeviceIds \ Ids(real_devices), buffer \in Buffers :
    add_device(id, buffer)

Removal == \E id \in Ids(real_devices) : remove_device(id)

Refresh ==
  \E v \in VirtualDeviceId, contents \in [Buffers -> Inputs] :
    update(v, contents)

Next == Arrival \/ Removal \/ Refresh

Spec == Init /\ [][Next]_vars

-----------------------------------------------------------------------------
(* Both tables hold values of the types declared in lib.rs.                *)
TypeOK ==
  /\ virtual_devices \in [VirtualDeviceId -> VirtualDeviceState]
  /\ real_devices \in Seq(RealDeviceState)

(* The two tables describe the same pairing: device ids are unique, a      *)
(* bound virtual device names a real device that points back to it, and    *)
(* conversely.  The assert_eq! of unbind_device and the unwrap of update   *)
(* (lib.rs lines 162 and 203) rest on it.                                  *)
BindingsAgree ==
  /\ \A i, j \in DOMAIN real_devices :
       real_devices[i].id = real_devices[j].id => i = j
  /\ \A v \in VirtualDeviceId :
       virtual_devices[v].binding # None =>
         \E i \in DOMAIN real_devices :
           /\ real_devices[i].id = virtual_devices[v].binding
           /\ real_devices[i].binding = v
  /\ \A i \in DOMAIN real_devices :
       real_devices[i].binding # None =>
         virtual_devices[real_devices[i].binding].binding = real_devices[i].id

(* Nobody waits while a player is free: after every operation either all   *)
(* virtual devices are bound or all real devices are, so the early break   *)
(* of bind_devices and the rebinding in remove_device never leave a        *)
(* controller without effect next to an idle player.                       *)
NoIdlePair ==
  UnboundVirtual(virtual_devices) = {} \/ UnboundReal(real_devices) = {}

(* A player without a controller shows no input: whatever a device held    *)
(* down when it was unplugged is released with it (lib.rs line 169).       *)
UnboundNeutral ==
  \A v \in VirtualDeviceId :
    virtual_devices[v].binding = None =>
      virtual_devices[v].inputs = DefaultInputs

(* A controller that stays plugged in keeps its player, whoever else comes *)
(* or goes: binding a device or removing another one never reshuffles.     *)
KeepsItsPlayer ==
  [][\A v \in VirtualDeviceId :
       LET d == virtual_devices[v].binding
       IN  d # None /\ d \in Ids(real_devices') =>
             virtual_devices'[v].binding = d]_vars

(* The device a player is newly bound to is the newest of those that were  *)
(* waiting ("bind the newest device first", lib.rs line 132): none still   *)
(* unbound after the step arrived later.                                   *)
NewestFirst ==
  [][\A v \in VirtualDeviceId, i, j \in DOMAIN real_devices' :
       /\ real_devices'[i].id = virtual_devices'[v].binding
       /\ virtual_devices[v].binding # virtual_devices'[v].binding
       /\ real_devices'[j].binding = None
       => j < i]_vars

(* The tables implement the abstract binding table.                        *)
Table == INSTANCE BindingTable WITH
  Players <- VirtualDeviceId,
  Devices <- DeviceIds,
  Nobody  <- None,
  present <- Ids(real_devices),
  plays   <- [v \in VirtualDeviceId |-> virtual_devices[v].binding]

ImplementsTable == Table!Spec
===============================================================================
