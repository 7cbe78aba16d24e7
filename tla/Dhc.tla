--------------------------------- MODULE Dhc ----------------------------------
(***************************************************************************)
(* The library as the game uses it: dhc_update and dhc_get_inputs of       *)
(* dhc/src/ffi.rs on the game's threads, the input thread of module        *)
(* RawInput on the other side, and between them the tables of module       *)
(* VirtualDevices under the RwLock of Context.                             *)
(*                                                                         *)
(* The game may call from several threads.  Context::update holds the      *)
(* write lock from its first line to its last, so at most one update is    *)
(* under way: pc is the control state of whichever thread holds the lock,  *)
(* "idle" if none does.  device_state takes the read lock and so sees the  *)
(* tables at "idle" only; it changes nothing.                              *)
(***************************************************************************)
EXTENDS Integers, SequencesExt

CONSTANTS
  DeviceCount,                                    \* of VirtualDevices
  Handles, XInputHandles, Slots, mangle_inputs,   \* of RawInput
  SlotsFirst, OpenFailures, MaxBacklog,
  Buffers, Inputs, DefaultInputs, None            \* of both

(* What both modules assume of their constants.                            *)
ASSUME DhcAssumption ==
  /\ DeviceCount \in Nat
  /\ XInputHandles \subseteq Handles
  /\ Handles \cap Slots = {}
  /\ Slots \subseteq Nat
  /\ IsFiniteSet(Slots)
  /\ None \notin Buffers \cup Handles \cup Slots \cup 0..(DeviceCount - 1)
  /\ DefaultInputs \in Inputs
  /\ mangle_inputs \in [Inputs -> Inputs]
  /\ SlotsFirst \in BOOLEAN
  /\ OpenFailures \in BOOLEAN
  /\ MaxBacklog \in Nat

VARIABLES
  plugged, slot_of, messages,                     \* of RawInput
  devices, xinput_devices, event_queue, buffers,
  events_pending, request, reply, batch, aborted,
  virtual_devices, real_devices,                  \* of VirtualDevices
  pc,      \* where Context::update is
  cursor   \* the next turn of the loop of State::update

(* The client of the event channel is the table of real devices.           *)
Input == INSTANCE RawInput WITH
  known <- [id \in {real_devices[i].id : i \in DOMAIN real_devices} |->
              real_devices[CHOOSE i \in DOMAIN real_devices :
                             real_devices[i].id = id].buffer]

Tables == INSTANCE VirtualDevices WITH DeviceIds <- Handles \cup Slots

inputVars == <<plugged, slot_of, messages, devices, xinput_devices, event_queue,
               buffers, events_pending, request, reply, batch, aborted>>
tables    == <<virtual_devices, real_devices>>
vars      == <<inputVars, tables, pc, cursor>>

Init ==
  /\ Tables!Init
  /\ Input!Init
  /\ pc = "idle"
  /\ cursor = 0

-----------------------------------------------------------------------------
InputThread ==
  /\ UNCHANGED <<tables, pc, cursor>>
  /\ Input!Environment \/ Input!Handlers

(* Context::update: take the write lock, ...                               *)
Lock ==
  /\ pc = "idle"
  /\ pc' = "load"
  /\ UNCHANGED <<inputVars, tables, cursor>>

(* Mutant: the events are asked for but not waited for.                    *)
LoadPendingNoWait ==
  /\ pc = "load"
  /\ UNCHANGED <<tables, cursor>>
  /\ Input!LoadPending
  /\ pc' = "apply"

(* ... ask for the events if the counter shows any, ...                    *)
LoadPending ==
  /\ pc = "load"
  /\ UNCHANGED <<tables, cursor>>
  /\ Input!LoadPending
  /\ pc' = IF events_pending > 0 THEN "wait" ELSE "apply"

(* ... wait for the answer, ...                                            *)
ReceiveEvents ==
  /\ pc = "wait"
  /\ UNCHANGED <<tables, cursor>>
  /\ Input!ReceiveEvents
  /\ pc' = "apply"

(* ... apply one event after the other ...                                 *)
ApplyEvent ==
  /\ pc = "apply"
  /\ batch # <<>>
  /\ LET e == Head(batch)
     IN  IF e.kind = "came"
         THEN Tables!add_device(e.device, e.buffer)
         ELSE Tables!remove_device(e.device)
  /\ batch' = Tail(batch)
  /\ UNCHANGED <<plugged, slot_of, messages, devices, xinput_devices, event_queue,
                 buffers, events_pending, request, reply, aborted, pc, cursor>>

(* Mutant: the loop of State::update starts at 1.                          *)
EventsAppliedFromOne ==
  /\ pc = "apply"
  /\ batch = <<>>
  /\ pc' = "update"
  /\ cursor' = 1
  /\ UNCHANGED <<inputVars, tables>>

EventsApplied ==
  /\ pc = "apply"
  /\ batch = <<>>
  /\ pc' = "update"
  /\ cursor' = 0
  /\ UNCHANGED <<inputVars, tables>>

(* ... refresh the inputs of each virtual device ...                       *)
Refresh ==
  /\ pc = "update"
  /\ cursor < DeviceCount
  /\ Tables!update(cursor, buffers)
  /\ cursor' = cursor + 1
  /\ UNCHANGED <<inputVars, pc>>

(* ... and release the lock.                                               *)
Unlock ==
  /\ pc = "update"
  /\ cursor = DeviceCount
  /\ pc' = "idle"
  /\ cursor' = 0
  /\ UNCHANGED <<inputVars, tables>>

GameThread ==
  Lock \/ LoadPending \/ ReceiveEvents \/ ApplyEvent \/ EventsApplied
    \/ Refresh \/ Unlock

Stopped == aborted /\ UNCHANGED vars

Next == (~aborted /\ (InputThread \/ GameThread)) \/ Stopped

(* The message thread dispatches its messages and commands; the game calls *)
(* dhc_update again and again.                                             *)
Fairness ==
  /\ WF_vars(~aborted /\ UNCHANGED <<tables, pc, cursor>> /\ Input!handle_device_change)
  /\ WF_vars(~aborted /\ UNCHANGED <<tables, pc, cursor>> /\ Input!cmd_get_events)
  /\ WF_vars(~aborted /\ GameThread)

Spec == Init /\ [][Next]_vars /\ Fairness

-----------------------------------------------------------------------------
(* The threads are where Context::update can be.                           *)
TypeOK ==
  /\ Tables!TypeOK
  /\ pc \in {"idle", "load", "wait", "apply", "update"}
  /\ cursor \in 0..DeviceCount
  /\ pc = "wait" <=> request # "none"
  /\ batch # <<>> => pc = "apply"
  /\ cursor # 0 => pc = "update"

(* Whatever the order in which devices come and go on the other thread,    *)
(* the loop of Context::update is handed removals of devices it has (the   *)
(* unwrap of remove_device does not fail) and arrivals of devices it has   *)
(* not (no device is ever in the table twice).                             *)
EventsFit == Input!NextEventFits

(* Every step of the whole library is a step of the tables alone, or none: *)
(* what module VirtualDevices assumes of its caller holds of this caller,  *)
(* so its theorems are theorems about the library.                         *)
ImplementsTables == Tables!Spec

(* The tables are a client as module RawInput describes one: whatever      *)
(* add_device and remove_device make of them, the devices in the table and *)
(* their buffers change by what the event says and by nothing else.  So    *)
(* what that module checks of the channel holds of the table.              *)
ImplementsInput == Input!Init /\ [][Input!Next]_(Input!vars)

(* When nothing is under way, the controllers the game's players can be    *)
(* bound to are those that are plugged in, each is read through the buffer *)
(* the input thread writes to, and as many players as possible have one.   *)
(* (Under SlotsFirst, and with no OpenFailures.)                           *)
InStep ==
  LET present == (plugged \ XInputHandles) \cup Input!connected
      bound   == {v \in Tables!VirtualDeviceId : virtual_devices[v].binding # None}
  IN  messages = <<>> /\ Input!EventStream = <<>> /\ ~aborted =>
        /\ Tables!Ids(real_devices) = present
        /\ \A i \in DOMAIN real_devices :
             LET id == real_devices[i].id
             IN  real_devices[i].buffer =
                   IF id \in Slots THEN xinput_devices[id] ELSE devices[id]
        /\ Cardinality(bound) = Min({DeviceCount, Cardinality(present)})

(* What can drive a player: devices opened by their handle, and slots.     *)
Controllers == (Handles \ XInputHandles) \cup Slots

Attached(id) == id \in plugged \/ id \in Input!connected

(* A controller that is gone stops driving a player, if the game goes on   *)
(* calling dhc_update: no ghost keeps a player for ever.  (Of slots under  *)
(* SlotsFirst, and with no OpenFailures: one that changes after the scan   *)
(* that its message causes, or whose handle was never opened, is noticed   *)
(* with the next message only.)                                            *)
Released ==
  \A id \in Controllers :
    ~Attached(id) ~>
      \/ Attached(id) \/ aborted
      \/ \A v \in Tables!VirtualDeviceId : virtual_devices[v].binding # id

(* What a controller's buffer holds reaches the player the controller      *)
(* drives, unless it is overwritten or the player passes on before.        *)
InputsArrive ==
  \A v \in Tables!VirtualDeviceId, b \in Buffers, i \in Inputs :
    LET drives == \E r \in DOMAIN real_devices :
                    real_devices[r].buffer = b /\ real_devices[r].binding = v
    IN  drives /\ buffers[b] = i ~>
          virtual_devices[v].inputs = i \/ ~drives \/ buffers[b] # i \/ aborted
===============================================================================
