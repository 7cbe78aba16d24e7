------------------------------- MODULE RawInput -------------------------------
(***************************************************************************)
(* dhc/src/input/mod.rs: the RawInputManager, which lives on the message   *)
(* thread, and the input::Context through which the game thread asks it    *)
(* for the events it has collected.                                        *)
(*                                                                         *)
(* One action is one call of a window message or command handler.  A       *)
(* handler runs to its end on the message thread; the other thread sees of *)
(* it only the atomic counter, which each handler changes at most once,    *)
(* the reply, and the triple buffers.                                      *)
(*                                                                         *)
(* The client is whoever calls get_events: module Dhc puts State there.    *)
(* Here it only remembers, per device, the buffer it was given.            *)
(***************************************************************************)
EXTENDS Integers, SequencesExt

CONSTANTS
  Handles,        \* RawInputDeviceId
  XInputHandles,  \* the handles whose device path contains "&IG_"
  Slots,          \* XInputDeviceId; 0..3 in the code
  Buffers,        \* names for the triple buffers
  Inputs,         \* values of DeviceInputs
  DefaultInputs,  \* DeviceInputs::default()
  mangle_inputs,  \* crate::mangle_inputs under the CONFIG of this process
  None,           \* Option::None
  SlotsFirst,     \* TRUE: XInput knows of a change before raw input tells it;
                  \* FALSE: a slot may answer or not, whenever it is read
  OpenFailures,   \* TRUE: opening the HID file of a device may fail
  MaxBacklog      \* bound on the messages and events on their way

ASSUME RawInputAssumption ==
  /\ XInputHandles \subseteq Handles
  /\ Handles \cap Slots = {}
  /\ Slots \subseteq Nat
  /\ IsFiniteSet(Slots)
  /\ None \notin Buffers \cup Slots
  /\ DefaultInputs \in Inputs
  /\ mangle_inputs \in [Inputs -> Inputs]
  /\ SlotsFirst \in BOOLEAN
  /\ OpenFailures \in BOOLEAN
  /\ MaxBacklog \in Nat

VARIABLES
  plugged,         \* the raw input devices that are attached
  slot_of,         \* under SlotsFirst, the slot of an XInput device, or None
  messages,        \* the window's WM_INPUT_DEVICE_CHANGE messages
  devices,         \* handle |-> its buffer; None if is_xinput, whose buffer
                   \* nobody reads
  xinput_devices,  \* slot |-> its buffer
  event_queue,     \* RawInputEvents not handed over yet
  events_pending,  \* the AtomicUsize both threads share
  buffers,         \* what reading each triple buffer returns
  request,         \* GetEvents: "none", "sent" or "answered"
  reply,           \* the events of the answer
  batch,           \* events received and not looked at yet
  known,           \* the client's devices: id |-> the buffer it reads
  aborted          \* a panic ended the process (panic = "abort")

environment == <<plugged, slot_of, messages>>
manager     == <<devices, xinput_devices, event_queue, buffers>>
client      == <<batch, known>>
vars == <<environment, manager, events_pending, request, reply, client, aborted>>

DeviceIds == Handles \cup Slots

DeviceArrived(id, buffer) == [kind |-> "came", device |-> id, buffer |-> buffer]
DeviceRemoved(id)         == [kind |-> "went", device |-> id]

(* A map of devices with one more entry, and with one less.                *)
With(f, id, value) ==
  [x \in DOMAIN f \cup {id} |-> IF x = id THEN value ELSE f[x]]
Without(f, id)     == Restrict(f, DOMAIN f \ {id})

(* The slots of S in the order in which the code goes through them.        *)
Ascending(S) ==
  CHOOSE l \in [1..Cardinality(S) -> S] :
    \A i, j \in 1..Cardinality(S) : i < j => l[i] < l[j]

connected == {slot_of[h] : h \in XInputHandles} \ {None}

(* The slots that may answer when a handler asks one after the other.      *)
Answering == IF SlotsFirst THEN {connected} ELSE SUBSET Slots

(* Events that the client has not looked at, oldest first.                 *)
EventStream == batch \o reply \o event_queue

(* The devices the manager has announced and not retracted.                *)
Announced == (DOMAIN devices \ XInputHandles) \cup DOMAIN xinput_devices

BuffersInUse ==
  {devices[h] : h \in DOMAIN devices \ XInputHandles}
    \cup {xinput_devices[s] : s \in DOMAIN xinput_devices}
    \cup {known[id] : id \in DOMAIN known}
    \cup {EventStream[i].buffer :
            i \in {j \in DOMAIN EventStream : EventStream[j].kind = "came"}}

FreeBuffers == Buffers \ BuffersInUse

Backlog == Len(messages) + Len(EventStream)

Init ==
  /\ plugged = {} /\ slot_of = [h \in XInputHandles |-> None] /\ messages = <<>>
  /\ devices = <<>> /\ xinput_devices = <<>> /\ event_queue = <<>>
  /\ events_pending = 0
  /\ buffers = [b \in Buffers |-> DefaultInputs]
  /\ request = "none" /\ reply = <<>> /\ batch = <<>> /\ known = <<>>
  /\ aborted = FALSE

-----------------------------------------------------------------------------
(* The system: devices come and go, and the window is told by a message.   *)
Plug(h) ==
  /\ h \notin plugged /\ Backlog < MaxBacklog
  /\ plugged' = plugged \cup {h}
  /\ messages' = Append(messages, [change |-> "arrival", device |-> h])
  /\ IF h \in XInputHandles /\ SlotsFirst
     THEN \E s \in Slots \ connected : slot_of' = [slot_of EXCEPT ![h] = s]
     ELSE UNCHANGED slot_of

Unplug(h) ==
  /\ h \in plugged /\ Backlog < MaxBacklog
  /\ plugged' = plugged \ {h}
  /\ messages' = Append(messages, [change |-> "removal", device |-> h])
  /\ IF h \in XInputHandles /\ SlotsFirst
     THEN slot_of' = [slot_of EXCEPT ![h] = None]
     ELSE UNCHANGED slot_of

Environment ==
  /\ \E h \in Handles : Plug(h) \/ Unplug(h)
  /\ UNCHANGED <<manager, events_pending, request, reply, client, aborted>>

-----------------------------------------------------------------------------
(* The handlers of the message thread.                                     *)

(* Compare the slots with xinput_devices; those that vanished go first,    *)
(* each list by ascending slot.  exists are the slots that answer now,      *)
(* contents is what the handler has written to the buffers before.         *)
scan_xinput(exists, contents) ==
  LET killed == DOMAIN xinput_devices \ exists
      new    == exists \ DOMAIN xinput_devices
      fresh  == CHOOSE f \in [new -> FreeBuffers] : IsInjective(f)
      left   == Ascending(killed)
      came   == Ascending(new)
  IN  /\ \E f \in [new -> FreeBuffers] : IsInjective(f)
      /\ xinput_devices' =
           [s \in exists |-> IF s \in new THEN fresh[s] ELSE xinput_devices[s]]
      /\ buffers' = [b \in Buffers |-> IF b \in Range(fresh)
                                       THEN DefaultInputs ELSE contents[b]]
      /\ events_pending' = events_pending + Cardinality(killed) + Cardinality(new)
      /\ event_queue' = event_queue
           \o [i \in DOMAIN left |-> DeviceRemoved(left[i])]
           \o [i \in DOMAIN came |-> DeviceArrived(came[i], fresh[came[i]])]

(* Poll every known slot; one that does not answer asks for a scan, which  *)
(* reads all of them again: it may answer then.                            *)
read_xinput(answer) ==
  \E polled, exists \in Answering :
  LET answering == DOMAIN xinput_devices \cap polled
      contents  == [b \in Buffers |->
                      IF \E s \in answering : xinput_devices[s] = b
                      THEN answer[CHOOSE s \in answering : xinput_devices[s] = b]
                      ELSE buffers[b]]
  IN  IF answering = DOMAIN xinput_devices
      THEN /\ buffers' = contents
           /\ UNCHANGED <<xinput_devices, event_queue, events_pending>>
      ELSE scan_xinput(exists, contents)

(* Mutant: an arrival is queued but not counted.                           *)
handle_device_arrivalUncounted(h) ==
  /\ h \in plugged \ XInputHandles /\ FreeBuffers # {}
  /\ LET buffer == CHOOSE b \in FreeBuffers : TRUE
     IN  /\ devices' = With(devices, h, buffer)
         /\ event_queue' = Append(event_queue, DeviceArrived(h, buffer))
  /\ UNCHANGED <<buffers, xinput_devices, events_pending, aborted>>

(* Both asserts of this function hold: the system still knows the device.  *)
get_rawinput_device_info_impl(h) == h \in plugged

(* How opening a device may end: a panic if it is gone already, an Err if  *)
(* its file, its report descriptor or its capabilities cannot be had.      *)
open_rawinput_device(h) ==
  IF get_rawinput_device_info_impl(h)
  THEN {"ok"} \cup (IF OpenFailures THEN {"err"} ELSE {})
  ELSE {"panic"}

handle_device_arrival(h) ==
  \/ /\ "panic" \in open_rawinput_device(h)
     /\ aborted' = TRUE
     /\ UNCHANGED <<manager, events_pending>>
  \/ /\ "err" \in open_rawinput_device(h)
     /\ UNCHANGED <<manager, events_pending, aborted>>
  \/ /\ "ok" \in open_rawinput_device(h)
     /\ h \in XInputHandles
     /\ devices' = With(devices, h, None)
     /\ \E exists \in Answering : scan_xinput(exists, buffers)
     /\ UNCHANGED aborted
  \/ /\ "ok" \in open_rawinput_device(h)
     /\ h \notin XInputHandles
     /\ FreeBuffers # {}
     /\ LET buffer == CHOOSE b \in FreeBuffers : TRUE
        IN  /\ devices' = With(devices, h, buffer)
            /\ buffers' = [buffers EXCEPT ![buffer] = DefaultInputs]
            /\ event_queue' = Append(event_queue, DeviceArrived(h, buffer))
     /\ events_pending' = events_pending + 1
     /\ UNCHANGED <<xinput_devices, aborted>>

(* Mutant: no early return for a device that was never registered.         *)
handle_device_removalUnchecked(h) ==
  /\ devices' = Without(devices, h)
  /\ event_queue' = Append(event_queue, DeviceRemoved(h))
  /\ events_pending' = events_pending + 1
  /\ UNCHANGED <<xinput_devices, buffers, aborted>>

(* Mutant: the manager forgets the device but tells nobody, neither by an  *)
(* event nor by a scan.                                                    *)
handle_device_removalSilent(h) ==
  /\ devices' = Without(devices, h)
  /\ UNCHANGED <<event_queue, events_pending, xinput_devices, buffers, aborted>>

(* Mutant: the slots are not asked again when an XInput device leaves.     *)
handle_device_removalNoScan(h) ==
  /\ IF h \notin DOMAIN devices
     THEN UNCHANGED <<manager, events_pending>>
     ELSE /\ devices' = Without(devices, h)
          /\ IF h \in XInputHandles
             THEN UNCHANGED <<event_queue, events_pending>>
             ELSE /\ event_queue' = Append(event_queue, DeviceRemoved(h))
                  /\ events_pending' = events_pending + 1
          /\ UNCHANGED <<xinput_devices, buffers>>
  /\ UNCHANGED aborted

handle_device_removal(h) ==
  /\ IF h \notin DOMAIN devices
     THEN UNCHANGED <<manager, events_pending>>
     ELSE /\ devices' = Without(devices, h)
          /\ IF h \in XInputHandles
             THEN \E exists \in Answering : scan_xinput(exists, buffers)
             ELSE /\ event_queue' = Append(event_queue, DeviceRemoved(h))
                  /\ events_pending' = events_pending + 1
                  /\ UNCHANGED <<xinput_devices, buffers>>
  /\ UNCHANGED aborted

handle_device_change ==
  /\ messages # <<>>
  /\ messages' = Tail(messages)
  /\ LET m == Head(messages)
     IN  IF m.change = "arrival"
         THEN handle_device_arrival(m.device)
         ELSE handle_device_removal(m.device)
  /\ UNCHANGED <<plugged, slot_of, request, reply, client>>

(* RawInputDeviceState::handle_input: of the reports of one message the    *)
(* last that parses counts; if none does, the default inputs.              *)
handle_input(h, parsed) ==
  /\ buffers' = [buffers EXCEPT ![devices[h]] =
                   mangle_inputs[IF parsed = None THEN DefaultInputs ELSE parsed]]
  /\ UNCHANGED <<xinput_devices, event_queue, events_pending>>

(* WM_INPUT of a device that is registered; any other is ignored.  It may  *)
(* be handled after the device was unplugged.  (MaxBacklog bounds how      *)
(* often slots may come and go while the game does not look.)              *)
handle_device_input(h) ==
  /\ h \in DOMAIN devices
  /\ IF h \in XInputHandles
     THEN /\ Backlog < MaxBacklog
          /\ \E answer \in [Slots -> Inputs] : read_xinput(answer)
     ELSE \E parsed \in Inputs \cup {None} : handle_input(h, parsed)
  /\ UNCHANGED <<environment, devices, request, reply, client, aborted>>

(* Mutant: the queue is copied into the answer, not swapped out.           *)
cmd_get_eventsCopy ==
  /\ request = "sent"
  /\ request' = "answered"
  /\ reply' = event_queue
  /\ UNCHANGED <<environment, manager, events_pending, client, aborted>>

cmd_get_events ==
  /\ request = "sent"
  /\ request' = "answered"
  /\ reply' = event_queue
  /\ event_queue' = <<>>
  /\ UNCHANGED <<environment, devices, xinput_devices, events_pending, buffers,
                 client, aborted>>

-----------------------------------------------------------------------------
(* input::Context::get_events on the game thread, in the three steps       *)
(* between which the message thread may run.                               *)
(* Mutant: one event is not enough to ask for it.                          *)
LoadPendingTwo ==
  /\ request = "none" /\ batch = <<>>
  /\ request' = IF events_pending > 1 THEN "sent" ELSE "none"
  /\ UNCHANGED <<environment, manager, events_pending, reply, client, aborted>>

LoadPending ==
  /\ request = "none" /\ batch = <<>>
  /\ request' = IF events_pending > 0 THEN "sent" ELSE "none"
  /\ UNCHANGED <<environment, manager, events_pending, reply, client, aborted>>

(* Mutant: the counter is reset (a store, not a fetch_sub), and with it    *)
(* events that were queued while the answer was on its way.                *)
ReceiveEventsResets ==
  /\ request = "answered"
  /\ request' = "none"
  /\ batch' = reply
  /\ reply' = <<>>
  /\ events_pending' = 0
  /\ UNCHANGED <<environment, manager, known, aborted>>

ReceiveEvents ==
  /\ request = "answered"
  /\ request' = "none"
  /\ batch' = reply
  /\ reply' = <<>>
  /\ events_pending' = events_pending - Len(reply)
  /\ UNCHANGED <<environment, manager, known, aborted>>

(* The client looks at the next event; the client of module Dhc is the     *)
(* loop of Context::update.                                                *)
TakeEvent ==
  /\ batch # <<>>
  /\ batch' = Tail(batch)
  /\ LET e == Head(batch)
     IN  IF e.kind = "came"
         THEN known' = With(known, e.device, e.buffer)
         ELSE known' = Without(known, e.device)
  /\ UNCHANGED <<environment, manager, events_pending, request, reply, aborted>>

-----------------------------------------------------------------------------
Handlers ==
  \/ handle_device_change
  \/ \E h \in Handles : handle_device_input(h)
  \/ cmd_get_events

Client == LoadPending \/ ReceiveEvents \/ TakeEvent

Stopped == aborted /\ UNCHANGED vars

Next == (~aborted /\ (Environment \/ Handlers \/ Client)) \/ Stopped

(* The message thread dispatches what reaches its window, and the game     *)
(* keeps polling.                                                          *)
Fairness ==
  /\ WF_vars(~aborted /\ handle_device_change)
  /\ WF_vars(~aborted /\ cmd_get_events)
  /\ WF_vars(~aborted /\ Client)

Spec == Init /\ [][Next]_vars /\ Fairness

-----------------------------------------------------------------------------
Event(Ids, Bufs) ==
  [kind : {"came"}, device : Ids, buffer : Bufs] \cup [kind : {"went"}, device : Ids]

PartialFunctions(S, T) == UNION {[D -> T] : D \in SUBSET S}

(* The state of the manager, of the channel and of the client is of the    *)
(* types mod.rs declares.                                                  *)
TypeOK ==
  /\ plugged \subseteq Handles
  /\ slot_of \in [XInputHandles -> Slots \cup {None}]
  /\ messages \in Seq([change : {"arrival", "removal"}, device : Handles])
  /\ devices \in PartialFunctions(Handles, Buffers \cup {None})
  /\ \A h \in DOMAIN devices : devices[h] = None <=> h \in XInputHandles
  /\ xinput_devices \in PartialFunctions(Slots, Buffers)
  /\ event_queue \in Seq(Event(DeviceIds, Buffers))
  /\ events_pending \in Nat
  /\ buffers \in [Buffers -> Inputs]
  /\ request \in {"none", "sent", "answered"}
  /\ reply \in Seq(Event(DeviceIds, Buffers))
  /\ batch \in Seq(Event(DeviceIds, Buffers))
  /\ known \in PartialFunctions(DeviceIds, Buffers)
  /\ aborted \in BOOLEAN

(* The counter the game thread polls counts the events that it has not     *)
(* received, those of an answer on its way included: fetch_sub never wraps *)
(* below zero, and a zero it reads means that there is nothing to fetch.   *)
PendingExact == events_pending = Len(event_queue) + Len(reply)

(* The next event fits what the client knows (module Dhc claims it of the  *)
(* tables, where it matters).  A removal is of a device it                 *)
(* has (the unwrap of State::remove_device), an arrival is of one it has   *)
(* not (nothing in State::add_device would notice).                        *)
NextEventFits ==
  batch # <<>> =>
    LET e == Head(batch)
    IN  IF e.kind = "came" THEN e.device \notin DOMAIN known
                           ELSE e.device \in DOMAIN known

(* A client that has looked at all events has exactly the devices of the   *)
(* manager, and reads of each the very buffer the manager writes to.       *)
ClientInStep ==
  EventStream = <<>> =>
    /\ DOMAIN known = Announced
    /\ \A id \in DOMAIN known :
         known[id] = IF id \in Slots THEN xinput_devices[id] ELSE devices[id]

(* The counter, the queue, the command and the reply are a channel that    *)
(* neither loses, repeats nor reorders what the manager noticed.           *)
Channel == INSTANCE EventChannel WITH
  Devices <- DeviceIds,
  noticed <- Announced,
  log     <- [i \in DOMAIN EventStream |->
                [kind |-> EventStream[i].kind, device |-> EventStream[i].device]],
  known   <- DOMAIN known

ImplementsChannel == Channel!Spec

(* What the manager has noticed the client learns, if the game polls: a    *)
(* device that was announced is used, one that left is dropped.  (Of an    *)
(* XInput device the client learns by its slot, not by its handle.)        *)
Delivered ==
  \A id \in DeviceIds \ XInputHandles :
    LET agreed == id \in DOMAIN known <=> id \in Announced
    IN  ~agreed ~> agreed \/ aborted

(* handle_device_arrival answers a device that cannot be opened by         *)
(* returning (mod.rs lines 282 to 285), and hid.rs line 380 asserts that   *)
(* what it is told of the device has a plausible size: no device makes the *)
(* process panic.                                                          *)
NeverAborts == ~aborted

===============================================================================
