------------------------------- MODULE DhcProofs -------------------------------
(***************************************************************************)
(* Proofs, for any devices, players, slots and buffers, of the safety      *)
(* properties of the composition: the game thread is a client as RawInput  *)
(* describes it, and the caller that VirtualDevices assumes.  What is      *)
(* proved of the two modules alone (RawInputProofs, VirtualDevicesProofs)  *)
(* is taken over through the two refinements.                              *)
(***************************************************************************)
EXTENDS Dhc, FiniteSetTheorems, SequenceTheorems, TLAPS

InputProofs == INSTANCE RawInputProofs WITH
  known <- [id \in {real_devices[i].id : i \in DOMAIN real_devices} |->
              real_devices[CHOOSE i \in DOMAIN real_devices :
                             real_devices[i].id = id].buffer]

TablesProofs == INSTANCE VirtualDevicesProofs WITH
  DeviceIds <- Handles \cup Slots

-----------------------------------------------------------------------------
(* RawInputProofs repeats the definitions of RawInput, VirtualDevicesProofs *)
(* those of VirtualDevices: what is proved of the copy is true of the      *)
(* module that Dhc uses.  From the operators at the bottom upwards:        *)

LEMMA SameVars ==
  Input!vars = InputProofs!vars
  BY DEF
         Input!vars, InputProofs!vars,
         Input!environment, InputProofs!environment,
         Input!manager, InputProofs!manager,
         Input!client, InputProofs!client

LEMMA SameInit ==
  Input!Init <=> InputProofs!Init
  BY DEF
         Input!Init, InputProofs!Init

LEMMA SameStream ==
  /\ Input!EventStream = InputProofs!EventStream
  /\ Input!Announced = InputProofs!Announced
  BY DEF
         Input!EventStream, InputProofs!EventStream,
         Input!Announced, InputProofs!Announced

LEMMA SameBacklog ==
  Input!Backlog = InputProofs!Backlog
  BY SameStream DEF
         Input!Backlog, InputProofs!Backlog

LEMMA SameConnected ==
  /\ Input!connected = InputProofs!connected
  /\ Input!Answering = InputProofs!Answering
  BY DEF
         Input!Answering, InputProofs!Answering,
         Input!connected, InputProofs!connected

LEMMA SameBuffers ==
  Input!FreeBuffers = InputProofs!FreeBuffers
  BY SameStream DEF
         Input!FreeBuffers, InputProofs!FreeBuffers,
         Input!BuffersInUse, InputProofs!BuffersInUse

LEMMA SameEnvironment ==
  Input!Environment <=> InputProofs!Environment
  BY SameBacklog, SameConnected DEF
         Input!Environment, InputProofs!Environment,
         Input!Plug, InputProofs!Plug,
         Input!Unplug, InputProofs!Unplug,
         Input!manager, InputProofs!manager,
         Input!client, InputProofs!client

LEMMA SameScan ==
  \A e, c : Input!scan_xinput(e, c) <=> InputProofs!scan_xinput(e, c)
  BY SameBuffers DEF
         Input!scan_xinput, InputProofs!scan_xinput,
         Input!Ascending, InputProofs!Ascending,
         Input!Cardinality, InputProofs!Cardinality,
         Input!IsInjective, InputProofs!IsInjective,
         Input!Range, InputProofs!Range,
         Input!DeviceArrived, InputProofs!DeviceArrived,
         Input!DeviceRemoved, InputProofs!DeviceRemoved

LEMMA SameArrival ==
  \A h : Input!handle_device_arrival(h) <=> InputProofs!handle_device_arrival(h)
  BY SameBuffers, SameScan, SameConnected DEF
         Input!handle_device_arrival, InputProofs!handle_device_arrival,
         Input!open_rawinput_device, InputProofs!open_rawinput_device,
         Input!get_rawinput_device_info_impl, InputProofs!get_rawinput_device_info_impl,
         Input!manager, InputProofs!manager,
         Input!With, InputProofs!With,
         Input!DeviceArrived, InputProofs!DeviceArrived

LEMMA SameRemoval ==
  \A h : Input!handle_device_removal(h) <=> InputProofs!handle_device_removal(h)
  BY SameScan, SameConnected DEF
         Input!handle_device_removal, InputProofs!handle_device_removal,
         Input!manager, InputProofs!manager,
         Input!Without, InputProofs!Without,
         Input!Restrict, InputProofs!Restrict,
         Input!DeviceRemoved, InputProofs!DeviceRemoved

LEMMA SameChange ==
  Input!handle_device_change <=> InputProofs!handle_device_change
  BY SameArrival, SameRemoval DEF
         Input!handle_device_change, InputProofs!handle_device_change,
         Input!client, InputProofs!client

LEMMA SameRead ==
  \A a : Input!read_xinput(a) <=> InputProofs!read_xinput(a)
  BY SameScan, SameConnected DEF
         Input!read_xinput, InputProofs!read_xinput

LEMMA SameInput ==
  \A h : Input!handle_device_input(h) <=> InputProofs!handle_device_input(h)
  BY SameBacklog, SameRead DEF
         Input!handle_device_input, InputProofs!handle_device_input,
         Input!handle_input, InputProofs!handle_input,
         Input!client, InputProofs!client,
         Input!environment, InputProofs!environment

LEMMA SameHandlers ==
  Input!Handlers <=> InputProofs!Handlers
  BY SameChange, SameInput DEF
         Input!Handlers, InputProofs!Handlers,
         Input!cmd_get_events, InputProofs!cmd_get_events,
         Input!client, InputProofs!client,
         Input!environment, InputProofs!environment

LEMMA SameTake ==
  Input!TakeEvent <=> InputProofs!TakeEvent
  BY DEF
         Input!TakeEvent, InputProofs!TakeEvent,
         Input!With, InputProofs!With,
         Input!Without, InputProofs!Without,
         Input!Restrict, InputProofs!Restrict,
         Input!environment, InputProofs!environment,
         Input!manager, InputProofs!manager,
         Input!client, InputProofs!client

LEMMA SameClient ==
  Input!Client <=> InputProofs!Client
  BY SameTake DEF
         Input!Client, InputProofs!Client,
         Input!LoadPending, InputProofs!LoadPending,
         Input!ReceiveEvents, InputProofs!ReceiveEvents,
         Input!environment, InputProofs!environment,
         Input!manager, InputProofs!manager,
         Input!client, InputProofs!client

LEMMA SameNext ==
  Input!Next <=> InputProofs!Next
  BY SameEnvironment, SameHandlers, SameClient DEF
         Input!Next, InputProofs!Next,
         Input!Stopped, InputProofs!Stopped,
         Input!vars, InputProofs!vars,
         Input!environment, InputProofs!environment,
         Input!manager, InputProofs!manager,
         Input!client, InputProofs!client

LEMMA SameFits ==
  Input!NextEventFits <=> InputProofs!NextEventFits
  BY DEF
         Input!NextEventFits, InputProofs!NextEventFits

(* The same of the tables.                                                 *)
LEMMA SameIds ==
  \A R : Tables!Ids(R) = TablesProofs!Ids(R)
  BY DEF
         Tables!Ids, TablesProofs!Ids

LEMMA SameFind ==
  \A R, id : Tables!find_real_device(R, id) = TablesProofs!find_real_device(R, id)
  BY DEF
         Tables!find_real_device, TablesProofs!find_real_device,
         Tables!Ids, TablesProofs!Ids

LEMMA SameBind ==
  \A V, R : Tables!bind_devices(V, R) = TablesProofs!bind_devices(V, R)
  BY DEF
         Tables!bind_devices, TablesProofs!bind_devices,
         Tables!Paired, TablesProofs!Paired,
         Tables!UnboundVirtual, TablesProofs!UnboundVirtual,
         Tables!UnboundReal, TablesProofs!UnboundReal,
         Tables!VirtualDeviceId, TablesProofs!VirtualDeviceId,
         Tables!Cardinality, TablesProofs!Cardinality

LEMMA SameAdd ==
  \A id, b : Tables!add_device(id, b) <=> TablesProofs!add_device(id, b)
  BY SameBind DEF
         Tables!add_device, TablesProofs!add_device

LEMMA SameRemove ==
  \A id : Tables!remove_device(id) <=> TablesProofs!remove_device(id)
  BY SameBind, SameFind, ZenonT(40) DEF
         Tables!remove_device, TablesProofs!remove_device,
         Tables!unbind_device, TablesProofs!unbind_device,
         Tables!RemoveAt, TablesProofs!RemoveAt,
         Tables!Ids, TablesProofs!Ids

LEMMA SameUpdate ==
  \A v, c : Tables!update(v, c) <=> TablesProofs!update(v, c)
  BY SameFind DEF
         Tables!update, TablesProofs!update

LEMMA SameTables ==
  /\ Tables!Init <=> TablesProofs!Init
  /\ Tables!Next <=> TablesProofs!Next
  /\ Tables!TypeOK <=> TablesProofs!TypeOK
  BY SameAdd, SameRemove, SameUpdate DEF
         Tables!Init, TablesProofs!Init,
         Tables!Next, TablesProofs!Next,
         Tables!Arrival, TablesProofs!Arrival,
         Tables!Removal, TablesProofs!Removal,
         Tables!Refresh, TablesProofs!Refresh,
         Tables!Ids, TablesProofs!Ids,
         Tables!VirtualDeviceId, TablesProofs!VirtualDeviceId,
         Tables!TypeOK, TablesProofs!TypeOK,
         Tables!VirtualDeviceState, TablesProofs!VirtualDeviceState,
         Tables!RealDeviceState, TablesProofs!RealDeviceState

-----------------------------------------------------------------------------
(* The steps of the library as steps of the two modules.                   *)

(* What the two modules assume of their constants holds.                   *)
LEMMA FiniteSlots == InputProofs!IsFiniteSet(Slots)
  BY DhcAssumption DEF IsFiniteSet, InputProofs!IsFiniteSet

(* The client of the channel: the devices of the table, and their buffers. *)
known == [id \in {real_devices[i].id : i \in DOMAIN real_devices} |->
            real_devices[CHOOSE i \in DOMAIN real_devices :
                           real_devices[i].id = id].buffer]

(* The control state is what the state of the channel says.                *)
Control ==
  /\ pc \in {"idle", "load", "wait", "apply", "update"}
  /\ cursor \in 0..DeviceCount
  /\ pc = "wait" <=> request # "none"
  /\ batch # <<>> => pc = "apply"
  /\ cursor # 0 => pc = "update"

(* The inductive invariant: those of the two modules, and the control.     *)
IInv == InputProofs!IInv /\ InputProofs!Prompt /\ TablesProofs!IInv /\ Control

(* The next event is one that the tables can take.                         *)
LEMMA NextEvent ==
  ASSUME InputProofs!IInv, batch # <<>>
  PROVE  /\ Head(batch) \in InputProofs!Event(Handles \cup Slots, Buffers)
         /\ IF Head(batch).kind = "came"
            THEN Head(batch).device \notin Tables!Ids(real_devices)
            ELSE Head(batch).device \in Tables!Ids(real_devices)
  <1>1. InputProofs!NextEventFits
    BY InputProofs!EventFits, DhcAssumption, FiniteSlots
  <1>2. DOMAIN known = Tables!Ids(real_devices)
    BY DEF known, Tables!Ids
  <1>3. batch \in Seq(InputProofs!Event(Handles \cup Slots, Buffers))
    BY DEF InputProofs!IInv, InputProofs!TypeOK, InputProofs!DeviceIds
  <1>4. Head(batch) \in InputProofs!Event(Handles \cup Slots, Buffers)
    BY <1>3, HeadTailProperties
  <1>5. QED
    BY <1>1, <1>2, <1>4 DEF InputProofs!NextEventFits, known

(* What add_device and remove_device make of the tables is, for the devices *)
(* in them and their buffers, what the event says.                         *)
THEOREM TablesTakeEvents ==
  ASSUME IInv, batch # <<>>,
         LET e == Head(batch)
         IN  IF e.kind = "came" THEN Tables!add_device(e.device, e.buffer)
                                ELSE Tables!remove_device(e.device)
  PROVE  LET e == Head(batch)
         IN  known' = IF e.kind = "came"
                      THEN Input!With(known, e.device, e.buffer)
                      ELSE Input!Without(known, e.device)
  <1> DEFINE e == Head(batch)
  <1>1. /\ e \in InputProofs!Event(Handles \cup Slots, Buffers)
        /\ IF e.kind = "came" THEN e.device \notin Tables!Ids(real_devices)
                              ELSE e.device \in Tables!Ids(real_devices)
    BY NextEvent DEF IInv
  <1> HIDE DEF e
  <1>2. /\ e.device \in Handles \cup Slots
        /\ e.kind = "came" => e.buffer \in Buffers
    BY <1>1 DEF InputProofs!Event
  <1>3. /\ known = TablesProofs!BufferOf(real_devices)
        /\ known' = TablesProofs!BufferOf(real_devices')
        /\ DOMAIN known = Tables!Ids(real_devices)
    BY DEF known, TablesProofs!BufferOf, Tables!Ids
  <1> HIDE DEF known
  <1>4. CASE e.kind = "came"
    <2>1. TablesProofs!add_device(e.device, e.buffer)
      BY <1>4, SameAdd DEF e
    <2>2. TablesProofs!BufferOf(real_devices') =
            [x \in TablesProofs!Ids(real_devices) \cup {e.device} |->
               IF x = e.device THEN e.buffer
                               ELSE TablesProofs!BufferOf(real_devices)[x]]
      BY <1>1, <1>2, <1>4, <2>1, SameIds, TablesProofs!ArrivalBuffers, DhcAssumption
         DEF IInv
    <2>3. QED
      BY <1>3, <1>4, <2>2, SameIds DEF Input!With, e
  <1>5. CASE e.kind # "came"
    <2>1. TablesProofs!remove_device(e.device)
      BY <1>5, SameRemove DEF e
    <2>2. TablesProofs!BufferOf(real_devices') =
            [x \in TablesProofs!Ids(real_devices) \ {e.device} |->
               TablesProofs!BufferOf(real_devices)[x]]
      BY <1>1, <1>2, <1>5, <2>1, SameIds, TablesProofs!RemovalBuffers, DhcAssumption
         DEF IInv
    <2>3. Input!Without(known, e.device) =
            [x \in DOMAIN known \ {e.device} |-> known[x]]
      BY DEF Input!Without, Input!Restrict
    <2>4. QED
      BY <1>3, <1>5, <2>2, <2>3, SameIds DEF e
  <1>6. QED
    BY <1>4, <1>5

(* Whatever the library does, its tables are a client of RawInput.         *)
LEMMA InputStep == IInv /\ [Next]_vars => [Input!Next]_(Input!vars)
  <1> SUFFICES ASSUME IInv, [Next]_vars PROVE [Input!Next]_(Input!vars)
    OBVIOUS
  <1>1. CASE UNCHANGED <<inputVars, tables>>
    BY <1>1 DEF inputVars, tables, Input!vars, Input!environment, Input!manager,
                Input!client
  <1>2. CASE ~aborted /\ InputThread
    BY <1>2 DEF InputThread, Input!Next
  <1>3. CASE ~aborted /\ (LoadPending \/ ReceiveEvents)
    BY <1>3 DEF LoadPending, ReceiveEvents, Input!Next, Input!Client
  <1>4. CASE ~aborted /\ ApplyEvent
    <2>1. /\ batch # <<>> /\ batch' = Tail(batch)
          /\ LET e == Head(batch)
             IN  IF e.kind = "came" THEN Tables!add_device(e.device, e.buffer)
                                    ELSE Tables!remove_device(e.device)
          /\ UNCHANGED <<plugged, slot_of, messages, devices, xinput_devices,
                         event_queue, buffers, events_pending, request, reply, aborted>>
      BY <1>4 DEF ApplyEvent
    <2>2. LET e == Head(batch)
          IN  known' = IF e.kind = "came"
                       THEN Input!With(known, e.device, e.buffer)
                       ELSE Input!Without(known, e.device)
      BY <2>1, TablesTakeEvents
    <2>3. Input!TakeEvent
      BY <2>1, <2>2 DEF known, Input!TakeEvent, Input!environment, Input!manager
    <2>4. QED
      BY <1>4, <2>3 DEF Input!Next, Input!Client
  <1>5. CASE Refresh
    <2>1. UNCHANGED <<inputVars, real_devices>>
      BY <1>5 DEF Refresh, Tables!update
    <2>2. QED
      BY <2>1 DEF inputVars, Input!vars, Input!environment, Input!manager,
                  Input!client
  <1>6. QED
    BY <1>1, <1>2, <1>3, <1>4, <1>5
       DEF Next, GameThread, Lock, EventsApplied, Unlock, Stopped, vars

LEMMA InputInvariant ==
  IInv /\ [Next]_vars => InputProofs!IInv' /\ InputProofs!Prompt'
  <1> SUFFICES ASSUME IInv, [Next]_vars
               PROVE  InputProofs!IInv' /\ InputProofs!Prompt'
    OBVIOUS
  <1>1. [InputProofs!Next]_(InputProofs!vars)
    <2>1. Input!vars' = InputProofs!vars'
      BY DEF Input!vars, Input!environment, Input!manager, Input!client,
             InputProofs!vars, InputProofs!environment, InputProofs!manager,
             InputProofs!client
    <2>2. QED
      BY <2>1, InputStep, SameNext, SameVars
  <1>2. QED
    BY <1>1, InputProofs!NextIInv, InputProofs!PromptNext, DhcAssumption, FiniteSlots
       DEF IInv

(* Whatever the library does, the tables are used as VirtualDevices        *)
(* assumes.                                                                *)
LEMMA TablesStep ==
  InputProofs!IInv /\ Control /\ [Next]_vars => [Tables!Next]_(Tables!vars)
  <1> SUFFICES ASSUME InputProofs!IInv, Control, [Next]_vars
               PROVE  [Tables!Next]_(Tables!vars)
    OBVIOUS
  <1>1. CASE UNCHANGED tables
    BY <1>1 DEF tables, Tables!vars
  <1>2. CASE ApplyEvent
    <2> DEFINE e == Head(batch)
    <2>1. /\ batch # <<>>
          /\ IF e.kind = "came" THEN Tables!add_device(e.device, e.buffer)
                                ELSE Tables!remove_device(e.device)
      BY <1>2 DEF ApplyEvent
    <2>2. /\ e \in InputProofs!Event(Handles \cup Slots, Buffers)
          /\ IF e.kind = "came" THEN e.device \notin Tables!Ids(real_devices)
                                ELSE e.device \in Tables!Ids(real_devices)
      BY <2>1, NextEvent
    <2> HIDE DEF e
    <2>3. /\ e.device \in Handles \cup Slots
          /\ e.kind = "came" => e.buffer \in Buffers
      BY <2>2 DEF InputProofs!Event
    <2>4. QED
      BY <2>1, <2>2, <2>3 DEF Tables!Next, Tables!Arrival, Tables!Removal
  <1>3. CASE Refresh
    <2>1. cursor \in Tables!VirtualDeviceId
      BY <1>3, DhcAssumption DEF Refresh, Control, Tables!VirtualDeviceId
    <2>2. buffers \in [Buffers -> Inputs]
      BY DEF InputProofs!IInv, InputProofs!TypeOK
    <2>3. QED
      BY <1>3, <2>1, <2>2 DEF Refresh, Tables!Next, Tables!Refresh
  <1>4. QED
    BY <1>1, <1>2, <1>3
       DEF Next, InputThread, GameThread, Lock, LoadPending, ReceiveEvents,
           EventsApplied, Unlock, Stopped, vars, tables

LEMMA TablesInvariant == IInv /\ [Next]_vars => TablesProofs!IInv'
  <1> SUFFICES ASSUME IInv, [Next]_vars PROVE TablesProofs!IInv'
    OBVIOUS
  <1>1. [TablesProofs!Next]_(TablesProofs!vars)
    <2>1. [Tables!Next]_(Tables!vars)
      BY TablesStep DEF IInv
    <2>2. /\ Tables!vars = TablesProofs!vars
          /\ Tables!vars' = TablesProofs!vars'
      BY DEF Tables!vars, TablesProofs!vars
    <2>3. QED
      BY <2>1, <2>2, SameTables
  <1>2. QED
    BY <1>1, TablesProofs!NextIInv, DhcAssumption DEF IInv

LEMMA ControlStep == IInv /\ [Next]_vars => Control'
  <1> SUFFICES ASSUME IInv, [Next]_vars PROVE Control'
    OBVIOUS
  <1>1. Control /\ DeviceCount \in Nat
    BY DhcAssumption DEF IInv
  <1>2. CASE InputThread
    <2>1. UNCHANGED <<pc, cursor, batch>>
      BY <1>2 DEF InputThread, Input!Environment, Input!Handlers,
                  Input!handle_device_change, Input!handle_device_input,
                  Input!cmd_get_events, Input!client
    <2>2. request' # "none" <=> request # "none"
      BY <1>2 DEF InputThread, Input!Environment, Input!Handlers,
                  Input!handle_device_change, Input!handle_device_input,
                  Input!cmd_get_events
    <2>3. QED
      BY <1>1, <2>1, <2>2 DEF Control
  <1>3. CASE Lock \/ EventsApplied \/ Refresh \/ Unlock
    <2>1. UNCHANGED <<request, batch>>
      BY <1>3 DEF Lock, EventsApplied, Refresh, Unlock, inputVars
    <2>2. QED
      BY <1>1, <1>3, <2>1 DEF Control, Lock, EventsApplied, Refresh, Unlock
  <1>4. CASE LoadPending
    <2>1. /\ pc = "load" /\ pc' = (IF events_pending > 0 THEN "wait" ELSE "apply")
          /\ request' = (IF events_pending > 0 THEN "sent" ELSE "none")
          /\ batch' = <<>> /\ cursor' = cursor
      BY <1>4 DEF LoadPending, Input!LoadPending, Input!client
    <2>2. QED
      BY <1>1, <2>1 DEF Control
  <1>5. CASE ReceiveEvents
    BY <1>1, <1>5 DEF Control, ReceiveEvents, Input!ReceiveEvents
  <1>6. CASE ApplyEvent
    BY <1>1, <1>6 DEF Control, ApplyEvent
  <1>7. CASE UNCHANGED vars
    BY <1>1, <1>7 DEF Control, vars, inputVars
  <1>8. QED
    BY <1>2, <1>3, <1>4, <1>5, <1>6, <1>7 DEF Next, GameThread, Stopped

LEMMA InitIInv == Init => IInv
  <1> SUFFICES ASSUME Init PROVE IInv
    OBVIOUS
  <1>1. InputProofs!IInv /\ InputProofs!Prompt
    BY SameInit, InputProofs!InitIInv, InputProofs!PromptInit, DhcAssumption,
       FiniteSlots DEF Init
  <1>2. TablesProofs!IInv
    BY SameTables, TablesProofs!InitIInv, DhcAssumption DEF Init
  <1>3. Control
    BY DhcAssumption DEF Init, Input!Init, Control
  <1>4. QED
    BY <1>1, <1>2, <1>3 DEF IInv

LEMMA NextIInv == IInv /\ [Next]_vars => IInv'
  BY InputInvariant, TablesInvariant, ControlStep DEF IInv

THEOREM Invariance == Spec => []IInv
  BY InitIInv, NextIInv, PTL DEF Spec

(* The tables and the lock are what the types say, and a thread waits for  *)
(* an answer exactly while one is due.                                     *)
THEOREM TypeCorrect == Spec => []TypeOK
  <1>1. IInv => TypeOK
    <2> SUFFICES ASSUME IInv PROVE TypeOK
      OBVIOUS
    <2>1. Tables!TypeOK
      BY SameTables DEF IInv, TablesProofs!IInv
    <2>2. QED
      BY <2>1 DEF IInv, Control, TypeOK
  <1>2. QED
    BY <1>1, Invariance, PTL

(* No removal of a device that is not in the table, no arrival of one that *)
(* is: the unwrap of State::remove_device does not fail.                   *)
THEOREM EventsAlwaysFit == Spec => []EventsFit
  <1>1. IInv => EventsFit
    BY InputProofs!EventFits, DhcAssumption, FiniteSlots, SameFits
       DEF IInv, EventsFit
  <1>2. QED
    BY <1>1, Invariance, PTL

(* The tables are a client as RawInput describes one, ...                  *)
THEOREM InputRefinement == Spec => ImplementsInput
  <1>1. Init => Input!Init
    BY DEF Init
  <1>2. QED
    BY <1>1, InputStep, Invariance, PTL DEF Spec, ImplementsInput

(* ... and a caller as VirtualDevices assumes.                             *)
THEOREM TablesRefinement == Spec => ImplementsTables
  <1>1. Init => Tables!Init
    BY DEF Init
  <1>2. IInv /\ [Next]_vars => [Tables!Next]_(Tables!vars)
    BY TablesStep DEF IInv
  <1>3. QED
    BY <1>1, <1>2, Invariance, PTL DEF Spec, ImplementsTables, Tables!Spec

(* What VirtualDevicesProofs shows of its tables holds of the library's.    *)
THEOREM TablesAgree ==
  Spec => [](Tables!BindingsAgree /\ Tables!NoIdlePair /\ Tables!UnboundNeutral)
  <1>1. IInv => Tables!BindingsAgree /\ Tables!NoIdlePair /\ Tables!UnboundNeutral
    BY DEF IInv, TablesProofs!IInv,
           TablesProofs!BindingsAgree, Tables!BindingsAgree,
           TablesProofs!NoIdlePair, Tables!NoIdlePair,
           TablesProofs!UnboundNeutral, Tables!UnboundNeutral,
           TablesProofs!UnboundVirtual, Tables!UnboundVirtual,
           TablesProofs!UnboundReal, Tables!UnboundReal,
           TablesProofs!VirtualDeviceId, Tables!VirtualDeviceId
  <1>2. QED
    BY <1>1, Invariance, PTL

-----------------------------------------------------------------------------
(* With nothing on its way, the table has the devices that are attached,   *)
(* each with the buffer the input thread writes to, and as many players as *)
(* possible have one: if XInput knows of changes first and no device fails *)
(* to open.                                                                *)
LEMMA InStepNow == IInv => (SlotsFirst /\ ~OpenFailures => InStep)
  <1> DEFINE present == (plugged \ XInputHandles) \cup Input!connected
             bound   == {v \in Tables!VirtualDeviceId :
                           virtual_devices[v].binding # None}
             ids     == Tables!Ids(real_devices)
  <1> SUFFICES ASSUME IInv, SlotsFirst, ~OpenFailures,
                      messages = <<>>, Input!EventStream = <<>>, ~aborted
               PROVE  /\ ids = present
                      /\ \A i \in DOMAIN real_devices :
                           LET id == real_devices[i].id
                           IN  real_devices[i].buffer =
                                 IF id \in Slots THEN xinput_devices[id]
                                                 ELSE devices[id]
                      /\ Cardinality(bound) = Min({DeviceCount, Cardinality(present)})
    BY DEF InStep
  <1>1. DOMAIN devices = plugged /\ DOMAIN xinput_devices = Input!connected
    BY InputProofs!ManagerInStepNow, DhcAssumption, FiniteSlots, SameConnected
       DEF IInv, InputProofs!IInv, InputProofs!ManagerInStep
  <1>2. /\ DOMAIN known = Input!Announced
        /\ \A id \in DOMAIN known :
             known[id] = IF id \in Slots THEN xinput_devices[id] ELSE devices[id]
    BY InputProofs!InStepNow, DhcAssumption, FiniteSlots, SameStream
       DEF IInv, InputProofs!ClientInStep, known
  <1>3. known = TablesProofs!BufferOf(real_devices) /\ DOMAIN known = ids
    BY DEF known, TablesProofs!BufferOf, Tables!Ids
  <1>4. ids = present
    BY <1>1, <1>2, <1>3 DEF Input!Announced
  <1>5. ASSUME NEW i \in DOMAIN real_devices
        PROVE  LET id == real_devices[i].id
               IN  real_devices[i].buffer =
                     IF id \in Slots THEN xinput_devices[id] ELSE devices[id]
    <2>1. TablesProofs!UniqueIds(real_devices)
      BY DEF IInv, TablesProofs!IInv, TablesProofs!BindingsAgree,
             TablesProofs!UniqueIds
    <2>2. /\ real_devices[i].id \in ids
          /\ known[real_devices[i].id] = real_devices[i].buffer
      BY <2>1, <1>3, SameIds, TablesProofs!BufferOfEntry, DhcAssumption
    <2> HIDE DEF ids, known
    <2>3. QED
      BY <2>2, <1>2, <1>3
  <1>6. Cardinality(bound) = Min({DeviceCount, Cardinality(ids)})
    <2> DEFINE b == Cardinality(bound)
               n == Cardinality(ids)
    <2>1. /\ b \in Nat /\ n \in Nat /\ b <= DeviceCount /\ b <= n
          /\ b = DeviceCount \/ b = n
      <3>1. /\ TablesProofs!Cardinality(bound) = b
            /\ TablesProofs!Cardinality(ids) = n
        BY DEF TablesProofs!Cardinality, Cardinality
      <3>2. /\ Tables!VirtualDeviceId = TablesProofs!VirtualDeviceId
            /\ ids = TablesProofs!Ids(real_devices)
        BY SameIds DEF Tables!VirtualDeviceId, TablesProofs!VirtualDeviceId
      <3>3. QED
        BY <3>1, <3>2, TablesProofs!AsManyAsPossible, DhcAssumption DEF IInv
    <2> HIDE DEF b, n
    <2>2. /\ b \in {DeviceCount, n} /\ \A y \in {DeviceCount, n} : b <= y
          /\ \A x \in {DeviceCount, n} :
               (\A y \in {DeviceCount, n} : x <= y) => x = b
      BY <2>1, DhcAssumption
    <2>3. Min({DeviceCount, n}) = b
      BY <2>2 DEF Min
    <2>4. QED
      BY <2>3 DEF b, n
  <1>7. QED
    BY <1>4, <1>5, <1>6

THEOREM PlayersInStep == Spec => [](SlotsFirst /\ ~OpenFailures => InStep)
  BY Invariance, InStepNow, PTL

===============================================================================
