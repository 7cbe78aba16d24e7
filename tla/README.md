# dhc in TLA+

A verification development of dhc, the wrapper that shows a game a fixed number
of virtual controllers, whatever controllers are plugged in, through replacements
of `dinput8.dll` and `xinput1_3.dll`.

It holds TLA+ modules translated from the source, TLC configurations that
model-check them on small instances, and theorems with proofs that TLAPS checks.
Run `tlc -config X.cfg M` on the modules and configurations that
`PROJECT.json` lists under `runs`, and `tlapm` on the modules whose names end in `Proofs`.

Contents: [the system](#the-system), [the modules](#the-modules),
[the runs](#the-runs), [bounds](#bounds), [fairness](#fairness),
[proofs](#proofs), [divergences](#divergences-met-while-modelling),
[not modelled](#what-is-not-modelled), [plan](#plan).

## The system

| Component | Source | State | Operations | Properties that make it correct |
|---|---|---|---|---|
| State | `dhc/src/lib.rs` | `virtual_devices` (inputs, binding), `real_devices` (id, buffer, binding) | `add_device`, `remove_device`, `bind_devices`, `unbind_device`, `update` | the tables describe one pairing; nobody waits beside a free player; nobody is reshuffled; a player without a controller shows nothing |
| RawInputManager | `dhc/src/input/mod.rs` | `devices`, `xinput_devices`, `event_queue`, one triple buffer per controller | window messages (arrival, removal, input), commands (`GetEvents`, `RegisterType`), `scan_xinput`, `read_xinput` | each arrival and removal reaches the client once and in order; the counter counts what is queued |
| input::Context | `dhc/src/input/mod.rs` | the atomic `events_pending`, the command channel | `get_events`, `register_device_type` | the caller waits only for what will come |
| Context | `dhc/src/lib.rs`, `ffi.rs` | `State` under an `RwLock` | `dhc_update`, `dhc_get_inputs` | the tables follow the controllers that are there; what a controller reports arrives |
| HID parser | `dhc/src/input/hid.rs`, `types.rs` | the capabilities of a controller | `open_rawinput_device`, `parse_ps4` | every field arrives, scaled by its logical range |
| XInput reader | `dhc/src/input/xinput.rs` | none | `read_xinput` | nothing is lost or turned around |
| mangle_inputs | `dhc/src/lib.rs` | none | dpad override, deadzone | as `dhc.toml` says |
| Start-up | `lib.rs`, `config.rs`, `logger.rs`, `mod.rs` | `ONCE`, `CONFIG`, `CONTEXT`, `dhc.toml` | `dhc_init`, `Config::read`, `logger::init`, registering types | once per process; nobody gets past it early; the user's file survives |
| xinput1_3.dll | `xinput1_3.cpp` | `packet_number` | `XInputGetState` and those that only check and answer | the answer is fresh, the index within bounds |
| dinput8.dll, objects | `dinput.cpp`, `utils.h` | reference counts, two static interfaces and their devices | `DirectInput8Create`, `QueryInterface`, `AddRef`/`Release`, `CreateDevice`, `EnumDevices` | counts are exact |
| dinput8.dll, device | `dinput.cpp`, `ps4.cpp`, `dhc_dinput.h` | objects with their settings, the formats and defaults of the layout | `SetDataFormat`, `GetDeviceState`, `Poll`, `GetProperty`, `SetProperty`, `EnumObjects`, `GetCapabilities` | the layout is served as far as it can be; adjustments never make a stick jump |

How they interact: a *message thread* owns the RawInputManager.  Windows posts
it a message when a raw input device comes, goes or reports; it opens the
device, keeps a triple buffer for it, writes the parsed and mangled inputs there,
and queues an event.  A *game thread* calls an exported function of one of the
two DLLs, which calls `dhc_update`: take the write lock, look at the atomic counter, and
if it is not zero send a command to the message thread, wait for the reply, subtract
its length, apply the events to the tables; then read the triple buffer of each
bound player.  `dhc_get_inputs` copies the player's inputs under the read lock.
The first call of all, from any thread, runs the start-up.

The hard behaviours: both threads share the counter, the queue and the buffers
with no common lock; the game thread waits for the message thread with the
write lock held; controllers are replugged while events about them are under
way, and XInput has a view of its own, which raw input's messages only hint at;
threads of one process and several processes race to start; a DirectInput
device is one object that all its users in a process share, so that each finds what the
last has left; and between a controller and the game lie five conversions with ends,
centres and roundings.  `PROJECT.json` lists the hazards, each at its line.

## The modules

| Module | Models | Relation to others |
|---|---|---|
| `BindingTable` | *abstract*: who plays with which controller | implemented by VirtualDevices |
| `VirtualDevices` | the two tables of `lib.rs` and every operation on them | |
| `BindLoop` | the loop of `bind_devices`, turn by turn | compared with VirtualDevices |
| `VirtualDevicesProofs` | theorems | about VirtualDevices and BindLoop |
| `EventChannel` | *abstract*: comings and goings arrive once, in order | implemented by RawInput |
| `RawInput` | message thread, event queue, counter, command, a client | |
| `Dhc` | `Context::update` step by step against the message thread | composes VirtualDevices and RawInput and is shown to implement both |
| `InputTypes` | `types.rs` | used by the next two |
| `InputPath` | report or XInput state → parser → `mangle_inputs` → buffer → `XINPUT_GAMEPAD` | |
| `DirectInputDevice` | `EmulatedDirectInputDevice8` | |
| `DirectInput8` | COM objects, counts, guids, enumeration, the system's own DLL behind them | |
| `GameApi` | what a game's threads call of both DLLs: `XInputGetState`, and `Poll` and `GetDeviceState` | `dhc_update` as one step, which Dhc justifies |
| `Startup` | Once, lazy statics, `dhc.toml`, registration | |
| `RawInputProofs`, `InputPathProofs`, `DirectInputDeviceProofs`, `GameApiProofs`, `DirectInput8Proofs`, `StartupProofs` | theorems | about the modules they are named for |
| `DhcProofs` | theorems | about Dhc; takes over those of RawInputProofs and VirtualDevicesProofs |

The `MC*` modules name the values that the configurations give to constants.
`Mutant:` in a comment marks an operator that states a plausible bug; none of
the specifications uses one.

**VirtualDevices.** `virtual_devices` and `real_devices` are the fields of
`State`; `real_devices` is a sequence, since its order decides who is bound next.
`bind_devices` is one expression (`Paired`: the i-th free player gets the i-th
waiting controller counted from the newest), which the proofs need; module
BindLoop has the loop turn by turn (a recursive function over the number of turns) and `LoopBinds` compares the two from every reachable
table with every subset of its pairs opened.  `Arrival`, `Removal` and `Refresh` are the
calls `Context::update` makes; `Refresh` is one turn of the loop of
`State::update`, for the buffers are written between the turns.  An `unwrap`
is a conjunct of the action, and `EventsFit` claims that it never blocks.

**RawInput.** One action is one whole handler, because a handler runs to its end on
the message thread and the game's thread sees of it only the counter (changed at most
once in it), the reply and the buffers.  Several commands cannot queue up: `dhc_update`
waits for its reply under the write lock.  The command mailbox may be served at any
time relative to window messages; WM_INPUT may be handled after the
unplugging; each call of XInput finds what the slots are at that moment: the poll of a
handler and its scan may see different slots (`Answering`; `SlotsFirst` makes them agree).  `devices` maps an XInput handle to
`None`: the code makes a buffer for it too, but nobody can ever read it.  Buffers
are names; a new one is any that nothing refers to.  What a report parses to is
arbitrary, which includes what may be read past the copied `RAWINPUT` structure
(`mod.rs:263`).  About Windows the module assumes that no device
arrives twice without leaving in between, and that asking about a device that is gone fails.

**Dhc.** `pc` is the line of `Context::update` at which the holder of the write
lock stands; readers change nothing.  The module takes the actions of the two
others whole, by INSTANCE; the client's devices of RawInput are, under a refinement
mapping, the rows of `real_devices`.  `ApplyEvent` calls the operation of the
tables and takes the event from the batch, and says nothing of that client: that the
operation leaves the rows a client that took the event would have, and no other
step touches them, is what `ImplementsInput` checks.

**InputPath.** An axis is a part of 1/`Scale`, and `Scale` a common multiple of the
lengths of the controllers' ranges: whatever the ranges are, there is one (510 for the
0..255 of most pads), and on that grid `unlerp` and the deadzone need no rounding.  What the
program does round, the conversions to BYTE and SHORT, is rounded towards zero as its casts
are.  `LogicalMin` and the like come from the capability, hats and sticks have different usages.
An XInput pad has its sticks where XINPUT_GAMEPAD has them (`Positions`); `read_xinput` asks
`rusty_xinput` for them normalised (`xinput.rs:46`), which cuts a dead zone out and
stretches the rest, so `left_stick_normalized` and `right_stick_normalized` are external
functions, of which only the comment in that line is assumed: values in [-1, 1].

**DirectInputDevice.** The format of the game, the matched objects, the list
`device_formats_` and the set of offsets that get a default; `MatchEntry` is one
turn of the loop of `SetDataFormat`, including what it leaves when it fails
half way.  The arithmetic of an axis is over integers (float rounding is not
modelled, except that `Lossy` names the DWORDs that come back one less from
`GetProperty`).  A layout gives every entry a place of its own (`Separate`): a byte for
an entry that only buttons fit, so that the `DIDFT_BUTTON`s of `c_dfDIJoystick` may
follow one another byte by byte, and four bytes, aligned, for one that can be given an axis,
a hat or the default of a hat; `Apply` CHECKs that alignment (`dinput.cpp:803`, `825`).
Within one layout nothing overlaps, then.  Of two layouts set on one device, writes that
overlap without starting at one offset are not modelled.

**GameApi, DirectInput8, Startup.** One action per step between which another
thread or process may run.  A failed CHECK, a fatal log message, an
`UNIMPLEMENTED(FATAL)` and a panic (`Cargo.toml`: `panic = "abort"`) all end
the process: `died` or `aborted`, after which `Stopped` stutters.
GameApi remembers for every thread the last answer it got and the report that was current
when it asked for an update: `XInputGetState` updates and reads, a DirectInput game updates with
`Poll` and reads with `GetDeviceState`, and updates of other threads come between.
In DirectInput8 a guid is the four bytes that carry the player's number, which
`create_dhc_guid` writes with their order turned around and `parse_dhc_guid` reads.

## The runs

| Run | Question | Distinct states |
|---|---|---|
| `virtual_devices` | Are the tables right after any history of four controllers and two players? `BindingsAgree`, `NoIdlePair`, `UnboundNeutral`, `KeepsItsPlayer`, `NewestFirst`, `LoopBinds`, and that they implement BindingTable (`ImplementsTable`) | 14 thousand |
| `raw_input` | Is what lies between the threads a channel? `PendingExact`, `ClientInStep`, `ImplementsChannel`, `Delivered` (liveness), with two slots that change between any two calls and devices that cannot be opened | 558 thousand |
| `dhc` | Do the two fit together, and does the composition do what dhc is for? `EventsFit` (no `unwrap` fails), `InStep` (players are bound to exactly what is plugged in, through live buffers), `ImplementsTables`, `ImplementsInput`, `Released` (a controller that is gone, HID or XInput, loses its player) and `InputsArrive` (liveness) | 48 thousand |
| `input_path` | Is the game shown what the controller said? `StickAsConfigured`, `EndsReachGame`, `ArrowsForwarded`, `XInputForwarded` | 4 thousand, of 6 million transitions |
| `directinput_device` | Is the layout served, do properties reach the axis they mean, do adjustments keep sticks monotone? Is anything written outside the game's buffer? `NothingLeftOut`, `MissingHatsCentred`, `WritesFit`, `PropertiesAddress`, `FullDeflection`, `NeverBackwards` | 79 thousand |
| `directinput8` | Are reference counts exact (`CountsExact`), does a guid that is shown create the player's device (`ShownCanBeCreated`)? | 47 thousand |
| `game_api` | Is the answer at least as new as the thread's last update, and never older than the one before (`Fresh`), and can no index get through that panics (`TypeOK`)? | 149 thousand |
| `startup` | Is everything there when a thread is through (`ReadyIsReady`), does it get through, also if another launch has left `dhc.toml` empty (`GetsReady`), does the user's file survive (`ValidConfigKept`)? | 159 thousand |
| `quick_unplug` | *violated*: `NeverAborts` | |
| `format_smaller` | *violated*: `ChecksHold` | |
| `fallback` | *violated*: `FallsBack` | |
| `triggers` | *violated*: `TriggersForwarded` | |

Each passing run also checks its module's type invariant `TypeOK`
(`CountsExact` takes its place in DirectInput8).

The four runs that end in a counterexample each show a disagreement of the code
with a line of the repository:

- `quick_unplug`.  A controller is plugged in and out before its first message
  is handled.  `GetRawInputDeviceInfoA` fails and the assertion at
  `hid.rs:371`/`380` ends the game, although `handle_device_arrival` has a path that skips such a device.
- `format_smaller`.  A game sets a layout and then a smaller one.  The formats of
  the first are still applied, to a buffer that is too small for them, and a CHECK
  (`dinput.cpp:803`, `819`, `825`) ends the game.
- `fallback`.  `dhc.toml` is not there and cannot be created.  The message at
  `lib.rs:78` announces the default configuration, but `&CONFIG` panics first.
- `triggers`.  The README's known issues (`README.md:70`) say that the triggers of an XInput controller
  are forwarded as digital buttons.  `xinput.rs:40` reads them so, but
  `xinput1_3.cpp:109` makes an XInput game's triggers from the axes, which
  nothing sets: the game is shown 127 for both, pulled or not.

### Conditions under which a property is claimed

- `dhc` is checked with `SlotsFirst = TRUE` (XInput's slots change before
  raw input's message is handled) and `OpenFailures = FALSE`, for `InStep` needs both, and so does `Released`
  of slots (of HID controllers it needs neither).
  Without the first they fail: the code scans the slots only when raw input reports something (`mod.rs:310`), so a
  slot that changes afterwards is noticed at the next message, and not before: until then a ghost
  keeps its player.
  Without the second, a controller that could not be opened is plugged in and not bound, as intended; but
  when it is an XInput controller's handle, its removal causes no scan, and its slot stays, too.
  `raw_input` has both switched the other way, and its client is Dhc's, by
  `ImplementsInput`: a channel that loses and reorders nothing then, too.
- `WritesFit` is claimed for a game whose layouts do not get smaller; `format_smaller` is one whose do.
- `MissingHatsCentred`'s second half and the offsets of `PropertiesAddress`
  are claimed until a second layout is set (`sets <= 1`), see the divergences.
- `ArrowsForwarded` is about hats that count from zero.  `XInputForwarded`
  leaves out the triggers (`TriggersForwarded` is about them), and its sticks are those that
  `rusty_xinput` returns, not those a game would see without dhc.  `StickAsConfigured` and `EndsReachGame` take the
  deadzone to be a number from 0 to 1.
- `ValidConfigKept` and `ReadyIsReady` are checked with edits of `dhc.toml` only
  while no process is looking at it (`EditsBetweenLaunches`); the theorem about `ReadyIsReady` does without.

## Bounds

| Bound | Value | Why it is enough |
|---|---|---|
| `DeviceCount`, controllers | 2 players and 4 controllers in `virtual_devices` | more controllers than players by two, so that a choice of who is next exists both among players and among those waiting; the proofs are for any number |
| `DeviceCount` in `dhc` | 1 player, 2 controllers | someone plays, someone waits; the tables by themselves are covered above |
| `Handles`, `Slots` | one HID and one XInput controller; two slots, one in `dhc` | both kinds of path, and they meet in one queue; with two slots one scan finds a removal and an arrival at once |
| `MaxBacklog` | 3 (2 in `dhc`) messages and events under way | a message can be posted while one event is queued and another is in the reply; 2 is enough for unplug-and-replug |
| `Buffers` | 6 in `raw_input`, 4 in `dhc`, 2 in `virtual_devices` | the first two are as many as can be referred to at once within the backlog, so that no handler is ever held up for want of one (fewer are too few); the tables look only at which buffer it is |
| `Inputs` | one value where inputs are not looked at, two where they are | `InputsArrive` tells two apart |
| `Scale` | 510 (InputPath), 8 (DirectInputDevice) | a common multiple of the ranges of the run; centre, ends, and points on both sides of every threshold |
| `Reported`, `Positions` | of the 256 values of a byte both ends, those next to the lower one and those on both sides of the deadzone; six positions of a stick | a value in each part of the configured and of the library's dead zone; the theorems are for all |
| `MaxReports` (InputPath) | 2 reports in one message | one that parses and one that does not, in either order |
| `MaxButtons` | 2 | the pressed sets have two and three members |
| `MaxSets` | 2 | a layout, and one on top of it |
| `MaxHeld` | 2 references | a second one while the first is held |
| `Packets`, `MaxReports` (GameApi) | 3, 3 | the number wraps around while reports come |
| `MaxLaunches`, `MaxEdits` | 2, 1 | a crash, a restart, and an edit between |
| Processes and threads in `startup` | 2 processes, one with two threads | races within a process and between processes |

## Fairness

- RawInput and Dhc: weak fairness of the handler of device changes, of the
  command and of the game's thread.  The message loop takes from its queue for as long as the
  process lives.  That the game calls `dhc_update` again and again is the way
  games use controllers; if it stops, no player's inputs change, which is
  not an error.  Nothing is assumed of controllers.
- Startup: weak fairness of every thread that is inside dhc, and of the message
  thread: the scheduler runs them.  None of a launch, a kill or an edit.
- The other modules state no liveness and no fairness.

## Proofs

Every safety invariant and every action property of a passing run, and every
refinement, is a theorem: it holds for any number of players, devices, slots,
buffers, threads and layouts, and for all histories.  Each module of proofs
rests on its module's assumption only; nothing else is assumed of the constants.

| Assumption | Says of the constants, and why the code justifies it |
|---|---|
| `VirtualDevicesAssumption`, `DhcAssumption`, `RawInputAssumption` | types; `None` is no device, player, slot or buffer; slots are finitely many numbers (XInput has four) that are no handles |
| `InputPathAssumption`, `ScaleAssumption` | capabilities as HID reports them: no usage twice, values fit their bits, a hat's values are not negative and leave one for a centred hat; `Scale` is even and a multiple of the lengths of the ranges of sticks and triggers, which excludes no range, since it is only how fine the model's grid is and any common multiple will do; what `rusty_xinput` returns is in [-1, 1]; a deadzone is a number from 0 to 1, as `config.rs:33` says |
| `DirectInputDeviceAssumption` | a game's layout lies inside the buffer and gives each entry a place of its own (`LaidOut`): a byte where only buttons fit, an aligned DWORD elsewhere.  `c_dfDIJoystick` and `c_dfDIJoystick2` do.  Of layouts that contradict themselves, or ask for an axis at an odd place (the CHECKs of `dinput.cpp:803` and `825` end the process), nothing is claimed |
| `GameApiAssumption`, `DirectInput8Assumption`, `StartupAssumption` | types, and at most as many players as a guid's bytes can number |

### The tables (`VirtualDevicesProofs`)

| Theorem | States |
|---|---|
| `TypeCorrect`, `Agreement`, `WorkConserving`, `NeutralWhenFree` | `Spec => []` of `TypeOK`, `BindingsAgree`, `NoIdlePair`, `UnboundNeutral` |
| `PlayersAreKept`, `NewestIsFirst` | `Spec =>` the action properties `KeepsItsPlayer` and `NewestFirst` |
| `Refinement` | `Spec => ImplementsTable`: the tables implement BindingTable |
| `LoopIsWhatItSays` | `Spec => []LoopBinds`: the loop of `bind_devices`, turn by turn, computes the expression `Paired` |

The inductive invariant is `IInv`, the conjunction of `TypeOK`,
`BindingsAgree`, `NoIdlePair` and `UnboundNeutral`.  The parts are proved together
because each operation leans on them all: `remove_device` finds the player to set free
through the pairing (`BindingsAgree`), and what it may leave behind is
known from who was idle before (`NoIdlePair`).
`NoIdlePair` *before* the step is what makes `bind_devices` easy: an arrival
adds one waiting controller and a removal frees one player, so that at most one pair can be
made, and `Paired` has at most one element (lemma `OnePaired`).  The lemmas
follow the code: what `bind_devices` does to a pair of tables with at most one idle
pair (`BindOne`, `BindPreserves`), what dropping a row from the middle does
(`DropEntry`), what `unbind_device` then does (`UnbindAndDrop`), what a
push does (`PushDevice`); then one lemma per action (`ArrivalIInv`,
`RemovalIInv`, `RefreshIInv`).  `PlayersAreKept`, `NewestIsFirst` and
`Refinement` use the same invariant and two lemmas that say exactly what an arrival and a
removal change (`ArrivalEffect`, `RemovalEffect`).
The existence of a greatest index, which `Max` rests on, comes from the
well-foundedness of `<` on the naturals (`LeastElement`, `GreatestIndex`).

`LoopIsWhatItSays` does not use that one pair at most is idle: `LoopBinds` compares
loop and expression for tables with any number of pairs opened.  Its loop invariant is
`TurnInv`: what the first n turns have bound, and what is left for the rest to
bind, is together what the expression binds from the start (`PairedAfter`, `BindRest`).

### Between the threads (`RawInputProofs`)

| Theorem | States |
|---|---|
| `TypeCorrect`, `CounterExact`, `ClientIsInStep` | `Spec => []` of `TypeOK`, `PendingExact`, `ClientInStep` |
| `EventsFitTheClient` | the next event is an arrival of a device the client does not know, or a removal of one it knows |
| `ChannelRefinement` | `Spec => ImplementsChannel`: step by step, EventChannel |
| `ManagerIsInStep` | with `SlotsFirst` and no `OpenFailures`, a manager without messages has exactly what is plugged in |

`ClientInStep` speaks of the moment at which nothing is under way, so that its
invariant must speak of all the others: `StreamFits` says that the events which the
client has not looked at, in the reply and in the queue, lead from the client's devices and
buffers to the manager's (`Leads`: there is a history of such views, one per event, in
which every event fits the view before it).  A handler extends the history at its end
(`LeadsOn`), the client takes it off at its beginning (`LeadsFirst`).
A handler queues several events at once; `ScanEffect`, `ArrivalEffect` and `RemovalEffect` say
of which list and to which view it leads.  `MessagesFit` is the same of
the system's messages and the registered devices: an arrival is never handled for a
device that is registered.  `Stages` says where the reply may lie, and `PendingExact`
is needed by `TypeOK` (the subtraction does not wrap).

`ManagerIsInStep` has an invariant of its own, `Prompt`: the messages lead from exactly the
registered devices to those attached, and if the slots are not what the manager
believes, a message whose handler scans them is still to come (`ScanDue`).

### The library (`DhcProofs`)

| Theorem | States |
|---|---|
| `InputRefinement`, `TablesRefinement` | `Spec => ImplementsInput`, `Spec => ImplementsTables` |
| `TypeCorrect`, `EventsAlwaysFit` | `Spec => []` of `TypeOK`, `EventsFit`: no `unwrap` of `remove_device` ends the process |
| `PlayersInStep` | `[](SlotsFirst /\ ~OpenFailures => InStep)`, the conditions under which the run checks `InStep` (see [above](#conditions-under-which-a-property-is-claimed)) |
| `TablesAgree` | the invariants of VirtualDevices hold of the library's tables |
| `TablesTakeEvents` | for every event that can be next, `add_device` and `remove_device` change the devices of the table and their buffers as the event says, and no other device's |

The invariant is those of the two modules and `Control` (what `pc` says of
request, reply and cursor).  Neither module's proof is repeated: `InputStep` and `TablesStep`
map every step of the library to a step or stutter of the one and the other, so that
`RawInputProofs` and `VirtualDevicesProofs`, instantiated, give their invariants.  The
two lean on each other in `TablesTakeEvents` and in `NextEvent`: RawInput's invariant says that the next event fits the
client, the client is the rows of `real_devices` (`BufferOf`), hence VirtualDevices is
called as it expects.  `InStep` then puts the chain together: what is plugged in is what
the manager has (`ManagerIsInStep`), that is what the tables have (`ClientInStep`), and
of those as many are bound as can be (`AsManyAsPossible`, from `NoIdlePair`).
`TablesTakeEvents` is what `InputStep` needs of the tables: the rows after `add_device` or
`remove_device`, found, unbound, taken out of the middle and rebound, are those of a client that took the event.

### The inputs (`InputPathProofs`)

| Theorem | States |
|---|---|
| `TypeCorrect` | the gamepad's fields fit BYTE and SHORT, whatever the inputs |
| `StickIsAsConfigured` | `[]StickAsConfigured`, for both kinds of override and any deadzone |
| `EndsReach`, `ArrowsReach`, `PadsForwarded` | `[]` of `EndsReachGame`, `ArrowsForwarded`, `XInputForwarded` |

The inductive invariant is `Heard`: unless a panic ended the process, the buffer is what the
configuration makes of what the controller said last, whatever reports of the
same message came before it or did not parse; and only a range with negative
values ends the process.  `ParsedInTurn` is about the loop over the
`value_caps`: since no usage comes twice, each value is set once and no later turn undoes
it (`OneValue`, `AllValues`).  From there each property is arithmetic of `lerp`, its ends and its rounding (`Clamped`).

### The DirectInput device (`DirectInputDeviceProofs`)

| Theorem | States |
|---|---|
| `TypeCorrect` | `[]TypeOK` |
| `EntriesServed` | `[]NothingLeftOut`: an entry of an accepted layout is fed, or every fitting object is in use |
| `ReadsAreSafe` | `[]WritesFit`: only a layout smaller than an earlier one makes a read fail a CHECK or leave the buffer |
| `HatsCentred`, `PropertiesReachTheAxis` | `[]` of `MissingHatsCentred`, `PropertiesAddress` |
| `EndsAndCentre`, `Monotone` | `[]FullDeflection`, `[]NeverBackwards` |

`OneTurn` and `AllTurns` prove an invariant (`TurnInv`) of the loop of `SetDataFormat`
from any state that earlier layouts, accepted or given up half way, may
have left: objects are consumed once, what was served stays served
(`ServedStays`), nothing lies outside the layout's buffer, and within a first layout the places of
objects and defaults are apart.  `LayoutInv` carries it over the calls; it remembers the largest
layout, because a smaller one does not take back the formats of the first (the run
`format_smaller`).  The axes have the invariant `SettingsTyped`: whatever a game sets passed the checks of
`SetProperty`.  The rest is arithmetic: what a deadzone and a saturation
snap keeps its order (`SnapMonotone`), so does the division that rounds
towards zero (`TruncateMonotone`), and at both ends it is exact
(`TruncateExact`).  The settings and values are exact fractions, as in the
model: the rounding of doubles is not proved about.

### The other modules

| Module | Theorem | States | Inductive invariant |
|---|---|---|---|
| `GameApiProofs` | `TypeCorrect`, `AnswersAreFresh` | `[]TypeOK`, `Fresh` | `Order`: nothing is shown that was not reported, a thread was given nothing newer than what is shown, and once it may be answered it finds inputs no older than what had been reported when it asked. The second needs the first, since another thread's update may come between and must not take inputs back |
| `DirectInput8Proofs` | `ShownAreCreated` | `[]ShownCanBeCreated` | none but the property itself, since the configuration does not change. What it rests on is that a number survives being cut into bytes, turned around, turned back and put together (`GuidRoundTrip`), and that the gamepads come last in the list (`EnumDevicesShows`) |
| `DirectInput8Proofs` | `ExactCounts` | `[]CountsExact` | `MadeTogether`: an interface and its devices come into being at once, so that a device created through an interface that is held has a count. That a count is one more than what is held is what keeps `Release` from deleting anything (`ReleaseHeld`) |
| `StartupProofs` | `TypeCorrect`, `ReadyMeansReady` | `[]TypeOK`, `[]ReadyIsReady` | `OnceWorks` and `LazyWorks`: one thread at most is at each of the two, what it has done so far is known from where it is, and who waits is let past only at the end; `NobodyLeft`: a process that ended has nobody inside, so that it can be launched anew |
| `StartupProofs` | `ConfigSurvives` | `EditsBetweenLaunches` implies `ValidConfigKept` | `WritersFoundNone`: while somebody is about to write the file, it holds no configuration of the user's |

### Loops, and what is not proved

The loops that are proved about (`Turns` of `SetDataFormat`, `Parsed` of the HID
parser, `BindTurns` of `bind_devices`) are recursive functions over the number of turns
done.  An induction over the turns is written as an argument about
the least turn after which the loop's invariant does not hold (`LeastElement`),
since induction theorems with an operator parameter cannot be used.

One definition was found wrong by a proof: the `CASE` of `StickAsConfigured` had
arms that overlap when the dpad overrides and a deadzone is set, so that
which of them counted was left open.  It is now two implications.

Model-checked only:

- Liveness (`Delivered`, `Released`, `InputsArrive`, `GetsReady`): the prover does not do
  liveness under fairness or ENABLED.
- The four runs that end in a counterexample; their question is whether there is one.

## Divergences met while modelling

The four with a run are above.  The following are disagreements of the code with
itself or its documents that the modules contain as they are (the named definition shows
it); no run is spent on them.

- The dpad override and the deadzone of `dhc.toml` are described for the left stick of any
  controller (`config.rs:27`, `33`, `34`) and are applied to HID controllers only: `mangle_inputs` is called
  at `mod.rs:140`, the XInput path writes what it reads (`mod.rs:329`). *InputPath!read_xinput.*
- The sticks of an XInput controller have `rusty_xinput`'s dead zone cut out and the rest
  stretched (`xinput.rs:46`; `:45` asks "TODO: Use raw?"), whatever `dhc.toml` says: a game that
  reads raw sticks sees other values than without dhc, and has its own dead zone on top. *InputPath!InputsOfPad.*
- A hat that does not count from zero is shown turned: `hid.rs:343` uses the value without
  its `LogicalMin`, which the sticks' values are taken relative to. *InputPath!HatOf.*
- An XInput slot that changes after the scan its message causes, or whose handle was never opened, is
  noticed with the next message only (`mod.rs:310`). *RawInput!handle_device_removal, Answering.*
- `SetDataFormat` refuses a layout in the middle of it and keeps what it has matched so far
  (`dinput.cpp:604`): those objects are not there for the next layout. *DirectInputDevice!MatchEntry.*
- A second `SetDataFormat` finds the hat consumed, puts its offset among the defaults, and the
  hat reads as centred for ever (`dinput.cpp:590` to `599`), while
  `dhc_dinput.h:155` means the defaults for fields that are not found. *DirectInputDevice!NotFound.*
- A hat that a layout asks for by type with no guid, and that is not found, is
  left at 0, which is north (`dinput.cpp:598`). *DirectInputDevice!NotFound.*
- The capabilities announce six axes (`dinput.cpp:249`), the enumeration
  shows four (`ps4.cpp:41`, `ENABLE_TRIGGERS` is never set).
  *DirectInputDevice!GetCapabilities, GeneratePS4EmulatedDeviceObjects.*
- An axis with a negative logical minimum makes `set_value` panic
  (`hid.rs:334`, `types.rs:13`). *InputPath!set_value; `EndsReachGame`
  says that nothing else does.*
- The Z rotation of a HID controller moves the left stick (`hid.rs:339`), while
  `ps4.cpp:33` to `39` has it as the right stick's. *InputPath!AxisOfUsage.*
- `GetDeviceState` reads what the last `dhc_update` left (`dinput.cpp:522`) and
  updates nothing itself; `GetCapabilities` (`dinput.cpp:245`) does not set
  `DIDC_POLLEDDEVICE`, which would tell a game that it has to call `Poll`. *GameApi!GetDeviceState.*
- The default of a hat is written without a look at the size of the buffer (`dinput.cpp:526`),
  as the writes of objects are not. *DirectInputDevice!GetDeviceState, outcome "overrun".*
- A device whose name can be read but whose preparsed data cannot leaves its file open: the
  `?` at `hid.rs:536` returns before `CloseHandle`. Not modelled: handles do not run out.
- A `dhc.toml` that is text but does not parse is overwritten (`config.rs:93`), with the user's
  settings in it (`README.md:31`). *Startup!TruncateConfig.*
- `packet_number++` is not atomic, as the comment above it concedes:
  two states may have one number (`xinput1_3.cpp:54` to `56`). *GameApi!ReadPacket.*
- The README speaks of the directory of `dhc.dll`, the code uses that of the
  executable (`lib.rs:40` to `42`). Not modelled: the path is fixed.

## What is not modelled

- Logging beyond its set-up, wording, names of constants,
  conversion of strings: no state that anything depends on.
- Two threads that call one DirectInput device at once: there is no lock, so that
  `SetDataFormat` beside `GetDeviceState` is a data race.  GameApi has the threads, DirectInputDevice one caller.
- `RawInputCommand::UnregisterType`: never sent.
- Memory: triple buffers are atomic cells (the crate is external), handles and allocations do
  not run out, a struct is never too small.  Reading beyond `devices_`
  (`dinput.cpp:88`) is `Dies("undefined")` in DirectInput8.
- Floating-point rounding, which may put a value a step beside the one of the model; NaN from an
  empty logical range (`hid.rs:228`).
- The test program, build files and the generated header.

## Plan

Done: all modules; one run per question; every safety property, action
property and refinement of the passing runs proved.

Next, in this order:

1. What the composition inherits: KeepsItsPlayer and NewestFirst stated of
   Dhc's own steps, not only of VirtualDevices'.
2. InputPath and Dhc joined: that `mangle_inputs` and the parser are the functions that
   RawInput takes as constants, so that `StickAsConfigured` holds of a bound player
   after an update.
3. `Startup` before `Dhc`: that `dhc_update` finds the types registered (`ReadyIsReady`)
   is an assumption of RawInput's initial state today.
4. A second player in Dhc, whose liveness takes TLC too long today;
   `unregister_device_type` if it comes to be called.
