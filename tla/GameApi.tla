-------------------------------- MODULE GameApi --------------------------------
(***************************************************************************)
(* The calls through which the threads of a game learn what a controller   *)
(* says: XInputGetState of xinput1_3/xinput1_3.cpp in its steps, between   *)
(* which the others run, and the functions beside it that only check the   *)
(* index and answer; or, when dhc.toml says "directinput", Poll and        *)
(* GetDeviceState of the devices of dinput8/dinput.cpp.                    *)
(*                                                                         *)
(* dhc_update is one step here: Context::update holds the write lock       *)
(* throughout (module Dhc), and dhc_get_inputs takes the read lock.  What  *)
(* a controller reports is numbered: report n is newer than report n - 1.  *)
(***************************************************************************)
EXTENDS Integers

CONSTANTS
  Threads,
  UserIndexes,  \* the user_index a game may pass
  DeviceCount,  \* CONFIG.device_count
  Packets,      \* 2^32 in the code, the values of a DWORD
  MaxReports    \* bound on the reports of the controllers

ASSUME GameApiAssumption ==
  /\ UserIndexes \subseteq Nat /\ DeviceCount \in Nat
  /\ Packets \in Nat \ {0} /\ MaxReports \in Nat

VARIABLES
  xinput_enabled, \* CONFIG.mode is XInput
  packet_number,  \* the static of XInputGetState
  reported,       \* the newest report of the controller of each device
  inputs,         \* the report its virtual device shows
  pc, index,      \* per thread: where it is, and the user_index it passed
  asked,          \* ... reported, when it last called what calls dhc_update
  packet,         \* ... the packet number it has read
  seen            \* ... and device: the report it was given last, and the
                  \* newest one when it had asked before

vars == <<xinput_enabled, packet_number, reported, inputs, pc, index, asked,
          packet, seen>>

Devices == 0..(DeviceCount - 1)

Init ==
  /\ xinput_enabled \in BOOLEAN
  /\ packet_number = 0
  /\ reported = [d \in Devices |-> 0]
  /\ inputs = [d \in Devices |-> 0]
  /\ pc = [t \in Threads |-> "idle"]
  /\ index = [t \in Threads |-> 0]
  /\ asked = [t \in Threads |-> reported]
  /\ packet = [t \in Threads |-> 0]
  /\ seen = [t \in Threads |-> [d \in Devices |-> [report |-> 0, since |-> 0]]]

(* A controller reports something else.                                    *)
Report(d) ==
  /\ reported[d] < MaxReports
  /\ reported' = [reported EXCEPT ![d] = @ + 1]
  /\ UNCHANGED <<xinput_enabled, packet_number, inputs, pc, index, asked, packet, seen>>

(* Mutant: the mode is not looked at.                                      *)
DeviceIndexOKAnyMode(i) == i < DeviceCount

(* CHECK_DEVICE_INDEX.                                                     *)
DeviceIndexOK(i) == xinput_enabled /\ i < DeviceCount

(* A call that is refused returns ERROR_DEVICE_NOT_CONNECTED.               *)
Refuse(t, i) == pc[t] = "idle" /\ ~DeviceIndexOK(i) /\ UNCHANGED vars

(* The other functions answer without asking the library for anything.     *)
Answer(t, i) == pc[t] = "idle" /\ DeviceIndexOK(i) /\ UNCHANGED vars

(* XInputGetState, past the checks.                                        *)
GetState(t, i) ==
  /\ pc[t] = "idle"
  /\ DeviceIndexOK(i)
  /\ pc' = [pc EXCEPT ![t] = "packet"]
  /\ index' = [index EXCEPT ![t] = i]
  /\ asked' = [asked EXCEPT ![t] = reported]
  /\ UNCHANGED <<xinput_enabled, packet_number, reported, inputs, packet, seen>>

(* state->dwPacketNumber = packet_number++, which is not atomic.           *)
ReadPacket(t) ==
  /\ pc[t] = "packet"
  /\ pc' = [pc EXCEPT ![t] = "increment"]
  /\ packet' = [packet EXCEPT ![t] = packet_number]
  /\ UNCHANGED <<xinput_enabled, packet_number, reported, inputs, index, asked, seen>>

WritePacket(t) ==
  /\ pc[t] = "increment"
  /\ pc' = [pc EXCEPT ![t] = "update"]
  /\ packet_number' = (packet[t] + 1) % Packets
  /\ UNCHANGED <<xinput_enabled, reported, inputs, index, asked, packet, seen>>

(* EmulatedDirectInputDevice8::Poll of any device; those are made only if  *)
(* the emulation is not XInput.                                            *)
Poll(t) ==
  /\ pc[t] = "idle"
  /\ ~xinput_enabled
  /\ pc' = [pc EXCEPT ![t] = "poll"]
  /\ asked' = [asked EXCEPT ![t] = reported]
  /\ UNCHANGED <<xinput_enabled, packet_number, reported, inputs, index, packet, seen>>

(* Mutant: an update that another thread is at is not waited for.          *)
UpdateSkipped(t) ==
  /\ pc[t] \in {"update", "poll"}
  /\ pc' = [pc EXCEPT ![t] = IF @ = "poll" THEN "idle" ELSE "get"]
  /\ inputs' = IF \E u \in Threads \ {t} : pc[u] = pc[t] THEN inputs ELSE reported
  /\ UNCHANGED <<xinput_enabled, packet_number, reported, index, asked, packet, seen>>

(* dhc_update: every virtual device shows what its controller reports now. *)
Update(t) ==
  /\ pc[t] \in {"update", "poll"}
  /\ pc' = [pc EXCEPT ![t] = IF @ = "poll" THEN "idle" ELSE "get"]
  /\ inputs' = reported
  /\ UNCHANGED <<xinput_enabled, packet_number, reported, index, asked, packet, seen>>

(* What dhc_get_inputs gives thread t of device d.                         *)
Gets(t, d) ==
  seen' = [seen EXCEPT ![t][d] = [report |-> inputs[d], since |-> asked[t][d]]]

(* The rest of XInputGetState converts it (module InputPath).              *)
GetInputs(t) ==
  /\ pc[t] = "get"
  /\ pc' = [pc EXCEPT ![t] = "idle"]
  /\ Gets(t, index[t])
  /\ UNCHANGED <<xinput_enabled, packet_number, reported, inputs, index, asked, packet>>

(* GetDeviceState, which does not update (module DirectInputDevice has     *)
(* what it makes of the inputs).                                           *)
GetDeviceState(t, d) ==
  /\ pc[t] = "idle"
  /\ ~xinput_enabled
  /\ Gets(t, d)
  /\ UNCHANGED <<xinput_enabled, packet_number, reported, inputs, pc, index, asked, packet>>

Next ==
  \/ \E d \in Devices : Report(d)
  \/ \E t \in Threads :
       \/ \E i \in UserIndexes : GetState(t, i) \/ Refuse(t, i) \/ Answer(t, i)
       \/ ReadPacket(t) \/ WritePacket(t) \/ Poll(t) \/ Update(t) \/ GetInputs(t)
       \/ \E d \in Devices : GetDeviceState(t, d)

Spec == Init /\ [][Next]_vars

-----------------------------------------------------------------------------
(* The static is a DWORD, and no thread is inside with an index that       *)
(* device_state (lib.rs line 246) would panic on.                          *)
TypeOK ==
  /\ packet_number \in 0..(Packets - 1)
  /\ packet \in [Threads -> 0..(Packets - 1)]
  /\ inputs \in [Devices -> 0..MaxReports]
  /\ \A t \in Threads :
       pc[t] \in {"packet", "increment", "update", "get"} =>
         xinput_enabled /\ index[t] \in Devices

(* However the threads of a game interleave, XInputGetState returns inputs *)
(* at least as new as the controller's last report before the call, and    *)
(* GetDeviceState as the last one before the thread's last Poll; and none  *)
(* of them ever returns older inputs than it has returned before.          *)
Fresh ==
  [][\A t \in Threads, d \in Devices :
       /\ seen'[t][d].report >= seen'[t][d].since
       /\ seen'[t][d].report >= seen[t][d].report]_vars

===============================================================================
