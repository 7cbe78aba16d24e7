------------------------------- MODULE BindLoop -------------------------------
(***************************************************************************)
(* The loop of State::bind_devices, turn by turn.  VirtualDevices          *)
(* describes its result in one expression, which is what the proofs are    *)
(* about; here the two are compared.                                       *)
(***************************************************************************)
EXTENDS VirtualDevices

(* Mutant: the inner loop runs from the oldest device (no .rev()).         *)
BindNewestForward(rdevs) == Min(UnboundReal(rdevs))

(* The inner loop runs from the newest device to the first unbound one.    *)
BindNewest(rdevs) == Max(UnboundReal(rdevs))

(* One turn of the outer loop, which is over once no real device is left.  *)
BindTurn(acc, v) ==
  IF acc.over \/ acc.virtual[v].binding # None THEN acc
  ELSE IF UnboundReal(acc.real) = {} THEN [acc EXCEPT !.over = TRUE]
  ELSE LET r == BindNewest(acc.real)
       IN  [acc EXCEPT !.virtual[v].binding = acc.real[r].id,
                       !.real[r].binding = v]

BindTurns(vdevs, rdevs) ==
  LET turns[i \in 0..DeviceCount] ==
        IF i = 0 THEN [virtual |-> vdevs, real |-> rdevs, over |-> FALSE]
        ELSE BindTurn(turns[i - 1], i - 1)
  IN  turns

BindLoop(vdevs, rdevs) == BindTurns(vdevs, rdevs)[DeviceCount]

-----------------------------------------------------------------------------
(* The tables with the real devices of a set S unbound on both sides.      *)
VirtualWithout(S) ==
  [v \in VirtualDeviceId |->
     IF \E r \in S : real_devices[r].binding = v
     THEN [virtual_devices[v] EXCEPT !.binding = None] ELSE virtual_devices[v]]

RealWithout(S) ==
  [r \in DOMAIN real_devices |->
     IF r \in S THEN [real_devices[r] EXCEPT !.binding = None] ELSE real_devices[r]]

(* However many of the pairs are open, the loop closes them as the         *)
(* expression in VirtualDevices says: the theorems about bind_devices are  *)
(* theorems about the loop of lib.rs lines 126 to 150.                     *)
LoopBinds ==
  \A S \in SUBSET DOMAIN real_devices :
    LET after == BindLoop(VirtualWithout(S), RealWithout(S))
    IN  [virtual |-> after.virtual, real |-> after.real]
          = bind_devices(VirtualWithout(S), RealWithout(S))
===============================================================================
