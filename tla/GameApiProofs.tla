----------------------------- MODULE GameApiProofs -----------------------------
(***************************************************************************)
(* Proofs of what MCGameApi checks, for any number of threads, virtual   *)
(* devices and reports, and any width of the packet number.                *)
(***************************************************************************)
EXTENDS GameApi, TLAPS

(* The types of the variables that TypeOK leaves open.                     *)
OtherTypes ==
  /\ reported \in [Devices -> 0..MaxReports]
  /\ pc \in [Threads -> {"idle", "packet", "increment", "update", "get", "poll"}]
  /\ index \in [Threads -> Nat]
  /\ asked \in [Threads -> [Devices -> Nat]]
  /\ seen \in [Threads -> [Devices -> [report : Nat, since : Nat]]]

(* Nothing is shown that was not reported, no thread has been given or has *)
(* asked after a later report than there is, and one that may be answered  *)
(* finds inputs at least as new as what it asked after.                    *)
Order ==
  /\ \A d \in Devices : inputs[d] <= reported[d]
  /\ \A t \in Threads, d \in Devices :
       /\ asked[t][d] <= reported[d]
       /\ seen[t][d].report <= inputs[d]
       /\ pc[t] \in {"idle", "get"} => asked[t][d] <= inputs[d]

IInv == TypeOK /\ OtherTypes /\ Order

-----------------------------------------------------------------------------
LEMMA DevicesAreNaturals == Devices \subseteq Nat
  BY GameApiAssumption DEF Devices

LEMMA IndexOK ==
  ASSUME NEW i \in UserIndexes, DeviceIndexOK(i)
  PROVE  xinput_enabled /\ i \in Devices
  BY GameApiAssumption DEF DeviceIndexOK, Devices

LEMMA InitIInv == Init => IInv
  <1> SUFFICES ASSUME Init PROVE IInv
    OBVIOUS
  <1>1. 0 \in 0..(Packets - 1) /\ 0 \in 0..MaxReports
    BY GameApiAssumption
  <1>2. TypeOK
    BY <1>1 DEF Init, TypeOK
  <1>3. OtherTypes
    BY <1>1 DEF Init, OtherTypes
  <1>4. Order
    BY DEF Init, Order
  <1>5. QED
    BY <1>2, <1>3, <1>4 DEF IInv

(* The next packet number is one.                                          *)
LEMMA NextPacket ==
  ASSUME NEW p \in 0..(Packets - 1)
  PROVE  (p + 1) % Packets \in 0..(Packets - 1)
  BY GameApiAssumption

LEMMA NextIInv == IInv /\ [Next]_vars => IInv'
  <1> SUFFICES ASSUME IInv, [Next]_vars PROVE IInv'
    OBVIOUS
  <1> USE DEF IInv
  <1>1. CASE UNCHANGED vars
    BY <1>1 DEF vars, TypeOK, OtherTypes, Order
  <1>2. ASSUME NEW d \in Devices, Report(d) PROVE IInv'
    <2>1. d \in Nat /\ reported[d] \in 0..MaxReports /\ reported[d] + 1 \in 0..MaxReports
      BY <1>2, DevicesAreNaturals, GameApiAssumption DEF Report, OtherTypes
    <2>2. OtherTypes'
      BY <1>2, <2>1 DEF Report, OtherTypes
    <2>3. TypeOK'
      BY <1>2 DEF Report, TypeOK
    <2>4. \A e \in Devices : reported[e] <= reported'[e] /\ reported[e] \in Nat
                              /\ reported'[e] \in Nat
      BY <1>2, <2>1, <2>2, GameApiAssumption DEF Report, OtherTypes
    <2>5. Order'
      BY <1>2, <2>4, GameApiAssumption DEF Report, OtherTypes, TypeOK, Order
    <2>6. QED
      BY <2>2, <2>3, <2>5
  <1>3. ASSUME NEW t \in Threads, NEW i \in UserIndexes, GetState(t, i) PROVE IInv'
    <2>1. xinput_enabled /\ i \in Devices /\ i \in Nat
      BY <1>3, IndexOK, DevicesAreNaturals DEF GetState
    <2>2. reported \in [Devices -> Nat]
      BY GameApiAssumption DEF OtherTypes
    <2>3. TypeOK'
      BY <1>3, <2>1 DEF GetState, TypeOK, OtherTypes
    <2>4. OtherTypes'
      BY <1>3, <2>1, <2>2 DEF GetState, OtherTypes
    <2>5. Order'
      BY <1>3, <2>2 DEF GetState, Order, OtherTypes
    <2>6. QED
      BY <2>3, <2>4, <2>5
  <1>4. ASSUME NEW t \in Threads, NEW i \in UserIndexes, Refuse(t, i) \/ Answer(t, i)
        PROVE IInv'
    BY <1>4, <1>1 DEF Refuse, Answer
  <1>5. ASSUME NEW t \in Threads, ReadPacket(t) PROVE IInv'
    <2>1. TypeOK'
      BY <1>5 DEF ReadPacket, TypeOK, OtherTypes
    <2>2. OtherTypes'
      BY <1>5 DEF ReadPacket, OtherTypes
    <2>3. Order'
      BY <1>5 DEF ReadPacket, Order, OtherTypes
    <2>4. QED
      BY <2>1, <2>2, <2>3
  <1>6. ASSUME NEW t \in Threads, WritePacket(t) PROVE IInv'
    <2>1. (packet[t] + 1) % Packets \in 0..(Packets - 1)
      BY NextPacket DEF TypeOK
    <2>2. TypeOK'
      BY <1>6, <2>1 DEF WritePacket, TypeOK, OtherTypes
    <2>3. OtherTypes'
      BY <1>6 DEF WritePacket, OtherTypes
    <2>4. Order'
      BY <1>6 DEF WritePacket, Order, OtherTypes
    <2>5. QED
      BY <2>2, <2>3, <2>4
  <1>7. ASSUME NEW t \in Threads, Update(t) PROVE IInv'
    <2>1. TypeOK'
      BY <1>7 DEF Update, TypeOK, OtherTypes
    <2>2. OtherTypes'
      BY <1>7 DEF Update, OtherTypes
    <2>3. \A d \in Devices : inputs'[d] <= reported'[d]
      BY <1>7, GameApiAssumption DEF Update, OtherTypes
    <2>4. \A u \in Threads, d \in Devices :
            /\ asked'[u][d] <= inputs'[d]
            /\ seen'[u][d].report <= inputs'[d]
      <3> SUFFICES ASSUME NEW u \in Threads, NEW d \in Devices
                   PROVE  asked[u][d] <= reported[d] /\ seen[u][d].report <= reported[d]
        BY <1>7 DEF Update
      <3>1. seen[u][d].report \in Nat /\ inputs[d] \in Nat /\ reported[d] \in Nat
        BY GameApiAssumption DEF OtherTypes, TypeOK
      <3>2. seen[u][d].report <= inputs[d] /\ inputs[d] <= reported[d]
        BY DEF Order
      <3>3. QED
        BY <3>1, <3>2 DEF Order
    <2>5. Order'
      BY <1>7, <2>3, <2>4 DEF Update, Order
    <2>6. QED
      BY <2>1, <2>2, <2>5
  <1>8. ASSUME NEW t \in Threads, NEW d \in Devices, Gets(t, d),
               pc[t] \in {"get", "idle"}, pc' \in {pc, [pc EXCEPT ![t] = "idle"]},
               UNCHANGED <<xinput_enabled, packet_number, reported, inputs, index, asked,
                           packet>>
        PROVE  IInv'
    <2>1. inputs[d] \in Nat /\ asked[t][d] \in Nat
      BY GameApiAssumption DEF TypeOK, OtherTypes
    <2>2. TypeOK'
      BY <1>8 DEF TypeOK, OtherTypes
    <2>3. OtherTypes'
      BY <1>8, <2>1 DEF Gets, OtherTypes
    <2>4. \A u \in Threads, e \in Devices : seen'[u][e].report <= inputs[e]
      BY <1>8, <2>1 DEF Gets, Order, OtherTypes
    <2>5. Order'
      BY <1>8, <2>4 DEF Order, OtherTypes
    <2>6. QED
      BY <2>2, <2>3, <2>5
  <1>9. ASSUME NEW t \in Threads, GetInputs(t) PROVE IInv'
    <2>1. index[t] \in Devices
      BY <1>9 DEF GetInputs, TypeOK
    <2>2. QED
      BY <1>8, <1>9, <2>1 DEF GetInputs
  <1>10. ASSUME NEW t \in Threads, NEW d \in Devices, GetDeviceState(t, d) PROVE IInv'
    BY <1>8, <1>10 DEF GetDeviceState
  <1>11. ASSUME NEW t \in Threads, Poll(t) PROVE IInv'
    <2>1. reported \in [Devices -> Nat]
      BY GameApiAssumption DEF OtherTypes
    <2>2. TypeOK'
      BY <1>11 DEF Poll, TypeOK, OtherTypes
    <2>3. OtherTypes'
      BY <1>11, <2>1 DEF Poll, OtherTypes
    <2>4. Order'
      BY <1>11, <2>1 DEF Poll, Order, OtherTypes
    <2>5. QED
      BY <2>2, <2>3, <2>4
  <1>12. QED
    BY <1>1, <1>2, <1>3, <1>4, <1>5, <1>6, <1>7, <1>9, <1>10, <1>11 DEF Next

(* The strengthening holds of every reachable state.                       *)
THEOREM Invariance == Spec => []IInv
  BY InitIInv, NextIInv, PTL DEF Spec

-----------------------------------------------------------------------------
(* No thread is ever inside dhc with an index that device_state would      *)
(* panic on, and the packet number stays a DWORD, however often it wraps.  *)
THEOREM TypeCorrect == Spec => []TypeOK
  <1>1. IInv => TypeOK
    BY DEF IInv
  <1>2. QED
    BY <1>1, Invariance, PTL

(* What a thread is given.                                                *)
LEMMA GetsFresh ==
  ASSUME IInv, NEW t \in Threads, NEW d \in Devices,
         pc[t] \in {"get", "idle"}, Gets(t, d)
  PROVE  \A u \in Threads, e \in Devices :
           seen[u][e] = seen'[u][e] \/
             /\ seen'[u][e].report >= seen'[u][e].since
             /\ seen'[u][e].report >= seen[u][e].report
  <1>1. inputs[d] \in Nat /\ asked[t][d] \in Nat /\ seen[t][d].report \in Nat
    BY GameApiAssumption DEF IInv, TypeOK, OtherTypes
  <1>2. asked[t][d] <= inputs[d] /\ seen[t][d].report <= inputs[d]
    BY DEF IInv, Order
  <1>3. seen'[t][d] = [report |-> inputs[d], since |-> asked[t][d]]
    BY DEF Gets, IInv, OtherTypes
  <1>4. \A u \in Threads, e \in Devices : u # t \/ e # d => seen'[u][e] = seen[u][e]
    BY DEF Gets, IInv, OtherTypes
  <1>5. QED
    BY <1>1, <1>2, <1>3, <1>4

(* What a thread was given is never older than what it had asked after.    *)
SeenFresh ==
  \A t \in Threads, d \in Devices : seen[t][d].report >= seen[t][d].since

LEMMA StepFresh ==
  ASSUME IInv, SeenFresh, [Next]_vars
  PROVE  \A u \in Threads, e \in Devices :
           /\ seen'[u][e].report >= seen'[u][e].since
           /\ seen'[u][e].report >= seen[u][e].report
  <1>1. CASE UNCHANGED seen
    <2>1. \A u \in Threads, e \in Devices : seen[u][e].report \in Nat
      BY DEF IInv, OtherTypes
    <2>2. QED
      BY <1>1, <2>1 DEF SeenFresh
  <1>2. ASSUME NEW t \in Threads, NEW d \in Devices,
               pc[t] \in {"get", "idle"}, Gets(t, d)
        PROVE  \A u \in Threads, e \in Devices :
                 /\ seen'[u][e].report >= seen'[u][e].since
                 /\ seen'[u][e].report >= seen[u][e].report
    <2>1. \A u \in Threads, e \in Devices : seen[u][e].report \in Nat
      BY DEF IInv, OtherTypes
    <2>2. QED
      BY <1>2, <2>1, GetsFresh DEF SeenFresh
  <1>3. ASSUME NEW t \in Threads, GetInputs(t)
        PROVE  index[t] \in Devices /\ pc[t] = "get" /\ Gets(t, index[t])
    BY <1>3 DEF GetInputs, IInv, TypeOK
  <1>4. QED
    BY <1>1, <1>2, <1>3 DEF Next, vars, Report, GetState, Refuse, Answer, ReadPacket,
       WritePacket, Poll, Update, GetDeviceState

LEMMA SeenStaysFresh == Spec => []SeenFresh
  <1>1. Init => SeenFresh
    BY DEF Init, SeenFresh
  <1>2. IInv /\ SeenFresh /\ [Next]_vars => SeenFresh'
    BY StepFresh DEF SeenFresh
  <1>3. QED
    BY <1>1, <1>2, Invariance, PTL DEF Spec

(* Whatever the other threads do between a thread's dhc_update and its     *)
(* dhc_get_inputs, XInputGetState returns inputs at least as new as the    *)
(* newest report before the call, GetDeviceState as the newest before the  *)
(* thread's last Poll, and neither ever goes back.                         *)
THEOREM AnswersAreFresh == Spec => Fresh
  <1>1. IInv /\ SeenFresh /\ [Next]_vars =>
          [\A t \in Threads, d \in Devices :
             /\ seen'[t][d].report >= seen'[t][d].since
             /\ seen'[t][d].report >= seen[t][d].report]_vars
    BY StepFresh
  <1>2. QED
    BY <1>1, Invariance, SeenStaysFresh, PTL DEF Spec, Fresh
===============================================================================
