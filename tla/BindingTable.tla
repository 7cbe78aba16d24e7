----------------------------- MODULE BindingTable -----------------------------
(***************************************************************************)
(* What dhc promises the game about who plays as whom, with no trace of    *)
(* how the two device tables of dhc/src/lib.rs keep it.  There is a fixed  *)
(* set of players (the virtual devices); a device that arrives is given a  *)
(* free player if there is one and waits otherwise; when a device that     *)
(* plays leaves, one waiting device takes its place.  Nobody else moves.   *)
(***************************************************************************)
CONSTANTS
  Players,  \* the virtual devices of the game
  Devices,  \* the real devices that may come and go
  Nobody    \* what a free player is bound to

VARIABLES
  present,  \* the devices that are plugged in, as far as dhc knows
  plays     \* plays[p] is the device that drives player p, or Nobody

vars == <<present, plays>>

Free    == {p \in Players : plays[p] = Nobody}
Waiting == {d \in present : \A p \in Players : plays[p] # d}

Init ==
  /\ present = {}
  /\ plays = [p \in Players |-> Nobody]

Arrive(d) ==
  /\ d \notin present
  /\ present' = present \cup {d}
  /\ \/ Free = {} /\ UNCHANGED plays
     \/ \E p \in Free : plays' = [plays EXCEPT ![p] = d]

Leave(d) ==
  /\ d \in present
  /\ present' = present \ {d}
  /\ \/ d \in Waiting /\ UNCHANGED plays
     \/ \E p \in Players :
          /\ plays[p] = d
          /\ \/ Waiting = {} /\ plays' = [plays EXCEPT ![p] = Nobody]
             \/ \E w \in Waiting : plays' = [plays EXCEPT ![p] = w]

Next == \E d \in Devices : Arrive(d) \/ Leave(d)

Spec == Init /\ [][Next]_vars
===============================================================================
