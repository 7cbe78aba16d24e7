----------------------------- MODULE EventChannel -----------------------------
(***************************************************************************)
(* What the input thread promises the game thread: the comings and goings  *)
(* of devices reach it in the order in which they were noticed, each of    *)
(* them once, however the counter, the queue, the command and the reply of *)
(* dhc/src/input/mod.rs carry them.                                        *)
(***************************************************************************)
EXTENDS Naturals, Sequences, FiniteSets

CONSTANT Devices

VARIABLES
  noticed,  \* devices the sender has announced and not retracted
  log,      \* events the receiver has not taken yet, oldest first
  known     \* devices the receiver believes to be there

vars == <<noticed, log, known>>

Came(d) == [kind |-> "came", device |-> d]
Went(d) == [kind |-> "went", device |-> d]

(* A list of distinct devices that has exactly the members of set S.       *)
Lists(S) == {s \in [1..Cardinality(S) -> S] : \A d \in S : \E i \in DOMAIN s : s[i] = d}

Init ==
  /\ noticed = {}
  /\ log = <<>>
  /\ known = {}

(* One round of the sender: those that left, then those that arrived.      *)
Notice(left, arrived) ==
  /\ left \subseteq noticed
  /\ arrived \cap noticed = {}
  /\ noticed' = (noticed \ left) \cup arrived
  /\ \E l \in Lists(left), a \in Lists(arrived) :
       log' = log \o [i \in DOMAIN l |-> Went(l[i])]
                  \o [i \in DOMAIN a |-> Came(a[i])]
  /\ UNCHANGED known

Take ==
  /\ log # <<>>
  /\ LET e == Head(log)
     IN  IF e.kind = "came"
         THEN e.device \notin known /\ known' = known \cup {e.device}
         ELSE e.device \in known /\ known' = known \ {e.device}
  /\ log' = Tail(log)
  /\ UNCHANGED noticed

Next ==
  \/ \E left, arrived \in SUBSET Devices : Notice(left, arrived)
  \/ Take

Spec == Init /\ [][Next]_vars
===============================================================================
